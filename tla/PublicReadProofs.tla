-------------------------- MODULE PublicReadProofs --------------------------
(***************************************************************************)
(* Theorems about what explore.py serves to the public: first about        *)
(* SpotCache, the responses in Redis, then about Explore, the queries      *)
(* behind them.  The two models share no constant and no variable.         *)
(*                                                                         *)
(* SpotCache.  That a finished request sees every completed write is not   *)
(* inductive.  What makes it true is what the version in a key stands for: *)
(* nothing is stored above the current version, and whatever is stored, or *)
(* still in a reader's hands, under the current version reflects every     *)
(* write whose writer has raised the version.  A reader that began under   *)
(* version v then carries the promise along, whatever the current version  *)
(* becomes.                                                                *)
(*                                                                         *)
(* Explore, for any number of spots, clients and requests of staff, any    *)
(* rows and any limits.  A deletion knows the spots that have its code, or *)
(* they were given it late.  A walk is exact because what a client was     *)
(* shown lies behind its cursor, and what matches and was not shown lies   *)
(* ahead of it: a page is what comes first of the rest, and the cursor is  *)
(* its last row.  That needs the order of the rows to be total and a first *)
(* and a last row to exist, which hold because a table is finite.          *)
(***************************************************************************)
EXTENDS SpotCache, Explore, FiniteSetTheorems, WellFoundedInduction, TLAPS

(***************************************************************************)
(* The cache.                                                              *)
(***************************************************************************)

\* Whatever the cache holds under version v of s reflects the first n writes.
CachedReflects(s, v, n) == entry[s][v] # NoEntry => entry[s][v] >= n

\* So does whatever a reader is about to store there.
InHandReflects(s, v, n) ==
  \A q \in Readers :
    rpc[q] = "queried" /\ scope[q] = s /\ key[q] = v => value[q] >= n

Reflects(s, v, n) == CachedReflects(s, v, n) /\ InHandReflects(s, v, n)

Current(s) == version[Family(s)]

\* Nobody counts on a write to s the database does not have, and nobody raises a
\* version before its commit.
CommittedInv(s) ==
  /\ \A w \in Writers : wpc[w] # "early"
  /\ acked[s] <= data[s]
  /\ \A w \in Writers : made[w][s] <= data[s]
  /\ \A r \in Readers : scope[r] = s => floor[r] <= acked[s]

\* Keys above the current version are not in use.
VersionInv(s) ==
  /\ \A r \in Readers : rpc[r] # "idle" /\ scope[r] = s => key[r] <= Current(s)
  /\ \A v \in Versions : v > Current(s) => entry[s][v] = NoEntry

\* The current version reflects what writers have returned or will return.
CurrentInv(s) ==
  /\ Reflects(s, Current(s), acked[s])
  /\ \A w \in Writers : Family(s) \notin todo[w] => Reflects(s, Current(s), made[w][s])

\* The version a reader has taken reflects what it must see.
ReaderInv(s) ==
  /\ \A r \in Readers :
       rpc[r] = "keyed" /\ scope[r] = s => Reflects(s, key[r], floor[r])
  /\ \A r \in Readers :
       rpc[r] \in {"queried", "done"} /\ scope[r] = s => value[r] >= floor[r]

Protected(s) == CommittedInv(s) /\ VersionInv(s) /\ CurrentInv(s) /\ ReaderInv(s)

CacheInv == CacheTypeOK /\ \A s \in Scopes : trouble[s] = "none" => Protected(s)

\* A step keeps what versions of s reflect of the writes that are committed.
Keeps(s) ==
  \A v \in Versions, n \in Nat :
    n <= data[s] /\ Reflects(s, v, n) => Reflects(s, v, n)'
---------------------------------------------------------------------------

LEMMA ScopeTypes ==
  /\ AnyScope \in Scopes
  /\ \A s \in Scopes : Family(s) \in Families
BY ScopeAssumption DEF AnyScope, Families

LEMMA TypeInit == CacheInit => CacheTypeOK
BY ScopeTypes, EntryAssumption, BoundAssumption
   DEF CacheInit, CacheTypeOK, Versions

LEMMA HappensType ==
  ASSUME CacheTypeOK, NEW e \in {"early", "lost"}, NEW S, Happens(e, S)
  PROVE  trouble' \in [Scopes -> {"none", "early", "lost"}]
BY DEF CacheTypeOK, Happens

LEMMA ReaderTypeStep ==
  ASSUME CacheTypeOK, NEW r \in Readers, ReaderStep(r)
  PROVE  CacheTypeOK'
<1> USE ScopeTypes, EntryAssumption, BoundAssumption
    DEF CacheTypeOK, Versions, redis, writer
<1>1. CASE ReadVersion(r)
  <2>1. PICK s \in Scopes : BeginRead(r, s, version[Family(s)]) /\ UNCHANGED trouble
    BY <1>1 DEF ReadVersion
  <2>2. version[Family(s)] \in 0..MaxVersion
    OBVIOUS
  <2>3. QED
    BY <2>1, <2>2 DEF BeginRead
<1>2. CASE ReadVersionFails(r)
  <2>1. PICK s \in Scopes : BeginRead(r, s, 0) /\ Happens("lost", {s})
    BY <1>2 DEF ReadVersionFails
  <2>2. trouble' \in [Scopes -> {"none", "early", "lost"}]
    BY <2>1, HappensType
  <2>3. QED
    BY <2>1, <2>2 DEF BeginRead
<1>3. CASE Hit(r)
  <2>1. entry[scope[r]][key[r]] \in Nat
    <3>1. scope[r] \in Scopes /\ key[r] \in 0..MaxVersion
      OBVIOUS
    <3>2. entry[scope[r]] \in [0..MaxVersion -> Nat \cup {NoEntry}]
      BY <3>1
    <3>3. entry[scope[r]][key[r]] \in Nat \cup {NoEntry}
      BY <3>1, <3>2
    <3>4. QED
      BY <1>3, <3>3 DEF Hit
  <2>2. value' \in [Readers -> Nat] /\ rpc' \in [Readers -> {"idle", "keyed", "queried", "done"}]
    BY <1>3, <2>1 DEF Hit
  <2>3. QED
    BY <1>3, <2>2 DEF Hit
<1>4. CASE Query(r)
  BY <1>4 DEF Query
<1>5. CASE Store(r)
  BY <1>5 DEF Store
<1>6. CASE StoreFails(r)
  BY <1>6 DEF StoreFails
<1>7. CASE Respond(r)
  BY <1>7 DEF Respond
<1>8. QED
  BY <1>1, <1>2, <1>3, <1>4, <1>5, <1>6, <1>7 DEF ReaderStep

LEMMA WriterTypeStep ==
  ASSUME CacheTypeOK, NEW w \in Writers, WriterStep(w)
  PROVE  CacheTypeOK'
<1> USE EntryAssumption, BoundAssumption DEF CacheTypeOK, Versions, redis, reader
<1>1. ASSUME NEW kind \in {"spot", "review", "option"}, Commit(w, kind)
      PROVE  CacheTypeOK'
  <2>1. data' \in [Scopes -> Nat] /\ made' \in [Writers -> [Scopes -> Nat]]
    BY <1>1 DEF Commit, Committed
  <2>2. todo' \in [Writers -> SUBSET Families]
    BY <1>1 DEF Commit, Raised
  <2>3. trouble' \in [Scopes -> {"none", "early", "lost"}]
    BY <1>1, HappensType DEF Commit
  <2>4. QED
    BY <1>1, <2>1, <2>2, <2>3 DEF Commit
<1>2. CASE BulkBegin(w)
  <2>1. trouble' \in [Scopes -> {"none", "early", "lost"}]
    BY <1>2, HappensType DEF BulkBegin
  <2>2. QED
    BY <1>2, <2>1 DEF BulkBegin
<1>3. CASE BulkCommit(w)
  <2>1. data' \in [Scopes -> Nat] /\ made' \in [Writers -> [Scopes -> Nat]]
    BY <1>3 DEF BulkCommit, Committed
  <2>2. QED
    BY <1>3, <2>1 DEF BulkCommit
<1>4. ASSUME NEW f \in Families, Bump(w, f)
      PROVE  CacheTypeOK'
  <2>1. version[f] + 1 \in 0..MaxVersion
    BY <1>4 DEF Bump
  <2>2. QED
    BY <1>4, <2>1 DEF Bump
<1>5. ASSUME NEW f \in Families, BumpFails(w, f)
      PROVE  CacheTypeOK'
  <2>1. trouble' \in [Scopes -> {"none", "early", "lost"}]
    BY <1>5, HappensType DEF BumpFails
  <2>2. QED
    BY <1>5, <2>1 DEF BumpFails
<1>6. CASE Return(w)
  BY <1>6 DEF Return
<1>7. CASE Die(w)
  BY <1>7 DEF Die
<1>8. QED
  BY <1>1, <1>2, <1>3, <1>4, <1>5, <1>6, <1>7 DEF WriterStep

LEMMA RedisTypeStep ==
  ASSUME CacheTypeOK, RedisStep
  PROVE  CacheTypeOK'
<1> USE EntryAssumption, BoundAssumption DEF CacheTypeOK, Versions, reader, writer
<1>1. ASSUME NEW s \in Scopes, NEW v \in Versions, Expire(s, v)
      PROVE  CacheTypeOK'
  BY <1>1 DEF Expire
<1>2. ASSUME NEW f \in Families, EvictVersion(f)
      PROVE  CacheTypeOK'
  <2>1. trouble' \in [Scopes -> {"none", "early", "lost"}]
    BY <1>2, HappensType DEF EvictVersion
  <2>2. QED
    BY <1>2, <2>1 DEF EvictVersion
<1>3. CASE RestartRedis
  <2>1. trouble' \in [Scopes -> {"none", "early", "lost"}]
    BY <1>3, HappensType DEF RestartRedis
  <2>2. QED
    BY <1>3, <2>1 DEF RestartRedis
<1>4. QED
  BY <1>1, <1>2, <1>3 DEF RedisStep

LEMMA TypeStep ==
  ASSUME CacheTypeOK, [CacheNext]_cacheVars
  PROVE  CacheTypeOK'
<1>1. CASE UNCHANGED cacheVars
  BY <1>1 DEF CacheTypeOK, cacheVars
<1>2. QED
  BY <1>1, ReaderTypeStep, WriterTypeStep, RedisTypeStep DEF CacheNext

\* The type invariant of SpotCache: versions, entries and counters stay in range.
THEOREM CacheTypeCorrect == CacheSpec => []CacheTypeOK
<1>1. QED
  BY TypeInit, TypeStep, PTL DEF CacheSpec
---------------------------------------------------------------------------

LEMMA CurrentType ==
  ASSUME CacheTypeOK, NEW s \in Scopes
  PROVE  Current(s) \in Versions /\ Current(s) \in Nat
BY ScopeTypes DEF CacheTypeOK, Current, Versions

LEMMA EntryType ==
  ASSUME CacheTypeOK, NEW s \in Scopes, NEW v \in Versions
  PROVE  entry[s][v] \in Nat \cup {NoEntry}
BY DEF CacheTypeOK

LEMMA ProtectedInit ==
  ASSUME CacheInit, NEW s \in Scopes
  PROVE  Protected(s)
<1> USE DEF CacheInit
<1>1. CacheTypeOK
  BY TypeInit
<1>2. \A v \in Versions : entry[s][v] = NoEntry
  OBVIOUS
<1>3. Current(s) \in Versions
  BY <1>1, CurrentType
<1>4. CommittedInv(s)
  BY <1>1 DEF CommittedInv, CacheTypeOK
<1>5. VersionInv(s)
  BY <1>1, <1>2 DEF VersionInv, CacheTypeOK
<1>6. CurrentInv(s) /\ ReaderInv(s)
  BY <1>2, <1>3 DEF CurrentInv, ReaderInv, Reflects, CachedReflects, InHandReflects
<1>7. QED
  BY <1>4, <1>5, <1>6 DEF Protected

\* Where the versions and the writers stay, what was current stays current.
LEMMA CurrentKept ==
  ASSUME CacheTypeOK, NEW s \in Scopes, Protected(s), Keeps(s),
         UNCHANGED <<version, todo, made, acked>>
  PROVE  CurrentInv(s)'
<1>1. Current(s) \in Versions /\ Current(s)' = Current(s)
  BY CurrentType DEF Current
<1>2. Reflects(s, Current(s), acked[s])'
  BY <1>1 DEF CacheTypeOK, Protected, CommittedInv, CurrentInv, Keeps
<1>3. ASSUME NEW w \in Writers, Family(s) \notin todo[w]
      PROVE  Reflects(s, Current(s), made[w][s])'
  BY <1>1, <1>3 DEF CacheTypeOK, Protected, CommittedInv, CurrentInv, Keeps
<1>4. QED
  BY <1>2, <1>3 DEF CurrentInv

\* A reader that keeps its key and is still to read keeps its promise.
LEMMA KeyedKept ==
  ASSUME CacheTypeOK, NEW s \in Scopes, Protected(s), Keeps(s),
         NEW q \in Readers, rpc[q] = "keyed", scope[q] = s,
         UNCHANGED <<scope[q], key[q], floor[q]>>
  PROVE  Reflects(s, key[q], floor[q])'
<1>1. key[q] \in Versions /\ floor[q] \in Nat
  BY DEF CacheTypeOK
<1>2. floor[q] <= data[s]
  BY <1>1 DEF CacheTypeOK, Protected, CommittedInv
<1>3. Reflects(s, key[q], floor[q])
  BY DEF Protected, ReaderInv
<1>4. QED
  BY <1>1, <1>2, <1>3 DEF Keeps

\* A reader of s begins under its current version, one of another scope under any.
LEMMA BeginReadProtected ==
  ASSUME CacheTypeOK, NEW s \in Scopes, Protected(s), NEW r \in Readers,
         NEW t \in Scopes, NEW v \in Versions, BeginRead(r, t, v),
         t = s => v = Current(s)
  PROVE  Protected(s)'
<1> USE DEF BeginRead, redis, writer
<1>1. Keeps(s)
  BY DEF Keeps, Reflects, CachedReflects, InHandReflects, CacheTypeOK
<1>2. scope'[r] = t /\ key'[r] = v /\ floor'[r] = acked[t] /\ rpc'[r] = "keyed"
  BY DEF CacheTypeOK
<1>3. \A q \in Readers \ {r} : /\ scope'[q] = scope[q] /\ key'[q] = key[q]
                               /\ floor'[q] = floor[q] /\ rpc'[q] = rpc[q]
  BY DEF CacheTypeOK
<1>4. CommittedInv(s)'
  BY <1>2, <1>3 DEF Protected, CommittedInv, CacheTypeOK
<1>5. Current(s)' = Current(s) /\ Current(s) \in Nat
  BY CurrentType DEF Current
<1>6. VersionInv(s)'
  <2>1. ASSUME NEW q \in Readers, rpc'[q] # "idle", scope'[q] = s
        PROVE  key'[q] <= Current(s)
    BY <1>2, <1>3, <1>5, <2>1 DEF Protected, VersionInv
  <2>2. \A u \in Versions : u > Current(s) => entry'[s][u] = NoEntry
    BY DEF Protected, VersionInv
  <2>3. QED
    BY <1>5, <2>1, <2>2 DEF VersionInv
<1>7. CurrentInv(s)'
  BY <1>1, CurrentKept
<1>8. ReaderInv(s)'
  <2>1. ASSUME NEW q \in Readers, rpc'[q] = "keyed", scope'[q] = s
        PROVE  Reflects(s, key[q], floor[q])'
    <3>1. CASE q = r
      <4>1. Reflects(s, Current(s), acked[s])'
        BY <1>7 DEF CurrentInv
      <4>2. key'[q] = Current(s)' /\ floor'[q] = acked'[s]
        BY <1>2, <1>5, <2>1, <3>1
      <4>3. QED
        BY <4>1, <4>2
    <3>2. CASE q # r
      BY <1>1, <1>3, <2>1, <3>2, KeyedKept
    <3>3. QED
      BY <3>1, <3>2
  <2>2. \A q \in Readers :
          rpc'[q] \in {"queried", "done"} /\ scope'[q] = s => value'[q] >= floor'[q]
    BY <1>2, <1>3 DEF Protected, ReaderInv
  <2>3. QED
    BY <2>1, <2>2 DEF ReaderInv
<1>9. QED
  BY <1>4, <1>6, <1>7, <1>8 DEF Protected

\* A reader that leaves the cache alone and is done, or begins anew.
LEMMA AnsweredProtected ==
  ASSUME CacheTypeOK, NEW s \in Scopes, Protected(s), NEW r \in Readers,
         Hit(r) \/ StoreFails(r) \/ Respond(r)
  PROVE  Protected(s)'
<1> USE DEF Hit, StoreFails, Respond, redis, writer
<1>1. Keeps(s)
  BY DEF Keeps, Reflects, CachedReflects, InHandReflects, CacheTypeOK
<1>2. CommittedInv(s)'
  <2>1. ASSUME NEW q \in Readers
        PROVE  acked' = acked /\ (floor'[q] = 0 \/ (floor'[q] = floor[q] /\ scope'[q] = scope[q]))
    BY DEF CacheTypeOK
  <2>2. \A q \in Readers : scope'[q] = s => floor'[q] <= acked'[s]
    BY <2>1 DEF Protected, CommittedInv, CacheTypeOK
  <2>3. QED
    BY <2>2 DEF Protected, CommittedInv
<1>3. VersionInv(s)'
  <2>1. Current(s)' = Current(s)
    BY DEF Current
  <2>2. \A q \in Readers :
          rpc'[q] # "idle" => rpc[q] # "idle" /\ scope'[q] = scope[q] /\ key'[q] = key[q]
    BY DEF CacheTypeOK
  <2>3. QED
    BY <2>1, <2>2 DEF Protected, VersionInv
<1>4. CurrentInv(s)'
  BY <1>1, CurrentKept
<1>5. ReaderInv(s)'
  <2>1. ASSUME NEW q \in Readers, rpc'[q] = "keyed", scope'[q] = s
        PROVE  Reflects(s, key[q], floor[q])'
    BY <1>1, <2>1, KeyedKept DEF CacheTypeOK
  <2>2. Hit(r) /\ scope[r] = s => value'[r] >= floor'[r]
    BY DEF Protected, ReaderInv, Reflects, CachedReflects, CacheTypeOK
  <2>3. ASSUME NEW q \in Readers, rpc'[q] \in {"queried", "done"}, scope'[q] = s
        PROVE  value'[q] >= floor'[q]
    BY <2>2, <2>3 DEF Protected, ReaderInv, CacheTypeOK
  <2>4. QED
    BY <2>1, <2>3 DEF ReaderInv
<1>6. QED
  BY <1>2, <1>3, <1>4, <1>5 DEF Protected

LEMMA QueryProtected ==
  ASSUME CacheTypeOK, NEW s \in Scopes, Protected(s), NEW r \in Readers, Query(r)
  PROVE  Protected(s)'
<1> USE DEF Query, redis, writer
<1>1. Keeps(s)
  BY DEF Keeps, Reflects, CachedReflects, InHandReflects, CacheTypeOK
<1>2. CommittedInv(s)'
  BY DEF Protected, CommittedInv, CacheTypeOK
<1>3. VersionInv(s)'
  BY DEF Protected, VersionInv, Current, CacheTypeOK, Versions
<1>4. CurrentInv(s)'
  BY <1>1, CurrentKept
<1>5. ReaderInv(s)'
  <2>1. ASSUME NEW q \in Readers, rpc'[q] = "keyed", scope'[q] = s
        PROVE  Reflects(s, key[q], floor[q])'
    BY <1>1, <2>1, KeyedKept DEF CacheTypeOK
  <2>2. value'[r] = data[scope[r]] /\ (scope[r] = s => floor'[r] <= data[s])
    BY DEF Protected, CommittedInv, CacheTypeOK
  <2>3. scope[r] = s => value'[r] >= floor'[r]
    BY <2>2 DEF CacheTypeOK
  <2>4. \A q \in Readers :
          rpc'[q] \in {"queried", "done"} /\ scope'[q] = s => value'[q] >= floor'[q]
    BY <2>3 DEF Protected, ReaderInv, CacheTypeOK
  <2>5. QED
    BY <2>1, <2>4 DEF ReaderInv
<1>6. QED
  BY <1>2, <1>3, <1>4, <1>5 DEF Protected

LEMMA StoreProtected ==
  ASSUME CacheTypeOK, NEW s \in Scopes, Protected(s), NEW r \in Readers, Store(r)
  PROVE  Protected(s)'
<1> USE DEF Store, writer
<1>1. Keeps(s)
  BY DEF Keeps, Reflects, CachedReflects, InHandReflects, CacheTypeOK
<1>2. CommittedInv(s)'
  BY DEF Protected, CommittedInv, CacheTypeOK
<1>3. VersionInv(s)'
  <2>1. Current(s)' = Current(s) /\ Current(s) \in Nat /\ key[r] \in Nat
    BY CurrentType DEF Current, CacheTypeOK, Versions
  <2>2. \A q \in Readers :
          rpc'[q] # "idle" => rpc[q] # "idle" /\ scope'[q] = scope[q] /\ key'[q] = key[q]
    BY DEF CacheTypeOK
  <2>3. scope[r] = s => key[r] <= Current(s)
    BY DEF Protected, VersionInv
  <2>4. ASSUME NEW v \in Versions, v > Current(s)
        PROVE  entry'[s][v] = entry[s][v]
    BY <2>1, <2>3, <2>4 DEF CacheTypeOK, Versions
  <2>5. QED
    BY <2>1, <2>2, <2>4 DEF Protected, VersionInv
<1>4. CurrentInv(s)'
  BY <1>1, CurrentKept
<1>5. ReaderInv(s)'
  <2>1. ASSUME NEW q \in Readers, rpc'[q] = "keyed", scope'[q] = s
        PROVE  Reflects(s, key[q], floor[q])'
    BY <1>1, <2>1, KeyedKept DEF CacheTypeOK
  <2>2. \A q \in Readers :
          rpc'[q] \in {"queried", "done"} /\ scope'[q] = s => value'[q] >= floor'[q]
    BY DEF Protected, ReaderInv, CacheTypeOK
  <2>3. QED
    BY <2>1, <2>2 DEF ReaderInv
<1>6. QED
  BY <1>2, <1>3, <1>4, <1>5 DEF Protected

\* A writer leaves entries and readers alone.
LEMMA WriterKeeps ==
  ASSUME UNCHANGED <<entry, reader>>, NEW s \in Scopes
  PROVE  Keeps(s)
BY DEF Keeps, Reflects, CachedReflects, InHandReflects, reader

LEMMA WriterReaderInv ==
  ASSUME CacheTypeOK, NEW s \in Scopes, Protected(s), UNCHANGED <<entry, reader>>
  PROVE  ReaderInv(s)'
<1>1. Keeps(s)
  BY WriterKeeps
<1>2. \A q \in Readers :
        rpc'[q] = "keyed" /\ scope'[q] = s => Reflects(s, key[q], floor[q])'
  BY <1>1, KeyedKept DEF reader
<1>3. QED
  BY <1>2 DEF ReaderInv, Protected, reader

\* What a reader finds is reflected wherever nothing is.
LEMMA NoneReflected ==
  ASSUME CacheTypeOK, NEW s \in Scopes, NEW v \in Versions
  PROVE  Reflects(s, v, 0)
BY EntryType DEF Reflects, CachedReflects, InHandReflects, CacheTypeOK

\* A writer that leaves the current version of s, what has been returned and the
\* other writers alone.
LEMMA WriterCurrentInv ==
  ASSUME CacheTypeOK, CacheTypeOK', NEW s \in Scopes, Protected(s),
         UNCHANGED <<entry, reader, acked>>, Current(s)' = Current(s),
         NEW w \in Writers,
         \A x \in Writers \ {w} : todo'[x] = todo[x] /\ made'[x] = made[x],
         \/ Family(s) \in todo'[w]
         \/ made'[w][s] = 0
         \/ made'[w][s] = made[w][s] /\ Family(s) \notin todo[w]
  PROVE  CurrentInv(s)'
<1>1. Reflects(s, Current(s), acked[s])'
  <2>1. Reflects(s, Current(s), acked[s])
    BY DEF Protected, CurrentInv
  <2>2. QED
    BY <2>1 DEF Reflects, CachedReflects, InHandReflects, reader
<1>2. ASSUME NEW x \in Writers, Family(s) \notin todo'[x]
      PROVE  Reflects(s, Current(s), made[x][s])'
  <2>1. CASE made'[x][s] = 0
    <3>1. Reflects(s, Current(s), 0)
      BY CurrentType, NoneReflected
    <3>2. QED
      BY <2>1, <3>1 DEF Reflects, CachedReflects, InHandReflects, reader
  <2>2. CASE made'[x][s] # 0
    <3>1. made'[x][s] = made[x][s] /\ Family(s) \notin todo[x]
      BY <1>2, <2>2
    <3>2. Reflects(s, Current(s), made[x][s])
      BY <3>1 DEF Protected, CurrentInv
    <3>3. QED
      BY <3>1, <3>2 DEF Reflects, CachedReflects, InHandReflects, reader
  <2>3. QED
    BY <2>1, <2>2
<1>3. QED
  BY <1>1, <1>2 DEF CurrentInv

LEMMA CommitProtected ==
  ASSUME CacheTypeOK, CacheTypeOK', NEW s \in Scopes, Protected(s), NEW w \in Writers,
         NEW kind, Commit(w, kind), s \in Changed(kind) => Family(s) \in Raised(kind)
  PROVE  Protected(s)'
<1> USE DEF Commit, Committed, redis, reader
<1>1. data[s] <= data'[s] /\ made'[w][s] <= data'[s]
  BY DEF CacheTypeOK
<1>2. \A x \in Writers \ {w} : todo'[x] = todo[x] /\ made'[x] = made[x]
  BY DEF CacheTypeOK
<1>3. CommittedInv(s)'
  <2>1. acked'[s] <= data'[s]
    BY <1>1 DEF Protected, CommittedInv, CacheTypeOK
  <2>2. \A x \in Writers : made'[x][s] <= data'[s]
    BY <1>1, <1>2 DEF Protected, CommittedInv, CacheTypeOK
  <2>3. \A x \in Writers : wpc'[x] # "early"
    BY DEF Protected, CommittedInv, CacheTypeOK
  <2>4. QED
    BY <2>1, <2>2, <2>3 DEF Protected, CommittedInv
<1>4. VersionInv(s)'
  BY DEF Protected, VersionInv, Current
<1>5. CurrentInv(s)'
  <2>1. Current(s)' = Current(s)
    BY DEF Current
  <2>2. Family(s) \in todo'[w] \/ made'[w][s] = 0
    BY DEF CacheTypeOK
  <2>3. QED
    BY <1>2, <2>1, <2>2, WriterCurrentInv
<1>6. ReaderInv(s)'
  BY WriterReaderInv
<1>7. QED
  BY <1>3, <1>4, <1>5, <1>6 DEF Protected

\* Raising the current version of s: nothing is stored under the new one.
LEMMA BumpProtected ==
  ASSUME CacheTypeOK, CacheTypeOK', NEW s \in Scopes, Protected(s), NEW w \in Writers,
         Bump(w, Family(s))
  PROVE  Protected(s)'
<1> USE DEF Bump, reader
<1>1. Current(s)' = Current(s) + 1 /\ Current(s) \in Nat /\ Current(s)' \in Versions
  <2>1. Family(s) \in Families
    BY ScopeTypes
  <2>2. Current(s)' = Current(s) + 1
    BY <2>1 DEF Current, CacheTypeOK
  <2>3. Current(s)' \in Versions
    BY <2>1 DEF Current, CacheTypeOK
  <2>4. QED
    BY <2>2, <2>3, CurrentType
<1>2. CommittedInv(s)'
  BY DEF Protected, CommittedInv
<1>3. VersionInv(s)'
  BY <1>1 DEF Protected, VersionInv, CacheTypeOK, Versions
<1>4. ASSUME NEW n
      PROVE  Reflects(s, Current(s), n)'
  <2>1. entry'[s][Current(s)'] = NoEntry
    <3>1. Current(s)' > Current(s)
      BY <1>1
    <3>2. entry' = entry
      OBVIOUS
    <3>3. QED
      BY <1>1, <3>1, <3>2 DEF Protected, VersionInv
  <2>2. ASSUME NEW q \in Readers, rpc'[q] = "queried", scope'[q] = s
        PROVE  key'[q] # Current(s)'
    <3>1. rpc[q] # "idle" /\ scope[q] = s /\ key'[q] = key[q]
      BY <2>2
    <3>2. key[q] <= Current(s)
      BY <3>1 DEF Protected, VersionInv
    <3>3. key[q] \in Nat
      BY DEF CacheTypeOK, Versions
    <3>4. QED
      BY <1>1, <3>1, <3>2, <3>3
  <2>3. QED
    BY <2>1, <2>2 DEF Reflects, CachedReflects, InHandReflects
<1>5. CurrentInv(s)'
  BY <1>4 DEF CurrentInv
<1>6. ReaderInv(s)'
  BY WriterReaderInv
<1>7. QED
  BY <1>2, <1>3, <1>5, <1>6 DEF Protected

\* Raising, or failing to raise, the version of the other family.
LEMMA OtherFamilyProtected ==
  ASSUME CacheTypeOK, CacheTypeOK', NEW s \in Scopes, Protected(s), NEW w \in Writers,
         NEW f \in Families, f # Family(s), Bump(w, f) \/ BumpFails(w, f)
  PROVE  Protected(s)'
<1> USE DEF Bump, BumpFails, redis, reader
<1>1. Current(s)' = Current(s)
  BY ScopeTypes DEF Current, CacheTypeOK
<1>2. CommittedInv(s)'
  BY DEF Protected, CommittedInv
<1>3. VersionInv(s)'
  BY <1>1 DEF Protected, VersionInv
<1>4. CurrentInv(s)'
  <2>1. \A x \in Writers \ {w} : todo'[x] = todo[x] /\ made'[x] = made[x]
    BY DEF CacheTypeOK
  <2>2. made'[w] = made[w] /\ (Family(s) \in todo'[w] <=> Family(s) \in todo[w])
    BY DEF CacheTypeOK
  <2>3. QED
    BY <1>1, <2>1, <2>2, WriterCurrentInv
<1>5. ReaderInv(s)'
  BY WriterReaderInv
<1>6. QED
  BY <1>2, <1>3, <1>4, <1>5 DEF Protected

LEMMA ReturnProtected ==
  ASSUME CacheTypeOK, NEW s \in Scopes, Protected(s), NEW w \in Writers, Return(w)
  PROVE  Protected(s)'
<1> USE DEF Return, redis, reader
<1>1. acked'[s] \in {acked[s], made[w][s]} /\ acked[s] <= acked'[s]
  BY DEF CacheTypeOK
<1>2. made'[w][s] = 0 /\ \A x \in Writers \ {w} : made'[x] = made[x]
  BY DEF CacheTypeOK
<1>3. Current(s)' = Current(s) /\ Current(s) \in Versions
  BY CurrentType DEF Current
<1>4. CommittedInv(s)'
  <2>1. acked'[s] <= data'[s]
    BY <1>1 DEF Protected, CommittedInv
  <2>2. \A x \in Writers : made'[x][s] <= data'[s]
    BY <1>2 DEF Protected, CommittedInv, CacheTypeOK
  <2>3. \A q \in Readers : scope'[q] = s => floor'[q] <= acked'[s]
    BY <1>1 DEF Protected, CommittedInv, CacheTypeOK
  <2>4. \A x \in Writers : wpc'[x] # "early"
    BY DEF Protected, CommittedInv, CacheTypeOK
  <2>5. QED
    BY <2>1, <2>2, <2>3, <2>4 DEF CommittedInv
<1>5. VersionInv(s)'
  BY <1>3 DEF Protected, VersionInv
<1>6. CurrentInv(s)'
  <2>1. Reflects(s, Current(s), acked[s])'
    <3>1. Reflects(s, Current(s), acked[s])
      BY DEF Protected, CurrentInv
    <3>2. Reflects(s, Current(s), made[w][s])
      BY DEF Protected, CurrentInv
    <3>3. Reflects(s, Current(s), acked'[s])
      BY <1>1, <3>1, <3>2
    <3>4. QED
      BY <1>3, <3>3 DEF Reflects, CachedReflects, InHandReflects
  <2>2. ASSUME NEW x \in Writers, Family(s) \notin todo'[x]
        PROVE  Reflects(s, Current(s), made[x][s])'
    <3>1. CASE x = w
      <4>1. Reflects(s, Current(s), 0)
        BY <1>3, NoneReflected
      <4>2. QED
        BY <1>2, <1>3, <3>1, <4>1 DEF Reflects, CachedReflects, InHandReflects
    <3>2. CASE x # w
      <4>1. Reflects(s, Current(s), made[x][s])
        BY <2>2 DEF Protected, CurrentInv
      <4>2. QED
        BY <1>2, <1>3, <3>2, <4>1 DEF Reflects, CachedReflects, InHandReflects
    <3>3. QED
      BY <3>1, <3>2
  <2>3. QED
    BY <2>1, <2>2 DEF CurrentInv
<1>7. ReaderInv(s)'
  BY WriterReaderInv
<1>8. QED
  BY <1>4, <1>5, <1>6, <1>7 DEF Protected

LEMMA DieProtected ==
  ASSUME CacheTypeOK, CacheTypeOK', NEW s \in Scopes, Protected(s), NEW w \in Writers, Die(w)
  PROVE  Protected(s)'
<1> USE DEF Die, redis, reader
<1>1. CommittedInv(s)'
  BY DEF Protected, CommittedInv, CacheTypeOK
<1>2. Current(s)' = Current(s)
  BY DEF Current
<1>3. VersionInv(s)'
  BY <1>2 DEF Protected, VersionInv
<1>4. CurrentInv(s)'
  <2>1. \A x \in Writers \ {w} : todo'[x] = todo[x] /\ made'[x] = made[x]
    BY DEF CacheTypeOK
  <2>2. made'[w][s] = 0
    BY DEF CacheTypeOK
  <2>3. QED
    BY <1>2, <2>1, <2>2, WriterCurrentInv
<1>5. ReaderInv(s)'
  BY WriterReaderInv
<1>6. QED
  BY <1>1, <1>3, <1>4, <1>5 DEF Protected

LEMMA ExpireProtected ==
  ASSUME CacheTypeOK, NEW s \in Scopes, Protected(s), NEW t \in Scopes, NEW v \in Versions,
         Expire(t, v)
  PROVE  Protected(s)'
<1> USE DEF Expire, reader, writer
<1>1. \A u \in Versions : entry'[s][u] \in {entry[s][u], NoEntry}
  BY DEF CacheTypeOK
<1>2. Keeps(s)
  BY <1>1 DEF Keeps, Reflects, CachedReflects, InHandReflects
<1>3. CommittedInv(s)'
  BY DEF Protected, CommittedInv
<1>4. VersionInv(s)'
  BY <1>1 DEF Protected, VersionInv, Current
<1>5. CurrentInv(s)'
  BY <1>2, CurrentKept
<1>6. \A q \in Readers :
        rpc'[q] = "keyed" /\ scope'[q] = s => Reflects(s, key[q], floor[q])'
  BY <1>2, KeyedKept
<1>7. ReaderInv(s)'
  BY <1>6 DEF Protected, ReaderInv
<1>8. QED
  BY <1>3, <1>4, <1>5, <1>7 DEF Protected

\* The version key of the other family is evicted.
LEMMA EvictProtected ==
  ASSUME CacheTypeOK, NEW s \in Scopes, Protected(s), NEW f \in Families, f # Family(s),
         EvictVersion(f)
  PROVE  Protected(s)'
<1> USE DEF EvictVersion, reader, writer
<1>1. Current(s)' = Current(s)
  BY ScopeTypes DEF Current, CacheTypeOK
<1>2. Reflects(s, Current(s), acked[s])'
  BY <1>1 DEF Protected, CurrentInv, Reflects, CachedReflects, InHandReflects
<1>3. ASSUME NEW w \in Writers, Family(s) \notin todo'[w]
      PROVE  Reflects(s, Current(s), made[w][s])'
  BY <1>1, <1>3 DEF Protected, CurrentInv, Reflects, CachedReflects, InHandReflects
<1>4. CurrentInv(s)'
  BY <1>2, <1>3 DEF CurrentInv
<1>5. ReaderInv(s)'
  BY WriterReaderInv
<1>6. QED
  BY <1>1, <1>4, <1>5 DEF Protected, CommittedInv, VersionInv
---------------------------------------------------------------------------

\* A step that leaves s without trouble takes s as it should be to s as it should be.
LEMMA ScopeStep ==
  ASSUME CacheTypeOK, CacheTypeOK', NEW s \in Scopes, Protected(s),
         [CacheNext]_cacheVars, trouble[s] = "none", trouble'[s] = "none"
  PROVE  Protected(s)'
<1>1. ASSUME NEW e \in {"early", "lost"}, NEW S, Happens(e, S)
      PROVE  s \notin S
  BY <1>1 DEF Happens
<1>2. CASE UNCHANGED cacheVars
  BY <1>2 DEF cacheVars, Protected, CommittedInv, VersionInv, CurrentInv, ReaderInv,
              Current, Reflects, CachedReflects, InHandReflects
<1>3. ASSUME NEW r \in Readers, ReaderStep(r)
      PROVE  Protected(s)'
  <2>1. CASE ReadVersion(r)
    <3>1. PICK t \in Scopes : BeginRead(r, t, version[Family(t)])
      BY <2>1 DEF ReadVersion
    <3>2. PICK v \in Versions : v = Current(t)
      BY CurrentType
    <3>3. QED
      BY <3>1, <3>2, BeginReadProtected DEF Current
  <2>2. CASE ReadVersionFails(r)
    <3>1. PICK t \in Scopes : BeginRead(r, t, 0) /\ Happens("lost", {t})
      BY <2>2 DEF ReadVersionFails
    <3>2. t # s
      BY <1>1, <3>1
    <3>3. 0 \in Versions
      BY BoundAssumption DEF Versions
    <3>4. QED
      BY <3>1, <3>2, <3>3, BeginReadProtected
  <2>3. QED
    BY <1>3, <2>1, <2>2, AnsweredProtected, QueryProtected, StoreProtected DEF ReaderStep
<1>4. ASSUME NEW w \in Writers, WriterStep(w)
      PROVE  Protected(s)'
  <2>1. ASSUME NEW kind \in {"spot", "review", "option"}, Commit(w, kind)
        PROVE  Protected(s)'
    <3>1. s \notin {t \in Changed(kind) : Family(t) \notin Raised(kind)}
      BY <1>1, <2>1 DEF Commit
    <3>2. QED
      BY <2>1, <3>1, CommitProtected
  <2>2. ~BulkBegin(w)
    BY <1>1 DEF BulkBegin
  <2>3. ~BulkCommit(w)
    BY DEF BulkCommit, Protected, CommittedInv
  <2>4. ASSUME NEW f \in Families, Bump(w, f)
        PROVE  Protected(s)'
    BY <2>4, BumpProtected, OtherFamilyProtected
  <2>5. ASSUME NEW f \in Families, BumpFails(w, f)
        PROVE  Protected(s)'
    <3>1. f # Family(s)
      BY <1>1, <2>5 DEF BumpFails, Of
    <3>2. QED
      BY <2>5, <3>1, OtherFamilyProtected
  <2>6. QED
    BY <1>4, <2>1, <2>2, <2>3, <2>4, <2>5, ReturnProtected, DieProtected DEF WriterStep
<1>5. CASE RedisStep
  <2>1. ASSUME NEW f \in Families, EvictVersion(f)
        PROVE  Protected(s)'
    <3>1. f # Family(s)
      BY <1>1, <2>1 DEF EvictVersion, Of
    <3>2. QED
      BY <2>1, <3>1, EvictProtected
  <2>2. ~RestartRedis
    BY <1>1 DEF RestartRedis
  <2>3. QED
    BY <1>5, <2>1, <2>2, ExpireProtected DEF RedisStep
<1>6. QED
  BY <1>2, <1>3, <1>4, <1>5 DEF CacheNext

\* Trouble stays.
LEMMA TroubleStays ==
  ASSUME CacheTypeOK, NEW s \in Scopes, [CacheNext]_cacheVars, trouble'[s] = "none"
  PROVE  trouble[s] = "none"
<1>1. ASSUME NEW e \in {"early", "lost"}, NEW S, Happens(e, S)
      PROVE  trouble[s] = "none"
  BY <1>1 DEF Happens
<1>2. CASE trouble' = trouble
  BY <1>2
<1>3. ASSUME NEW r \in Readers, ReaderStep(r)
      PROVE  trouble[s] = "none"
  BY <1>1, <1>2, <1>3 DEF ReaderStep, ReadVersion, ReadVersionFails, Hit, Query, Store,
                          StoreFails, Respond
<1>4. ASSUME NEW w \in Writers, WriterStep(w)
      PROVE  trouble[s] = "none"
  BY <1>1, <1>2, <1>4 DEF WriterStep, Commit, BulkBegin, BulkCommit, Bump, BumpFails,
                          Return, Die
<1>5. CASE RedisStep
  BY <1>1, <1>2, <1>5 DEF RedisStep, Expire, EvictVersion, RestartRedis
<1>6. CASE UNCHANGED cacheVars
  BY <1>2, <1>6 DEF cacheVars
<1>7. QED
  BY <1>3, <1>4, <1>5, <1>6 DEF CacheNext

LEMMA InvStep ==
  ASSUME CacheInv, [CacheNext]_cacheVars
  PROVE  CacheInv'
<1>1. CacheTypeOK /\ CacheTypeOK'
  BY TypeStep DEF CacheInv
<1>2. ASSUME NEW s \in Scopes, trouble'[s] = "none"
      PROVE  Protected(s)'
  <2>1. trouble[s] = "none"
    BY <1>1, <1>2, TroubleStays
  <2>2. Protected(s)
    BY <2>1 DEF CacheInv
  <2>3. QED
    BY <1>1, <1>2, <2>1, <2>2, ScopeStep
<1>3. QED
  BY <1>1, <1>2 DEF CacheInv

LEMMA CacheInvariance == CacheSpec => []CacheInv
<1>1. CacheInit => CacheInv
  BY TypeInit, ProtectedInit DEF CacheInv
<1>2. QED
  BY <1>1, InvStep, PTL DEF CacheSpec

\* However readers, writers, expiries and dying writers interleave, a request
\* that ends reflects every write that had returned before it began, as long as
\* writers that change its kind of response commit first and raise its version
\* then, and that version is not lost.
THEOREM NoStaleResponse == CacheSpec => []CompletedWritesAreVisible
<1>1. CacheInv => CompletedWritesAreVisible
  <2>1. SUFFICES ASSUME CacheInv, NEW r \in Readers, trouble[scope[r]] = "none"
                 PROVE  SeesCompletedWrites(r)
    BY DEF CompletedWritesAreVisible
  <2>2. scope[r] \in Scopes
    BY <2>1 DEF CacheInv, CacheTypeOK
  <2>3. Protected(scope[r])
    BY <2>1, <2>2 DEF CacheInv
  <2>4. QED
    BY <2>1, <2>3 DEF SeesCompletedWrites, Protected, ReaderInv
<1>2. QED
  BY <1>1, CacheInvariance, PTL

(***************************************************************************)
(* The queries.                                                            *)
(***************************************************************************)

(* The first and the last of finitely many, from well-foundedness of <.    *)

LEMMA MinimalExists ==
  ASSUME NEW R, IsWellFoundedOn(R, Nat), NEW T, T \subseteq Nat, T # {}
  PROVE  \E x \in T : \A y \in T : ~ (<<y, x>> \in R)
BY WFMin

LEMMA LeastByRelation ==
  ASSUME NEW T, T \subseteq Nat, T # {}, NEW R, IsWellFoundedOn(R, Nat),
         \A a, b \in Nat : a < b => <<a, b>> \in R
  PROVE  \E x \in T : \A y \in T : x <= y
<1>1. \E x \in T : \A y \in T : ~ (<<y, x>> \in R)
  BY MinimalExists, Zenon
<1>2. PICK x \in T : \A y \in T : ~ (<<y, x>> \in R)
  BY <1>1
<1>3. \A y \in T : ~(y < x)
  BY <1>2, Zenon
<1>4. \A y \in T : x \in Nat /\ y \in Nat
  OBVIOUS
<1>5. \A y \in T : x <= y
  BY <1>3, <1>4
<1> QED
  BY <1>5

LEMMA LeastNatural ==
  ASSUME NEW T, T \subseteq Nat, T # {}
  PROVE  \E x \in T : \A y \in T : x <= y
<1>1. IsWellFoundedOn(OpToRel(<, Nat), Nat)
  BY NatLessThanWellFounded
<1>2. \A a, b \in Nat : a < b => <<a, b>> \in OpToRel(<, Nat)
  BY DEF OpToRel
<1>3. PICK R : IsWellFoundedOn(R, Nat) /\ \A a, b \in Nat : a < b => <<a, b>> \in R
  BY <1>1, <1>2, Zenon
<1> QED
  BY <1>3, LeastByRelation

\* O is a strict order on S.
IsOrderOn(O, S) ==
  /\ \A a \in S : <<a, a>> \notin O
  /\ \A a, b, c \in S : <<a, b>> \in O /\ <<b, c>> \in O => <<a, c>> \in O

Below(O, S, a) == {b \in S : <<b, a>> \in O}

LEMMA BelowSize ==
  ASSUME NEW S, IsFiniteSet(S), NEW O, NEW a
  PROVE  /\ IsFiniteSet(Below(O, S, a))
         /\ Cardinality(Below(O, S, a)) \in Nat
         /\ Cardinality(Below(O, S, a)) <= Cardinality(S)
BY FS_Subset, FS_CardinalityType DEF Below

LEMMA BelowGrows ==
  ASSUME NEW S, IsFiniteSet(S), NEW O, IsOrderOn(O, S), NEW a \in S, NEW b \in S,
         <<a, b>> \in O
  PROVE  Cardinality(Below(O, S, a)) < Cardinality(Below(O, S, b))
<1>1. Below(O, S, a) \subseteq Below(O, S, b)
  BY DEF Below, IsOrderOn
<1>2. a \in Below(O, S, b) /\ a \notin Below(O, S, a)
  BY DEF Below, IsOrderOn
<1>3. IsFiniteSet(Below(O, S, b)) /\ IsFiniteSet(Below(O, S, a))
  BY BelowSize
<1>4. /\ Cardinality(Below(O, S, a)) <= Cardinality(Below(O, S, b))
      /\ Cardinality(Below(O, S, a)) = Cardinality(Below(O, S, b))
           => Below(O, S, a) = Below(O, S, b)
  BY <1>1, <1>3, FS_Subset
<1>5. Cardinality(Below(O, S, a)) # Cardinality(Below(O, S, b))
  BY <1>2, <1>4
<1>6. Cardinality(Below(O, S, a)) \in Nat /\ Cardinality(Below(O, S, b)) \in Nat
  BY BelowSize
<1> QED
  BY <1>4, <1>5, <1>6

LEMMA FirstExists ==
  ASSUME NEW S, IsFiniteSet(S), S # {}, NEW O, IsOrderOn(O, S)
  PROVE  \E a \in S : \A b \in S : <<b, a>> \notin O
<1>1. /\ {Cardinality(Below(O, S, a)) : a \in S} \subseteq Nat
      /\ {Cardinality(Below(O, S, a)) : a \in S} # {}
  BY BelowSize
<1>2. PICK n \in {Cardinality(Below(O, S, a)) : a \in S} :
        \A k \in {Cardinality(Below(O, S, a)) : a \in S} : n <= k
  BY <1>1, LeastNatural
<1>3. PICK a \in S : n = Cardinality(Below(O, S, a))
  BY <1>2
<1>4. \A b \in S : <<b, a>> \notin O
  <2> SUFFICES ASSUME NEW b \in S, <<b, a>> \in O PROVE FALSE
    OBVIOUS
  <2>1. Cardinality(Below(O, S, b)) < n
    BY <1>3, BelowGrows
  <2>2. n <= Cardinality(Below(O, S, b))
    BY <1>2
  <2>3. n \in Nat /\ Cardinality(Below(O, S, b)) \in Nat
    BY <1>3, BelowSize
  <2> QED
    BY <2>1, <2>2, <2>3
<1> QED
  BY <1>4

---------------------------------------------------------------------------
(* The order of the rows.                                                  *)

Keys(f) == IF f.q THEN Nat \X Nat \X Nat ELSE {<<n>> : n \in Nat}

LEMMA BeforeInSearch ==
  ASSUME NEW f \in Filters, f.q, NEW x \in Nat, NEW y \in Nat, NEW z \in Nat,
         NEW u \in Nat, NEW v \in Nat, NEW w \in Nat
  PROVE  Before(f, <<x, y, z>>, <<u, v, w>>) <=>
           \/ x > u
           \/ x = u /\ y > v
           \/ x = u /\ y = v /\ z > w
<1> DEFINE a == <<x, y, z>>
           b == <<u, v, w>>
<1>1. a[1] = x /\ a[2] = y /\ a[3] = z /\ b[1] = u /\ b[2] = v /\ b[3] = w
  OBVIOUS
<1>2. DOMAIN a = {1, 2, 3}
  OBVIOUS
<1>3. 1..(1 - 1) = {} /\ 1..(2 - 1) = {1} /\ 1..(3 - 1) = {1, 2}
  OBVIOUS
<1> HIDE DEF a, b
<1> DEFINE Same(i) == \A j \in 1..(i - 1) : a[j] = b[j]
<1>4. Before(f, a, b) <=> \E i \in {1, 2, 3} : a[i] > b[i] /\ Same(i)
  BY <1>2 DEF Before
<1>5. Same(1) /\ (Same(2) <=> a[1] = b[1]) /\ (Same(3) <=> a[1] = b[1] /\ a[2] = b[2])
  BY <1>3
<1> HIDE DEF Same
<1>6. Before(f, a, b) <=> x > u \/ (x = u /\ y > v) \/ (x = u /\ y = v /\ z > w)
  BY <1>1, <1>4, <1>5
<1> QED
  BY <1>6 DEF a, b

LEMMA BeforeInList ==
  ASSUME NEW f \in Filters, ~f.q, NEW x \in Nat, NEW u \in Nat
  PROVE  Before(f, <<x>>, <<u>>) <=> x < u
<1> DEFINE a == <<x>>
           b == <<u>>
<1>1. a[1] = x /\ b[1] = u /\ DOMAIN a = {1} /\ 1..(1 - 1) = {}
  OBVIOUS
<1> HIDE DEF a, b
<1>2. Before(f, a, b) <=> a[1] < b[1]
  BY <1>1 DEF Before
<1>3. Before(f, a, b) <=> x < u
  BY <1>1, <1>2
<1> QED
  BY <1>3 DEF a, b

LEMMA BeforeIsOrder ==
  ASSUME NEW f \in Filters, NEW a \in Keys(f), NEW b \in Keys(f), NEW c \in Keys(f)
  PROVE  /\ ~Before(f, a, a)
         /\ Before(f, a, b) /\ Before(f, b, c) => Before(f, a, c)
         /\ a # b => Before(f, a, b) \/ Before(f, b, a)
<1>1. CASE f.q
  <2>1. PICK x \in Nat, y \in Nat, z \in Nat : a = <<x, y, z>>
    BY <1>1 DEF Keys
  <2>2. PICK t \in Nat, u \in Nat, v \in Nat : b = <<t, u, v>>
    BY <1>1 DEF Keys
  <2>3. PICK k \in Nat, m \in Nat, n \in Nat : c = <<k, m, n>>
    BY <1>1 DEF Keys
  <2>4. a # b => x # t \/ y # u \/ z # v
    BY <2>1, <2>2
  <2>5. ~Before(f, a, a)
    BY <1>1, <2>1, BeforeInSearch
  <2>6. Before(f, a, b) /\ Before(f, b, c) => Before(f, a, c)
    BY <1>1, <2>1, <2>2, <2>3, BeforeInSearch
  <2>7. a # b => Before(f, a, b) \/ Before(f, b, a)
    BY <1>1, <2>1, <2>2, <2>4, BeforeInSearch
  <2> QED
    BY <2>5, <2>6, <2>7
<1>2. CASE ~f.q
  <2>1. PICK x \in Nat, t \in Nat, k \in Nat : a = <<x>> /\ b = <<t>> /\ c = <<k>>
    BY <1>2 DEF Keys
  <2> QED
    BY <1>2, <2>1, BeforeInList
<1> QED
  BY <1>1, <1>2

\* s comes before t in an answer to f.
Ahead(f, s, t) == Before(f, Position(f, s), Position(f, t))

RowTypes == row \in [Spots -> Row]

LEMMA PositionIsKey ==
  ASSUME RowTypes, NEW f \in Filters, NEW s \in Spots
  PROVE  /\ Position(f, s) \in Keys(f)
         /\ \A t \in Spots : t # s => Position(f, t) # Position(f, s)
<1>1. /\ \A t \in Spots : t \in Nat
      /\ row[s].score \in Nat /\ row[s].rating \in Nat
  BY SpotsAssumption, RowsAssumption DEF RowTypes, Row
<1>2. CASE f.q
  BY <1>1, <1>2 DEF Position, Keys
<1>3. CASE ~f.q
  BY <1>1, <1>3 DEF Position, Keys
<1> QED
  BY <1>2, <1>3

LEMMA AheadIsOrder ==
  ASSUME RowTypes, NEW f \in Filters, NEW s \in Spots, NEW t \in Spots, NEW u \in Spots
  PROVE  /\ ~Ahead(f, s, s)
         /\ Ahead(f, s, t) => ~Ahead(f, t, s)
         /\ Ahead(f, s, t) /\ Ahead(f, t, u) => Ahead(f, s, u)
         /\ s # t => Ahead(f, s, t) \/ Ahead(f, t, s)
BY PositionIsKey, BeforeIsOrder DEF Ahead

\* The pairs of S that are in order, and in the opposite order.
Pairs(f, S) == {p \in S \X S : Ahead(f, p[1], p[2])}
PairsBack(f, S) == {p \in S \X S : Ahead(f, p[2], p[1])}

LEMMA PairsAreOrders ==
  ASSUME RowTypes, NEW f \in Filters, NEW S \in SUBSET Spots
  PROVE  IsOrderOn(Pairs(f, S), S) /\ IsOrderOn(PairsBack(f, S), S)
<1>1. \A s, t \in S : /\ <<s, t>> \in Pairs(f, S) <=> Ahead(f, s, t)
                      /\ <<s, t>> \in PairsBack(f, S) <=> Ahead(f, t, s)
  BY DEF Pairs, PairsBack
<1>2. \A s, t, u \in S : ~Ahead(f, s, s) /\ (Ahead(f, s, t) /\ Ahead(f, t, u) => Ahead(f, s, u))
  BY AheadIsOrder
<1> QED
  BY <1>1, <1>2 DEF IsOrderOn

LEMMA EndsExist ==
  ASSUME RowTypes, NEW f \in Filters, NEW S \in SUBSET Spots, S # {}
  PROVE  /\ \E s \in S : \A t \in S : ~Ahead(f, t, s)
         /\ \E s \in S : \A t \in S \ {s} : Ahead(f, t, s)
<1>1. IsFiniteSet(S)
  BY SpotsAssumption, FS_Subset
<1>2. IsOrderOn(Pairs(f, S), S) /\ IsOrderOn(PairsBack(f, S), S)
  BY PairsAreOrders
<1>3. PICK s \in S : \A t \in S : <<t, s>> \notin Pairs(f, S)
  BY <1>1, <1>2, FirstExists
<1>4. PICK l \in S : \A t \in S : <<t, l>> \notin PairsBack(f, S)
  BY <1>1, <1>2, FirstExists
<1>5. \A t \in S : ~Ahead(f, t, s) /\ ~Ahead(f, l, t)
  BY <1>3, <1>4 DEF Pairs, PairsBack
<1>6. \A t \in S \ {l} : Ahead(f, t, l)
  BY <1>5, AheadIsOrder
<1> QED
  BY <1>5, <1>6

\* What of S comes before s.
Earlier(f, S, s) == {t \in S : Ahead(f, t, s)}

LEMMA EarlierSize ==
  ASSUME NEW f, NEW S \in SUBSET Spots, NEW s
  PROVE  /\ IsFiniteSet(S) /\ IsFiniteSet(Earlier(f, S, s))
         /\ Cardinality(S) \in Nat /\ Cardinality(Earlier(f, S, s)) \in Nat
<1>1. IsFiniteSet(S) /\ Earlier(f, S, s) \subseteq S
  BY SpotsAssumption, FS_Subset DEF Earlier
<1> QED
  BY <1>1, FS_Subset, FS_CardinalityType

LEMMA EarlierGrows ==
  ASSUME RowTypes, NEW f \in Filters, NEW S \in SUBSET Spots, NEW s \in S, NEW t \in S,
         Ahead(f, s, t)
  PROVE  Cardinality(Earlier(f, S, s)) < Cardinality(Earlier(f, S, t))
<1>1. \A u \in S : Earlier(f, S, u) = Below(Pairs(f, S), S, u)
  BY DEF Earlier, Below, Pairs
<1>2. IsFiniteSet(S) /\ IsOrderOn(Pairs(f, S), S) /\ <<s, t>> \in Pairs(f, S)
  BY EarlierSize, PairsAreOrders DEF Pairs
<1> QED
  BY <1>1, <1>2, BelowGrows

LEMMA FirstOfIsEarly ==
  ASSUME NEW f, NEW S, NEW n
  PROVE  FirstOf(f, S, n) = {s \in S : Cardinality(Earlier(f, S, s)) < n}
BY DEF FirstOf, Earlier, Ahead

\* LIMIT n takes all there is ...
LEMMA FirstOfFew ==
  ASSUME RowTypes, NEW f \in Filters, NEW S \in SUBSET Spots, NEW n \in Nat,
         Cardinality(S) <= n
  PROVE  FirstOf(f, S, n) = S
<1> SUFFICES ASSUME NEW s \in S PROVE Cardinality(Earlier(f, S, s)) < n
  BY FirstOfIsEarly
<1>1. Earlier(f, S, s) \subseteq S /\ Earlier(f, S, s) # S
  BY AheadIsOrder DEF Earlier
<1>2. /\ Cardinality(Earlier(f, S, s)) <= Cardinality(S)
      /\ Cardinality(Earlier(f, S, s)) # Cardinality(S)
  BY <1>1, EarlierSize, FS_Subset
<1> QED
  BY <1>2, EarlierSize

LastOf(f, P) == CHOOSE s \in P : \A t \in P \ {s} : Ahead(f, t, s)

\* ... or a part that nothing else is ahead of the end of.
LEMMA FirstOfMany ==
  ASSUME RowTypes, NEW f \in Filters, NEW S \in SUBSET Spots, NEW n \in Nat \ {0},
         Cardinality(S) > n, NEW P, P = FirstOf(f, S, n)
  PROVE  /\ P \subseteq S /\ P # S
         /\ LastOf(f, P) \in P
         /\ \A t \in P : ~Ahead(f, LastOf(f, P), t)
         /\ \A t \in S \ P : Ahead(f, LastOf(f, P), t)
<1>1. P = {s \in S : Cardinality(Earlier(f, S, s)) < n}
  BY FirstOfIsEarly
<1>2. S # {}
  BY FS_EmptySet
<1>3. PICK s \in S : \A t \in S : ~Ahead(f, t, s)
  BY <1>2, EndsExist
<1>4. s \in P
  <2>1. Earlier(f, S, s) = {}
    BY <1>3 DEF Earlier
  <2>2. Cardinality(Earlier(f, S, s)) = 0
    BY <2>1, FS_EmptySet
  <2> QED
    BY <1>1, <2>2
<1>5. P \in SUBSET Spots
  BY <1>1
<1>6. \E l \in P : \A t \in P \ {l} : Ahead(f, t, l)
  BY <1>4, <1>5, EndsExist
<1>7. PICK l \in P : l = LastOf(f, P) /\ \A t \in P \ {l} : Ahead(f, t, l)
  BY <1>6 DEF LastOf
<1>8. \A t \in P : ~Ahead(f, l, t)
  BY <1>5, <1>7, AheadIsOrder
<1>9. \A t \in S \ P : Ahead(f, l, t)
  <2> SUFFICES ASSUME NEW t \in S \ P, Ahead(f, t, l) PROVE FALSE
    BY <1>5, <1>7, AheadIsOrder
  <2>1. Cardinality(Earlier(f, S, t)) < Cardinality(Earlier(f, S, l))
    BY <1>1, <1>7, EarlierGrows
  <2>2. Cardinality(Earlier(f, S, l)) < n
    BY <1>1, <1>7
  <2> QED
    BY <1>1, <2>1, <2>2, EarlierSize
<1>10. P # S
  <2>1. PICK e \in S : \A t \in S \ {e} : Ahead(f, t, e)
    BY <1>2, EndsExist
  <2>2. Earlier(f, S, e) = S \ {e}
    BY <2>1, AheadIsOrder DEF Earlier
  <2>3. Cardinality(S \ {e}) = Cardinality(S) - 1
    BY EarlierSize, FS_RemoveElement
  <2>4. Cardinality(S) \in Nat
    BY EarlierSize
  <2>5. ~(Cardinality(Earlier(f, S, e)) < n)
    BY <2>2, <2>3, <2>4
  <2> QED
    BY <1>1, <2>5
<1> QED
  BY <1>1, <1>7, <1>8, <1>9, <1>10

---------------------------------------------------------------------------
(* Staff: spots, options and what is written of them.                      *)

Jobs == [step : {"idle", "loaded", "written", "found", "started", "cleared"},
         spot : Spots \cup {0}, category : SUBSET Codes, rows : SUBSET Spots]

LEMMA JobRecord ==
  ASSUME NEW j \in Jobs
  PROVE  /\ [j EXCEPT !.step = "written"] \in Jobs
         /\ [j EXCEPT !.step = "written"].step = "written"
         /\ [j EXCEPT !.step = "written"].spot = j.spot
BY DEF Jobs

StaffTypes ==
  /\ RowTypes
  /\ options \subseteq Codes
  /\ edits \in 0..MaxEdits
  /\ job \in [Requests -> Jobs]
  /\ lock \in [Spots -> Requests \cup {Nobody}]
  /\ late \subseteq Spots \X Codes

\* A patch is of a spot, a deletion of one code.  A deletion that has looked for
\* spots knows all that have the code, but for those that were given it since.
Fits(j) ==
  /\ j.step \in {"loaded", "written"} => j.spot \in Spots
  /\ j.step \in {"found", "started", "cleared"} => \E k \in Codes : j.category = {k}
  /\ j.step \in {"started", "cleared"} =>
       \A s \in Spots \ j.rows : \A k \in j.category \cap row[s].category : <<s, k>> \in late

JobInv == \A q \in Requests : Fits(job[q])

StaffInv == StaffTypes /\ JobInv /\ DeletedCodesAreGone

\* The job of q changes, and no spot, option or late code.
LEMMA JobChanges ==
  ASSUME StaffInv, NEW q \in Requests, NEW j \in Jobs, job' = [job EXCEPT ![q] = j],
         UNCHANGED <<row, options, late>>,
         edits' \in 0..MaxEdits, lock' \in [Spots -> Requests \cup {Nobody}],
         Fits(j)
  PROVE  StaffInv'
<1>1. /\ job' \in [Requests -> Jobs]
      /\ \A p \in Requests : job'[p] = IF p = q THEN j ELSE job[p]
  BY DEF StaffInv, StaffTypes
<1>2. StaffTypes'
  BY <1>1 DEF StaffInv, StaffTypes, RowTypes
<1>3. JobInv'
  BY <1>1 DEF StaffInv, JobInv, Fits
<1>4. DeletedCodesAreGone'
  BY DEF StaffInv, DeletedCodesAreGone
<1> QED
  BY <1>2, <1>3, <1>4 DEF StaffInv

LEMMA StartKeepsStaff ==
  ASSUME StaffInv, NEW q \in Requests, NEW j \in Jobs, Start(q, j),
         UNCHANGED <<row, options, lock, late>>,
         \/ j.step = "loaded" /\ j.spot \in Spots
         \/ j.step = "found" /\ \E k \in Codes : j.category = {k}
  PROVE  StaffInv'
<1>1. job' = [job EXCEPT ![q] = j] /\ edits' = edits + 1 /\ edits < MaxEdits
  BY DEF Start
<1>2. edits' \in 0..MaxEdits /\ lock' \in [Spots -> Requests \cup {Nobody}]
  BY <1>1, LimitsAssumption DEF StaffInv, StaffTypes
<1>3. Fits(j)
  BY DEF Fits
<1> QED
  BY <1>1, <1>2, <1>3, JobChanges

LEMMA LoadPatchKeepsStaff ==
  ASSUME StaffInv, NEW q \in Requests, NEW s \in Spots, NEW codes \in SUBSET Codes,
         LoadPatch(q, s, codes)
  PROVE  StaffInv'
<1>1. PICK j : j = [Idle EXCEPT !.step = "loaded", !.spot = s, !.category = codes]
  OBVIOUS
<1>2. j = [step |-> "loaded", spot |-> s, category |-> codes, rows |-> {}]
  BY <1>1 DEF Idle
<1>3. j \in Jobs
  BY <1>2 DEF Jobs
<1>4. Start(q, j) /\ UNCHANGED <<row, options, lock, late>>
  BY <1>1 DEF LoadPatch
<1> QED
  BY <1>2, <1>3, <1>4, StartKeepsStaff

LEMMA FindOptionKeepsStaff ==
  ASSUME StaffInv, NEW q \in Requests, NEW k \in Codes, FindOption(q, k)
  PROVE  StaffInv'
<1>1. PICK j : j = [Idle EXCEPT !.step = "found", !.category = {k}]
  OBVIOUS
<1>2. j = [step |-> "found", spot |-> 0, category |-> {k}, rows |-> {}]
  BY <1>1 DEF Idle
<1>3. j \in Jobs
  BY <1>2 DEF Jobs
<1>4. Start(q, j) /\ UNCHANGED <<row, options, lock, late>>
  BY <1>1 DEF FindOption
<1> QED
  BY <1>2, <1>3, <1>4, StartKeepsStaff

LEMMA FlushPatchKeepsStaff ==
  ASSUME StaffInv, NEW q \in Requests, FlushPatch(q)
  PROVE  StaffInv'
<1>1. /\ job[q].step = "loaded"
      /\ lock' = [lock EXCEPT ![job[q].spot] = q]
      /\ job' = [job EXCEPT ![q] = [job[q] EXCEPT !.step = "written"]]
      /\ UNCHANGED <<row, options, edits, late>>
  BY DEF FlushPatch
<1>2. job[q] \in Jobs /\ job[q].spot \in Spots
  BY <1>1 DEF StaffInv, StaffTypes, JobInv, Fits
<1> DEFINE j == [job[q] EXCEPT !.step = "written"]
<1>3. j \in Jobs /\ j.step = "written" /\ j.spot = job[q].spot
  BY <1>2, JobRecord
<1> HIDE DEF j
<1>4. edits' \in 0..MaxEdits /\ lock' \in [Spots -> Requests \cup {Nobody}]
  BY <1>1, <1>2 DEF StaffInv, StaffTypes
<1>5. Fits(j)
  BY <1>2, <1>3 DEF Fits
<1> QED
  BY <1>1, <1>3, <1>4, <1>5, JobChanges DEF j

LEMMA LookForSpotsKeepsStaff ==
  ASSUME StaffInv, NEW q \in Requests, LookForSpots(q)
  PROVE  StaffInv'
<1>1. PICK R \in SUBSET Spots : R = {s \in Spots : job[q].category \subseteq row[s].category}
  OBVIOUS
<1>2. /\ job[q].step = "found"
      /\ job' = [job EXCEPT ![q] = [job[q] EXCEPT !.step = "started", !.rows = R]]
      /\ UNCHANGED <<row, options, edits, lock, late>>
  BY <1>1 DEF LookForSpots, StaffInv, StaffTypes
<1>3. job[q] \in Jobs /\ \E k \in Codes : job[q].category = {k}
  BY <1>2 DEF StaffInv, StaffTypes, JobInv, Fits
<1> DEFINE j == [job[q] EXCEPT !.step = "started", !.rows = R]
<1>4. j \in Jobs /\ j.step = "started" /\ j.category = job[q].category /\ j.rows = R
  BY <1>3 DEF Jobs
<1> HIDE DEF j
<1>5. \A s \in Spots \ R : job[q].category \cap row[s].category = {}
  BY <1>1, <1>3
<1>6. edits' \in 0..MaxEdits /\ lock' \in [Spots -> Requests \cup {Nobody}]
  BY <1>2 DEF StaffInv, StaffTypes
<1>7. Fits(j)
  BY <1>3, <1>4, <1>5 DEF Fits
<1> QED
  BY <1>2, <1>4, <1>6, <1>7, JobChanges DEF j

LEMMA ClearCodeKeepsStaff ==
  ASSUME StaffInv, NEW q \in Requests, ClearCode(q)
  PROVE  StaffInv'
<1>1. PICK S : S = {s \in job[q].rows : job[q].category \subseteq row[s].category}
  OBVIOUS
<1>2. /\ job[q].step = "started"
      /\ lock' = [s \in Spots |-> IF s \in S THEN q ELSE lock[s]]
      /\ job' = [job EXCEPT ![q] = [job[q] EXCEPT !.step = "cleared", !.rows = S]]
      /\ UNCHANGED <<row, options, edits, late>>
  BY <1>1 DEF ClearCode, StaffInv, StaffTypes
<1>3. job[q] \in Jobs /\ \E k \in Codes : job[q].category = {k}
  BY <1>2 DEF StaffInv, StaffTypes, JobInv, Fits
<1>4. S \subseteq Spots
  BY <1>1, <1>3 DEF Jobs
<1> DEFINE j == [job[q] EXCEPT !.step = "cleared", !.rows = S]
<1>5. j \in Jobs /\ j.step = "cleared" /\ j.category = job[q].category /\ j.rows = S
  BY <1>3, <1>4 DEF Jobs
<1> HIDE DEF j
<1>6. \A s \in Spots \ S : \A k \in job[q].category \cap row[s].category : <<s, k>> \in late
  <2> SUFFICES ASSUME NEW s \in Spots \ S, NEW k \in job[q].category \cap row[s].category
               PROVE  <<s, k>> \in late
    OBVIOUS
  <2>1. s \notin job[q].rows
    BY <1>1, <1>3
  <2> QED
    BY <1>2, <2>1 DEF StaffInv, JobInv, Fits
<1>7. edits' \in 0..MaxEdits /\ lock' \in [Spots -> Requests \cup {Nobody}]
  BY <1>2 DEF StaffInv, StaffTypes
<1>8. Fits(j)
  BY <1>3, <1>5, <1>6 DEF Fits
<1> QED
  BY <1>2, <1>5, <1>7, <1>8, JobChanges DEF j

LEMMA UnlockedTypes ==
  ASSUME StaffTypes, NEW q
  PROVE  Unlocked(q) \in [Spots -> Requests \cup {Nobody}]
BY DEF Unlocked, StaffTypes

LEMMA AbortKeepsStaff ==
  ASSUME StaffInv, NEW q \in Requests, Abort(q)
  PROVE  StaffInv'
<1>1. /\ lock' = Unlocked(q) /\ job' = [job EXCEPT ![q] = Idle]
      /\ UNCHANGED <<row, options, edits, late>>
  BY DEF Abort
<1>2. Idle \in Jobs /\ Idle.step = "idle"
  BY DEF Idle, Jobs
<1>3. edits' \in 0..MaxEdits /\ lock' \in [Spots -> Requests \cup {Nobody}]
  BY <1>1, UnlockedTypes DEF StaffInv, StaffTypes
<1>4. Fits(Idle)
  BY <1>2 DEF Fits
<1> QED
  BY <1>1, <1>2, <1>3, <1>4, JobChanges

LEMMA RowRecord ==
  ASSUME NEW r \in Row, NEW K \in SUBSET Codes
  PROVE  /\ [r EXCEPT !.category = K] \in Row
         /\ [r EXCEPT !.category = K].category = K
BY DEF Row

\* No spot is given a code.
LEMMA FewerCodes ==
  ASSUME JobInv, \A q \in Requests : job'[q] = job[q] \/ job'[q] = Idle,
         \A s \in Spots : row'[s].category \subseteq row[s].category,
         UNCHANGED late
  PROVE  JobInv'
<1>1. SUFFICES ASSUME NEW q \in Requests PROVE Fits(job[q])'
  BY DEF JobInv
<1>2. CASE job'[q] = job[q]
  BY <1>2 DEF JobInv, Fits
<1>3. CASE job'[q] = Idle
  BY <1>3 DEF Fits, Idle
<1> QED
  BY <1>2, <1>3

LEMMA CommitPatchKeepsStaff ==
  ASSUME StaffInv, NEW q \in Requests, CommitPatch(q)
  PROVE  StaffInv'
<1> DEFINE s == job[q].spot
           K == job[q].category
<1>1. /\ job[q].step = "written"
      /\ row' = [row EXCEPT ![s] = [row[s] EXCEPT !.category = K]]
      /\ late' = late \cup ({s} \X (K \cap Going))
      /\ lock' = Unlocked(q) /\ job' = [job EXCEPT ![q] = Idle]
      /\ UNCHANGED <<options, edits>>
  BY DEF CommitPatch
<1>2. s \in Spots /\ K \in SUBSET Codes /\ row[s] \in Row
  BY <1>1 DEF StaffInv, StaffTypes, JobInv, Fits, Jobs, RowTypes
<1> HIDE DEF s, K
<1>3. /\ [row[s] EXCEPT !.category = K] \in Row
      /\ [row[s] EXCEPT !.category = K].category = K
  BY <1>2, RowRecord
<1>4. /\ row' \in [Spots -> Row]
      /\ row'[s].category = K
      /\ \A t \in Spots : t # s => row'[t] = row[t]
  BY <1>1, <1>2, <1>3 DEF StaffInv, StaffTypes, RowTypes
<1>5. /\ job' \in [Requests -> Jobs] /\ job'[q] = Idle
      /\ \A p \in Requests : p # q => job'[p] = job[p]
  BY <1>1 DEF StaffInv, StaffTypes, Idle, Jobs
<1>6. StaffTypes'
  <2>1. Unlocked(q) \in [Spots -> Requests \cup {Nobody}]
    BY UnlockedTypes DEF StaffInv
  <2>2. late' \subseteq Spots \X Codes
    BY <1>1, <1>2 DEF StaffInv, StaffTypes
  <2> QED
    BY <1>1, <1>4, <1>5, <2>1, <2>2 DEF StaffInv, StaffTypes, RowTypes
<1>7. \A k \in K : k \in Going => <<s, k>> \in late'
  BY <1>1
<1>8. JobInv'
  <2> SUFFICES ASSUME NEW p \in Requests PROVE Fits(job[p])'
    BY DEF JobInv
  <2>1. CASE p = q
    BY <1>5, <2>1 DEF Fits, Idle
  <2>2. CASE p # q
    <3>1. job'[p] = job[p] /\ Fits(job[p])
      BY <1>5, <2>2 DEF StaffInv, JobInv
    <3>2. ASSUME job[p].step \in {"started", "cleared"}, NEW t \in Spots \ job[p].rows,
                 NEW k \in job[p].category \cap row'[t].category
          PROVE  <<t, k>> \in late'
      <4>1. CASE t = s
        <5>1. job[p].category \subseteq Going
          BY <3>2 DEF Going
        <5> QED
          BY <1>4, <1>7, <3>2, <4>1, <5>1
      <4>2. CASE t # s
        BY <1>1, <1>4, <3>1, <3>2, <4>2 DEF Fits
      <4> QED
        BY <4>1, <4>2
    <3> QED
      BY <3>1, <3>2 DEF Fits
  <2> QED
    BY <2>1, <2>2
<1>9. DeletedCodesAreGone'
  <2> SUFFICES ASSUME NEW t \in Spots, NEW k \in row'[t].category \ options'
               PROVE  <<t, k>> \in late'
    BY DEF DeletedCodesAreGone
  <2>1. CASE t = s
    <3>1. k \in K /\ k \in Going
      BY <1>1, <1>2, <1>4, <2>1 DEF Going
    <3> QED
      BY <1>7, <2>1, <3>1
  <2>2. CASE t # s
    BY <1>1, <1>4, <2>2 DEF StaffInv, DeletedCodesAreGone
  <2> QED
    BY <2>1, <2>2
<1> QED
  BY <1>6, <1>8, <1>9 DEF StaffInv

LEMMA CommitDeletionKeepsStaff ==
  ASSUME StaffInv, NEW q \in Requests, CommitDeletion(q)
  PROVE  StaffInv'
<1> DEFINE R == job[q].rows
           K == job[q].category
<1>1. /\ job[q].step = "cleared"
      /\ row' = [s \in Spots |-> IF s \in R THEN [row[s] EXCEPT !.category = @ \ K] ELSE row[s]]
      /\ options' = options \ K
      /\ lock' = Unlocked(q) /\ job' = [job EXCEPT ![q] = Idle]
      /\ UNCHANGED <<edits, late>>
  BY DEF CommitDeletion
<1>2. \A s \in Spots : row[s] \in Row /\ row[s].category \in SUBSET Codes
  BY DEF StaffInv, StaffTypes, RowTypes, Row
<1>3. \A s \in Spots \ R : \A k \in K \cap row[s].category : <<s, k>> \in late
  BY <1>1 DEF StaffInv, JobInv, Fits
<1> HIDE DEF R, K
<1>4. \A s \in Spots : /\ row'[s] \in Row
                       /\ row'[s].category = IF s \in R THEN row[s].category \ K
                                                        ELSE row[s].category
  <2> SUFFICES ASSUME NEW s \in Spots
               PROVE  /\ row'[s] \in Row
                      /\ row'[s].category = IF s \in R THEN row[s].category \ K
                                                       ELSE row[s].category
    OBVIOUS
  <2>1. CASE s \in R
    <3>1. row[s].category \ K \in SUBSET Codes
      BY <1>2
    <3>2. row'[s] = [row[s] EXCEPT !.category = row[s].category \ K]
      BY <1>1, <2>1
    <3> QED
      BY <1>2, <2>1, <3>1, <3>2, RowRecord
  <2>2. CASE s \notin R
    BY <1>1, <1>2, <2>2
  <2> QED
    BY <2>1, <2>2
<1>5. row' \in [Spots -> Row]
  BY <1>1, <1>4
<1>6. /\ job' \in [Requests -> Jobs] 
      /\ \A p \in Requests : job'[p] = job[p] \/ job'[p] = Idle
  BY <1>1 DEF StaffInv, StaffTypes, Idle, Jobs
<1>7. StaffTypes'
  <2>1. Unlocked(q) \in [Spots -> Requests \cup {Nobody}]
    BY UnlockedTypes DEF StaffInv
  <2> QED
    BY <1>1, <1>5, <1>6, <2>1 DEF StaffInv, StaffTypes, RowTypes
<1>8. JobInv'
  BY <1>1, <1>4, <1>6, FewerCodes DEF StaffInv
<1>9. DeletedCodesAreGone'
  <2> SUFFICES ASSUME NEW t \in Spots, NEW k \in row'[t].category \ options'
               PROVE  <<t, k>> \in late
    BY <1>1 DEF DeletedCodesAreGone
  <2>1. k \in row[t].category /\ (k \in K => t \notin R)
    BY <1>4
  <2>2. CASE k \in K
    BY <1>3, <2>1, <2>2
  <2>3. CASE k \notin K
    BY <1>1, <2>1, <2>3 DEF StaffInv, DeletedCodesAreGone
  <2> QED
    BY <2>2, <2>3
<1> QED
  BY <1>7, <1>8, <1>9 DEF StaffInv

LEMMA CreateOptionKeepsStaff ==
  ASSUME StaffInv, NEW k \in Codes, CreateOption(k)
  PROVE  StaffInv'
<1>1. /\ edits < MaxEdits /\ edits' = edits + 1 /\ options' = options \cup {k}
      /\ UNCHANGED <<row, job, lock, late>>
  BY DEF CreateOption, staff
<1>2. StaffTypes'
  BY <1>1, LimitsAssumption DEF StaffInv, StaffTypes, RowTypes
<1>3. JobInv'
  BY <1>1, FewerCodes DEF StaffInv
<1>4. DeletedCodesAreGone'
  BY <1>1 DEF StaffInv, DeletedCodesAreGone
<1> QED
  BY <1>2, <1>3, <1>4 DEF StaffInv

LEMMA OneEditTypes ==
  ASSUME NEW r \in Row, NEW new \in OneEdit(r)
  PROVE  new \in Row
<1>1. CASE new = [r EXCEPT !.public = ~@]
  BY <1>1 DEF Row
<1>2. CASE \E x \in {"nowhere", "inside", "outside"} : new = [r EXCEPT !.at = x]
  BY <1>2 DEF Row
<1>3. CASE \E x \in Scores : new = [r EXCEPT !.score = x]
  BY <1>3 DEF Row
<1>4. CASE \E x \in Ratings : new = [r EXCEPT !.rating = x]
  BY <1>4 DEF Row
<1> QED
  BY <1>1, <1>2, <1>3, <1>4 DEF OneEdit

LEMMA EditSpotKeepsStaff ==
  ASSUME StaffInv, NEW s \in Spots, NEW new \in OneEdit(row[s]), EditSpot(s, new)
  PROVE  StaffInv'
<1>1. /\ edits < MaxEdits /\ edits' = edits + 1
      /\ new.category = row[s].category
      /\ row' = [row EXCEPT ![s] = new]
      /\ UNCHANGED <<options, job, lock, late>>
  BY DEF EditSpot, staff
<1>2. new \in Row
  BY OneEditTypes DEF StaffInv, StaffTypes, RowTypes
<1>3. /\ row' \in [Spots -> Row]
      /\ \A t \in Spots : row'[t].category = row[t].category
  BY <1>1, <1>2 DEF StaffInv, StaffTypes, RowTypes
<1>4. StaffTypes'
  BY <1>1, <1>3, LimitsAssumption DEF StaffInv, StaffTypes, RowTypes
<1>5. JobInv'
  BY <1>1, <1>3, FewerCodes DEF StaffInv
<1>6. DeletedCodesAreGone'
  BY <1>1, <1>3 DEF StaffInv, DeletedCodesAreGone
<1> QED
  BY <1>4, <1>5, <1>6 DEF StaffInv

LEMMA StaffStepKeepsStaff ==
  ASSUME StaffInv, NEW q \in Requests, StaffStep(q)
  PROVE  StaffInv'
<1>1. CASE \E s \in Spots, codes \in SUBSET Codes : LoadPatch(q, s, codes)
  BY <1>1, LoadPatchKeepsStaff
<1>2. CASE \E k \in Codes : FindOption(q, k)
  BY <1>2, FindOptionKeepsStaff
<1>3. CASE FlushPatch(q)
  BY <1>3, FlushPatchKeepsStaff
<1>4. CASE CommitPatch(q)
  BY <1>4, CommitPatchKeepsStaff
<1>5. CASE LookForSpots(q)
  BY <1>5, LookForSpotsKeepsStaff
<1>6. CASE ClearCode(q)
  BY <1>6, ClearCodeKeepsStaff
<1>7. CASE CommitDeletion(q)
  BY <1>7, CommitDeletionKeepsStaff
<1>8. CASE Abort(q)
  BY <1>8, AbortKeepsStaff
<1> QED
  BY <1>1, <1>2, <1>3, <1>4, <1>5, <1>6, <1>7, <1>8 DEF StaffStep

LEMMA ClientsLeaveStaff ==
  ASSUME NEW c \in Clients, ClientStep(c)
  PROVE  UNCHANGED <<row, options, edits, job, lock, late>>
BY DEF ClientStep, Ask, Continue, ReadPage, ReadTotal, TurnToMap, Leave, staff

LEMMA StaffUnchanged ==
  ASSUME StaffInv, UNCHANGED <<row, options, edits, job, lock, late>>
  PROVE  StaffInv'
<1>1. StaffTypes'
  BY DEF StaffInv, StaffTypes, RowTypes
<1>2. JobInv'
  BY DEF StaffInv, JobInv, Fits
<1>3. DeletedCodesAreGone'
  BY DEF StaffInv, DeletedCodesAreGone
<1> QED
  BY <1>1, <1>2, <1>3 DEF StaffInv

LEMMA StaffInvKept ==
  ASSUME StaffInv, [Next]_vars
  PROVE  StaffInv'
<1>1. CASE \E c \in Clients : ClientStep(c)
  BY <1>1, ClientsLeaveStaff, StaffUnchanged
<1>2. CASE \E s \in Spots : \E new \in OneEdit(row[s]) : EditSpot(s, new)
  BY <1>2, EditSpotKeepsStaff
<1>3. CASE \E k \in Codes : CreateOption(k)
  BY <1>3, CreateOptionKeepsStaff
<1>4. CASE \E q \in Requests : StaffStep(q)
  BY <1>4, StaffStepKeepsStaff
<1>5. CASE UNCHANGED vars
  BY <1>5, StaffUnchanged DEF vars, staff
<1> QED
  BY <1>1, <1>2, <1>3, <1>4, <1>5 DEF Next

LEMMA StaffInvInitially == Init => StaffInv
<1> SUFFICES ASSUME Init PROVE StaffInv
  OBVIOUS
<1>1. StaffTypes
  BY RowsAssumption, LimitsAssumption DEF Init, StaffTypes, RowTypes, Idle, Jobs
<1>2. JobInv
  BY DEF Init, JobInv, Fits, Idle
<1>3. DeletedCodesAreGone
  BY <1>1 DEF Init, DeletedCodesAreGone, StaffTypes, RowTypes, Row
<1> QED
  BY <1>1, <1>2, <1>3 DEF StaffInv

---------------------------------------------------------------------------
(* Clients: what is true of a walk at any time.                            *)

\* A client waits for a page, or holds a cursor to ask for one.
Unfinished(p, k) == p = "asked" \/ k # NoCursor

\* s is not to come any more.
Passed(f, k, s) == k # NoCursor /\ ~Before(f, k.at, Position(f, s))

Cursors(f) == {NoCursor} \cup [scope : {f.area}, at : Keys(f)]

\* Walk(p, f, k, n, S, t, x, m): of a client at p, with filter f and cursor k, that
\* was shown the spots as n counts, S of them steady; t: it has switched; x, m: its
\* total and its pins.
Shape(p, f, k, n, t) ==
  /\ k \in Cursors(f)
  /\ p = "away" => k = NoCursor /\ n = NotShown /\ ~t
  /\ p = "more" => k # NoCursor
  /\ p \in {"end", "map"} => k = NoCursor

\* What a client was shown once is behind its cursor.
Once(p, f, k, n, S, s) ==
  s \in S \/ ~f.q =>
    /\ n[s] <= 1
    /\ n[s] = 1 /\ Unfinished(p, k) => Passed(f, k, s)

\* What matches was shown or is to come.
All(p, f, k, n, S, t, s) ==
  p # "away" /\ ~t /\ s \in S =>
    /\ n[s] > 0 => Matches(f, s)
    /\ Matches(f, s) => n[s] > 0 \/ (Unfinished(p, k) /\ s \in Rest(f, k))

Answers(p, f, S, x, m) ==
  S = Spots => /\ p \in {"end", "map"} => x = Total(f)
               /\ p = "map" => m = Pins(f)

Walk(p, f, k, n, S, t, x, m) ==
  /\ Shape(p, f, k, n, t)
  /\ Answers(p, f, S, x, m)
  /\ \A s \in Spots : Once(p, f, k, n, S, s) /\ All(p, f, k, n, S, t, s)

WalkOf(c) ==
  Walk(place[c], filter[c], cursor[c], shown[c], steady[c], switched[c], total[c], pins[c])

Places == {"away", "asked", "listed", "more", "end", "map"}

ClientTypes ==
  /\ place \in [Clients -> Places]
  /\ filter \in [Clients -> Filters]
  /\ cursor \in [Clients -> [scope : {"none", "all", "box"}, at : Seq(Nat)]]
  /\ total \in [Clients -> 0..TotalCap]
  /\ pins \in [Clients -> [spots : SUBSET Spots, truncated : BOOLEAN]]
  /\ shown \in [Clients -> [Spots -> Nat]]
  /\ steady \in [Clients -> SUBSET Spots]
  /\ switched \in [Clients -> BOOLEAN]

ClientInv == ClientTypes /\ \A c \in Clients : WalkOf(c)

LEMMA CursorTypes ==
  ASSUME NEW f \in Filters, NEW k \in Cursors(f)
  PROVE  k \in [scope : {"none", "all", "box"}, at : Seq(Nat)]
<1>1. f.area \in {"all", "box"}
  BY DEF Filters
<1>2. Keys(f) \subseteq Seq(Nat)
  <2> SUFFICES ASSUME NEW a \in Keys(f) PROVE a \in Seq(Nat)
    OBVIOUS
  <2>1. CASE f.q
    <3>1. PICK x \in Nat, y \in Nat, z \in Nat : a = <<x, y, z>>
      BY <2>1 DEF Keys
    <3> QED
      BY <3>1
  <2>2. CASE ~f.q
    <3>1. PICK x \in Nat : a = <<x>>
      BY <2>2 DEF Keys
    <3> QED
      BY <3>1
  <2> QED
    BY <2>1, <2>2
<1>3. <<>> \in Seq(Nat)
  OBVIOUS
<1>4. CASE k = NoCursor
  BY <1>3, <1>4 DEF NoCursor
<1>5. CASE k \in [scope : {f.area}, at : Keys(f)]
  BY <1>1, <1>2, <1>5
<1> QED
  BY <1>4, <1>5 DEF Cursors

LEMMA NoCursorScope ==
  ASSUME NEW f \in Filters, NEW a
  PROVE  /\ [scope |-> f.area, at |-> a] # NoCursor
         /\ [scope |-> f.area, at |-> a].at = a
<1>1. f.area # "none"
  BY DEF Filters
<1>2. [scope |-> f.area, at |-> a].scope = f.area /\ NoCursor.scope = "none"
  BY DEF NoCursor
<1> QED
  BY <1>1, <1>2

LEMMA RestTypes ==
  ASSUME NEW f, NEW k
  PROVE  /\ Rest(f, k) \in SUBSET Spots
         /\ IsFiniteSet(Rest(f, k))
         /\ Cardinality(Rest(f, k)) \in Nat
BY SpotsAssumption, FS_Subset, FS_CardinalityType DEF Rest

LEMMA TotalTypes ==
  ASSUME NEW f
  PROVE  Total(f) \in 0..TotalCap
<1>1. Cardinality({s \in Spots : Matches(f, s)}) \in Nat
  BY SpotsAssumption, FS_Subset, FS_CardinalityType
<1> QED
  BY <1>1, LimitsAssumption DEF Total

LEMMA PinsTypes ==
  ASSUME NEW f
  PROVE  Pins(f) \in [spots : SUBSET Spots, truncated : BOOLEAN]
<1>1. FirstOf(AnyFilter, OnMap(f), MapLimit) \in SUBSET Spots
  BY DEF FirstOf, OnMap
<1> QED
  BY <1>1 DEF Pins

\* To clients who ask by f, the row of s is what it was.
Unaltered(f, s) ==
  /\ row'[s].public = row[s].public /\ row'[s].at = row[s].at
  /\ row'[s].category = row[s].category
  /\ f.q => row'[s] = row[s]

LEMMA PositionKept ==
  ASSUME NEW f, NEW s, Unaltered(f, s) \/ ~f.q
  PROVE  Position(f, s)' = Position(f, s)
BY DEF Position, Unaltered

LEMMA SightKept ==
  ASSUME NEW f, NEW s \in Spots, Unaltered(f, s)
  PROVE  /\ Matches(f, s)' <=> Matches(f, s)
         /\ \A k : s \in Rest(f, k)' <=> s \in Rest(f, k)
         /\ s \in OnMap(f)' <=> s \in OnMap(f)
<1>1. \A b : Explorable(f, s, b)' <=> Explorable(f, s, b)
  BY DEF Explorable, Unaltered
<1>2. Found(f, s)' <=> Found(f, s)
  BY DEF Found, Unaltered
<1>3. Matches(f, s)' <=> Matches(f, s)
  BY <1>1, <1>2 DEF Matches
<1>4. Position(f, s)' = Position(f, s)
  BY PositionKept
<1>5. ASSUME NEW k PROVE s \in Rest(f, k)' <=> s \in Rest(f, k)
  <2>1. s \in Rest(f, k) <=> Matches(f, s) /\ (k = NoCursor \/ Before(f, k.at, Position(f, s)))
    BY DEF Rest
  <2>2. s \in Rest(f, k)' <=>
          Matches(f, s)' /\ (k = NoCursor \/ Before(f, k.at, Position(f, s)'))
    BY DEF Rest
  <2> QED
    BY <1>3, <1>4, <2>1, <2>2
<1>6. s \in OnMap(f)' <=> s \in OnMap(f)
  BY <1>1, <1>2 DEF OnMap
<1> QED
  BY <1>3, <1>5, <1>6

LEMMA AnswersKept ==
  ASSUME NEW f, \A s \in Spots : Unaltered(f, s)
  PROVE  Total(f)' = Total(f) /\ Pins(f)' = Pins(f)
<1>1. {s \in Spots : Matches(f, s)}' = {s \in Spots : Matches(f, s)}
  BY SightKept
<1>2. Total(f)' = Total(f)
  BY <1>1 DEF Total
<1>3. OnMap(f)' = OnMap(f)
  <2>1. OnMap(f) \subseteq Spots /\ OnMap(f)' \subseteq Spots
    BY DEF OnMap
  <2> QED
    BY <2>1, SightKept
<1>4. \A s \in Spots : Position(AnyFilter, s)' = Position(AnyFilter, s)
  BY PositionKept DEF AnyFilter
<1>5. \A S : FirstOf(AnyFilter, S, MapLimit)' = FirstOf(AnyFilter, S, MapLimit)
  BY <1>4 DEF FirstOf, Position, AnyFilter
<1>6. Pins(f)' = Pins(f)
  BY <1>3, <1>5 DEF Pins
<1> QED
  BY <1>2, <1>6

\* What is true of a walk stays true while its client sees the steady spots as
\* they were.
LEMMA WalkKept ==
  ASSUME NEW p, NEW f, NEW k, NEW n, NEW S \in SUBSET Spots, NEW t, NEW x, NEW m,
         Walk(p, f, k, n, S, t, x, m),
         NEW T \in SUBSET S, \A s \in T : Unaltered(f, s)
  PROVE  Walk(p, f, k, n, T, t, x, m)'
<1>1. Shape(p, f, k, n, t)'
  BY DEF Walk, Shape
<1>2. Answers(p, f, T, x, m)'
  BY AnswersKept DEF Walk, Answers
<1>3. ASSUME NEW s \in Spots PROVE Once(p, f, k, n, T, s)'
  <2> SUFFICES ASSUME s \in T \/ ~f.q
               PROVE  n[s] <= 1 /\ (n[s] = 1 /\ Unfinished(p, k) => Passed(f, k, s)')
    BY DEF Once, Unfinished
  <2>1. Position(f, s)' = Position(f, s)
    BY PositionKept
  <2>2. Passed(f, k, s)' <=> Passed(f, k, s)
    BY <2>1 DEF Passed
  <2>3. Once(p, f, k, n, S, s)
    BY DEF Walk
  <2> QED
    BY <2>2, <2>3 DEF Once
<1>4. ASSUME NEW s \in Spots PROVE All(p, f, k, n, T, t, s)'
  <2> SUFFICES ASSUME p # "away", ~t, s \in T
               PROVE  /\ n[s] > 0 => Matches(f, s)'
                      /\ Matches(f, s)' =>
                           n[s] > 0 \/ (Unfinished(p, k) /\ s \in Rest(f, k)')
    BY DEF All, Unfinished
  <2>1. (Matches(f, s)' <=> Matches(f, s)) /\ (s \in Rest(f, k)' <=> s \in Rest(f, k))
    BY SightKept
  <2>2. All(p, f, k, n, S, t, s)
    BY DEF Walk
  <2> QED
    BY <2>1, <2>2 DEF All
<1> QED
  BY <1>1, <1>2, <1>3, <1>4 DEF Walk

Moved(c) ==
  \A d \in Clients \ {c} :
    /\ place'[d] = place[d] /\ filter'[d] = filter[d] /\ cursor'[d] = cursor[d]
    /\ shown'[d] = shown[d] /\ steady'[d] = steady[d] /\ switched'[d] = switched[d]
    /\ total'[d] = total[d] /\ pins'[d] = pins[d]

\* The client c moves on, and nothing else does.
LEMMA ClientMoves ==
  ASSUME ClientInv, NEW c \in Clients, UNCHANGED row, ClientTypes', Moved(c),
         NEW p, p = place'[c], NEW f, f = filter'[c], NEW k, k = cursor'[c],
         NEW n, n = shown'[c], NEW S, S = steady'[c], NEW t, t = switched'[c],
         NEW x, x = total'[c], NEW m, m = pins'[c],
         Walk(p, f, k, n, S, t, x, m)
  PROVE  ClientInv'
<1>1. \A s \in Spots : \A g : Unaltered(g, s)
  BY DEF Unaltered
<1>2. ASSUME NEW d \in Clients PROVE WalkOf(d)'
  <2>1. CASE d = c
    <3>1. S \in SUBSET Spots
      BY DEF ClientTypes
    <3>2. Walk(p, f, k, n, S, t, x, m)'
      BY <1>1, <3>1, WalkKept
    <3> QED
      BY <2>1, <3>2 DEF WalkOf
  <2>2. CASE d # c
    <3>1. PICK dp, df, dk, dn, dS, dt, dx, dm :
            /\ dp = place[d] /\ df = filter[d] /\ dk = cursor[d] /\ dn = shown[d]
            /\ dS = steady[d] /\ dt = switched[d] /\ dx = total[d] /\ dm = pins[d]
      OBVIOUS
    <3>2. Walk(dp, df, dk, dn, dS, dt, dx, dm) /\ dS \in SUBSET Spots
      BY <3>1 DEF ClientInv, WalkOf, ClientTypes
    <3>3. Walk(dp, df, dk, dn, dS, dt, dx, dm)'
      BY <1>1, <3>2, WalkKept
    <3>4. /\ dp = place'[d] /\ df = filter'[d] /\ dk = cursor'[d] /\ dn = shown'[d]
          /\ dS = steady'[d] /\ dt = switched'[d] /\ dx = total'[d] /\ dm = pins'[d]
      BY <2>2, <3>1 DEF Moved
    <3> QED
      BY <3>3, <3>4 DEF WalkOf
  <2> QED
    BY <2>1, <2>2
<1> QED
  BY <1>2 DEF ClientInv

LEMMA AskKeepsClients ==
  ASSUME ClientInv, NEW c \in Clients, NEW f \in Filters, Ask(c, f)
  PROVE  ClientInv'
<1>1. /\ place[c] = "away"
      /\ place' = [place EXCEPT ![c] = "asked"]
      /\ filter' = [filter EXCEPT ![c] = f]
      /\ steady' = [steady EXCEPT ![c] = Spots]
      /\ UNCHANGED <<row, cursor, total, pins, shown, switched>>
  BY DEF Ask
<1>2. ClientTypes' /\ Moved(c)
  BY <1>1 DEF ClientInv, ClientTypes, Places, Moved
<1>3. /\ place'[c] = "asked" /\ filter'[c] = f /\ steady'[c] = Spots
      /\ cursor'[c] = NoCursor /\ shown'[c] = NotShown /\ switched'[c] = FALSE
  <2>1. Shape(place[c], filter[c], cursor[c], shown[c], switched[c])
    BY DEF ClientInv, WalkOf, Walk
  <2>2. cursor[c] = NoCursor /\ shown[c] = NotShown /\ switched[c] = FALSE
    BY <1>1, <2>1 DEF Shape, ClientInv, ClientTypes
  <2> QED
    BY <1>1, <2>2 DEF ClientInv, ClientTypes
<1>4. PICK x, m : x = total'[c] /\ m = pins'[c]
  OBVIOUS
<1>5. Walk("asked", f, NoCursor, NotShown, Spots, FALSE, x, m)
  <2>1. Shape("asked", f, NoCursor, NotShown, FALSE) /\ Answers("asked", f, Spots, x, m)
    BY DEF Shape, Answers, Cursors
  <2>2. ASSUME NEW s \in Spots
        PROVE  /\ Once("asked", f, NoCursor, NotShown, Spots, s)
               /\ All("asked", f, NoCursor, NotShown, Spots, FALSE, s)
    <3>1. NotShown[s] = 0
      BY DEF NotShown
    <3>2. Matches(f, s) => s \in Rest(f, NoCursor)
      BY DEF Rest
    <3> QED
      BY <3>1, <3>2 DEF Once, All, Unfinished
  <2> QED
    BY <2>1, <2>2 DEF Walk
<1> QED
  BY <1>1, <1>2, <1>3, <1>4, <1>5, ClientMoves

LEMMA LeaveKeepsClients ==
  ASSUME ClientInv, NEW c \in Clients, Leave(c)
  PROVE  ClientInv'
<1>1. /\ place' = [place EXCEPT ![c] = "away"]
      /\ filter' = [filter EXCEPT ![c] = AnyFilter]
      /\ cursor' = [cursor EXCEPT ![c] = NoCursor]
      /\ total' = [total EXCEPT ![c] = 0]
      /\ pins' = [pins EXCEPT ![c] = NoPins]
      /\ shown' = [shown EXCEPT ![c] = NotShown]
      /\ steady' = [steady EXCEPT ![c] = Spots]
      /\ switched' = [switched EXCEPT ![c] = FALSE]
      /\ UNCHANGED row
  BY DEF Leave
<1>2. /\ AnyFilter \in Filters /\ 0 \in 0..TotalCap /\ NotShown \in [Spots -> Nat]
      /\ NoPins \in [spots : SUBSET Spots, truncated : BOOLEAN]
      /\ NoCursor \in [scope : {"none", "all", "box"}, at : Seq(Nat)]
  <2>1. AnyFilter \in Filters /\ NoCursor \in Cursors(AnyFilter)
    BY DEF AnyFilter, Filters, Cursors
  <2>2. NoCursor \in [scope : {"none", "all", "box"}, at : Seq(Nat)]
    BY <2>1, CursorTypes
  <2> QED
    BY <2>1, <2>2, LimitsAssumption DEF NoPins, NotShown
<1>3. ClientTypes' /\ Moved(c)
  BY <1>1, <1>2 DEF ClientInv, ClientTypes, Places, Moved
<1>4. /\ place'[c] = "away" /\ filter'[c] = AnyFilter /\ steady'[c] = Spots
      /\ cursor'[c] = NoCursor /\ shown'[c] = NotShown /\ switched'[c] = FALSE
      /\ total'[c] = 0 /\ pins'[c] = NoPins
  BY <1>1 DEF ClientInv, ClientTypes
<1>5. Walk("away", AnyFilter, NoCursor, NotShown, Spots, FALSE, 0, NoPins)
  BY DEF Walk, Shape, Answers, Once, All, Cursors, NotShown
<1> QED
  BY <1>1, <1>3, <1>4, <1>5, ClientMoves

LEMMA ReadTotalKeepsClients ==
  ASSUME ClientInv, NEW c \in Clients, ReadTotal(c)
  PROVE  ClientInv'
<1>1. PICK f, k, n, S, t, m :
        /\ f = filter[c] /\ k = cursor[c] /\ n = shown[c]
        /\ S = steady[c] /\ t = switched[c] /\ m = pins[c]
  OBVIOUS
<1>2. PICK p : p = IF k = NoCursor THEN "end" ELSE "more"
  OBVIOUS
<1>3. PICK x : x = Total(f)
  OBVIOUS
<1>4. /\ place[c] = "listed"
      /\ total' = [total EXCEPT ![c] = x]
      /\ place' = [place EXCEPT ![c] = p]
      /\ UNCHANGED <<row, filter, cursor, pins, shown, switched, steady>>
  BY <1>1, <1>2, <1>3 DEF ReadTotal
<1>5. x \in 0..TotalCap /\ p \in Places
  BY <1>2, <1>3, TotalTypes DEF Places
<1>6. ClientTypes' /\ Moved(c)
  BY <1>4, <1>5 DEF ClientInv, ClientTypes, Places, Moved
<1>7. place'[c] = p /\ total'[c] = x
  BY <1>4 DEF ClientInv, ClientTypes
<1>8. Walk("listed", f, k, n, S, t, total[c], m)
  BY <1>1, <1>4 DEF ClientInv, WalkOf
<1>9. Walk(p, f, k, n, S, t, x, m)
  <2>1. Shape(p, f, k, n, t)
    BY <1>2, <1>8 DEF Walk, Shape
  <2>2. Answers(p, f, S, x, m)
    BY <1>2, <1>3 DEF Answers
  <2>3. Unfinished(p, k) <=> Unfinished("listed", k)
    BY <1>2 DEF Unfinished
  <2>4. \A s \in Spots : Once(p, f, k, n, S, s)
    BY <1>8, <2>3 DEF Walk, Once
  <2>5. \A s \in Spots : All(p, f, k, n, S, t, s)
    BY <1>8, <2>3 DEF Walk, All
  <2> QED
    BY <2>1, <2>2, <2>4, <2>5 DEF Walk
<1> QED
  BY <1>1, <1>4, <1>6, <1>7, <1>9, ClientMoves

LEMMA TurnToMapKeepsClients ==
  ASSUME ClientInv, NEW c \in Clients, TurnToMap(c)
  PROVE  ClientInv'
<1>1. PICK f, k, n, S, t, x :
        /\ f = filter[c] /\ k = cursor[c] /\ n = shown[c]
        /\ S = steady[c] /\ t = switched[c] /\ x = total[c]
  OBVIOUS
<1>2. PICK m : m = Pins(f)
  OBVIOUS
<1>3. /\ place[c] = "end"
      /\ pins' = [pins EXCEPT ![c] = m]
      /\ place' = [place EXCEPT ![c] = "map"]
      /\ UNCHANGED <<row, filter, cursor, total, shown, switched, steady>>
  BY <1>1, <1>2 DEF TurnToMap
<1>4. m \in [spots : SUBSET Spots, truncated : BOOLEAN]
  BY <1>2, PinsTypes
<1>5. ClientTypes' /\ Moved(c)
  BY <1>3, <1>4 DEF ClientInv, ClientTypes, Places, Moved
<1>6. place'[c] = "map" /\ pins'[c] = m
  BY <1>3 DEF ClientInv, ClientTypes
<1>7. Walk("end", f, k, n, S, t, x, pins[c])
  BY <1>1, <1>3 DEF ClientInv, WalkOf
<1>8. Walk("map", f, k, n, S, t, x, m)
  <2>1. Shape("map", f, k, n, t)
    BY <1>7 DEF Walk, Shape
  <2>2. Answers("map", f, S, x, m)
    BY <1>2, <1>7 DEF Walk, Answers
  <2>3. Unfinished("map", k) <=> Unfinished("end", k)
    BY DEF Unfinished
  <2>4. \A s \in Spots : Once("map", f, k, n, S, s)
    BY <1>7, <2>3 DEF Walk, Once
  <2>5. \A s \in Spots : All("map", f, k, n, S, t, s)
    BY <1>7, <2>3 DEF Walk, All
  <2> QED
    BY <2>1, <2>2, <2>4, <2>5 DEF Walk
<1> QED
  BY <1>1, <1>3, <1>5, <1>6, <1>8, ClientMoves

\* Filters that ask by the same order have the same places.
LEMMA SameOrder ==
  ASSUME NEW f, NEW g, f.q = g.q
  PROVE  /\ Keys(f) = Keys(g)
         /\ \A s : Position(f, s) = Position(g, s)
         /\ \A a, b : Before(f, a, b) = Before(g, a, b)
<1>1. Keys(f) = Keys(g)
  BY DEF Keys
<1>2. \A s : Position(f, s) = Position(g, s)
  BY DEF Position
<1>3. \A a, b : Before(f, a, b) = Before(g, a, b)
  BY DEF Before
<1> QED
  BY <1>1, <1>2, <1>3

LEMMA ContinueKeepsClients ==
  ASSUME ClientInv, NEW c \in Clients, NEW g \in Filters, Continue(c, g)
  PROVE  ClientInv'
<1>1. PICK f, k, n, S, x, m :
        /\ f = filter[c] /\ k = cursor[c] /\ n = shown[c]
        /\ S = steady[c] /\ x = total[c] /\ m = pins[c]
  OBVIOUS
<1>2. PICK t \in BOOLEAN : t = (switched[c] \/ g.category # f.category)
  OBVIOUS
<1>3. /\ place[c] = "more" /\ g.q = f.q /\ k.scope = g.area
      /\ place' = [place EXCEPT ![c] = "asked"]
      /\ filter' = [filter EXCEPT ![c] = g]
      /\ switched' = [switched EXCEPT ![c] = t]
      /\ UNCHANGED <<row, cursor, total, pins, shown, steady>>
  BY <1>1, <1>2 DEF Continue
<1>4. ClientTypes' /\ Moved(c)
  BY <1>3 DEF ClientInv, ClientTypes, Places, Moved
<1>5. place'[c] = "asked" /\ filter'[c] = g /\ switched'[c] = t
  BY <1>3 DEF ClientInv, ClientTypes
<1>6. f \in Filters /\ Walk("more", f, k, n, S, switched[c], x, m)
  BY <1>1, <1>3 DEF ClientInv, WalkOf, ClientTypes
<1>7. k # NoCursor /\ k \in Cursors(f)
  BY <1>6 DEF Walk, Shape
<1>8. f.area = g.area /\ k \in Cursors(g)
  <2>1. k \in [scope : {f.area}, at : Keys(f)]
    BY <1>7 DEF Cursors
  <2>2. Keys(f) = Keys(g)
    BY <1>3, SameOrder
  <2> QED
    BY <1>3, <2>1, <2>2 DEF Cursors
<1>9. ~t => f = g
  <2>1. ~t => f.category = g.category
    BY <1>2
  <2> QED
    BY <1>3, <1>6, <1>8, <2>1 DEF Filters
<1>10. Walk("asked", g, k, n, S, t, x, m)
  <2>1. Shape("asked", g, k, n, t) /\ Answers("asked", g, S, x, m)
    BY <1>8 DEF Shape, Answers
  <2>2. Unfinished("asked", k) /\ Unfinished("more", k)
    BY <1>7 DEF Unfinished
  <2>3. ASSUME NEW s \in Spots PROVE Once("asked", g, k, n, S, s)
    <3>1. Position(f, s) = Position(g, s)
      BY <1>3, SameOrder
    <3>2. Passed(f, k, s) <=> Passed(g, k, s)
      BY <1>3, <3>1, SameOrder DEF Passed
    <3>3. Once("more", f, k, n, S, s)
      BY <1>6 DEF Walk
    <3> QED
      BY <1>3, <2>2, <3>2, <3>3 DEF Once
  <2>4. ASSUME NEW s \in Spots PROVE All("asked", g, k, n, S, t, s)
    <3>1. All("more", f, k, n, S, switched[c], s)
      BY <1>6 DEF Walk
    <3>2. ~t => ~switched[c]
      BY <1>2
    <3> QED
      BY <1>9, <2>2, <3>1, <3>2 DEF All
  <2> QED
    BY <2>1, <2>3, <2>4 DEF Walk
<1> QED
  BY <1>1, <1>3, <1>4, <1>5, <1>10, ClientMoves

\* A page shows what is left up to where the next one goes on.
LEMMA PageIsNext ==
  ASSUME RowTypes, NEW f \in Filters, NEW k \in Cursors(f), NEW j, j = NextCursor(f, k),
         NEW P, P = FirstOf(f, Rest(f, k), PageSize)
  PROVE  /\ P \subseteq Rest(f, k)
         /\ j \in Cursors(f)
         /\ \A s \in Rest(f, k) \ P : j # NoCursor /\ s \in Rest(f, j)
         /\ j # NoCursor => \A s \in Spots :
              (s \in P => Passed(f, j, s)) /\ (Passed(f, k, s) => Passed(f, j, s))
<1> DEFINE R == Rest(f, k)
<1>1. R \in SUBSET Spots /\ Cardinality(R) \in Nat /\ PageSize \in Nat \ {0}
  BY RestTypes, LimitsAssumption
<1>2. CASE Cardinality(R) <= PageSize
  <2>1. P = R
    BY <1>1, <1>2, FirstOfFew
  <2>2. j = NoCursor
    BY <1>2 DEF NextCursor
  <2> QED
    BY <2>1, <2>2 DEF Cursors
<1>3. CASE ~(Cardinality(R) <= PageSize)
  <2>1. PICK l : l = LastOf(f, P)
    OBVIOUS
  <2>2. Cardinality(R) > PageSize
    BY <1>1, <1>3
  <2>3. /\ P \subseteq R /\ l \in P
        /\ \A s \in P : ~Ahead(f, l, s)
        /\ \A s \in R \ P : Ahead(f, l, s)
    BY <1>1, <2>1, <2>2, FirstOfMany
  <2>4. j = [scope |-> f.area, at |-> Position(f, l)]
    BY <1>3, <2>1 DEF NextCursor, LastOf, Ahead
  <2>5. j # NoCursor /\ j.at = Position(f, l)
    BY <2>4, NoCursorScope
  <2>6. l \in Spots /\ Position(f, l) \in Keys(f)
    BY <1>1, <2>3, PositionIsKey
  <2>7. j \in Cursors(f)
    BY <2>4, <2>6 DEF Cursors
  <2>8. \A s \in R \ P : s \in Rest(f, j)
    BY <2>3, <2>5 DEF Rest, Ahead
  <2>9. \A s \in P : Passed(f, j, s)
    BY <2>3, <2>5 DEF Passed, Ahead
  <2>10. ASSUME NEW s \in Spots, Passed(f, k, s) PROVE Passed(f, j, s)
    <3>1. k # NoCursor /\ ~Before(f, k.at, Position(f, s))
      BY <2>10 DEF Passed
    <3>2. k.at \in Keys(f) /\ Position(f, s) \in Keys(f)
      BY <3>1, PositionIsKey DEF Cursors
    <3>3. Before(f, k.at, Position(f, l))
      BY <2>3, <3>1 DEF Rest
    <3>4. ~Before(f, Position(f, l), Position(f, s))
      BY <2>6, <3>1, <3>2, <3>3, BeforeIsOrder
    <3> QED
      BY <2>5, <3>4 DEF Passed
  <2> QED
    BY <2>3, <2>5, <2>7, <2>8, <2>9, <2>10
<1> QED
  BY <1>2, <1>3

LEMMA ReadPageKeepsClients ==
  ASSUME ClientInv, RowTypes, NEW c \in Clients, ReadPage(c)
  PROVE  ClientInv'
<1>1. PICK f, k, n, S, t, x, m :
        /\ f = filter[c] /\ k = cursor[c] /\ n = shown[c]
        /\ S = steady[c] /\ t = switched[c] /\ x = total[c] /\ m = pins[c]
  OBVIOUS
<1>2. PICK j : j = NextCursor(f, k)
  OBVIOUS
<1>3. PICK P : P = FirstOf(f, Rest(f, k), PageSize)
  OBVIOUS
<1>4. PICK y : y = [s \in Spots |-> n[s] + IF s \in P THEN 1 ELSE 0]
  OBVIOUS
<1>5. f \in Filters /\ n \in [Spots -> Nat]
  BY <1>1 DEF ClientInv, ClientTypes
<1>6. /\ place[c] = "asked"
      /\ shown' = [shown EXCEPT ![c] = y]
      /\ cursor' = [cursor EXCEPT ![c] = j]
      /\ place' = [place EXCEPT ![c] = "listed"]
      /\ UNCHANGED <<row, filter, total, pins, switched, steady>>
  BY <1>1, <1>2, <1>3, <1>4 DEF ReadPage
<1>7. Walk("asked", f, k, n, S, t, x, m)
  BY <1>1, <1>6 DEF ClientInv, WalkOf
<1>8. k \in Cursors(f)
  BY <1>7 DEF Walk, Shape
<1>9. /\ P \subseteq Rest(f, k)
      /\ j \in Cursors(f)
      /\ \A s \in Rest(f, k) \ P : j # NoCursor /\ s \in Rest(f, j)
      /\ j # NoCursor => \A s \in Spots :
           (s \in P => Passed(f, j, s)) /\ (Passed(f, k, s) => Passed(f, j, s))
  BY <1>2, <1>3, <1>5, <1>8, PageIsNext
<1>10. /\ y \in [Spots -> Nat]
       /\ \A s \in Spots : y[s] = IF s \in P THEN n[s] + 1 ELSE n[s]
  BY <1>4, <1>5
<1>11. ClientTypes' /\ Moved(c)
  <2>1. j \in [scope : {"none", "all", "box"}, at : Seq(Nat)]
    BY <1>5, <1>9, CursorTypes
  <2> QED
    BY <1>6, <1>10, <2>1 DEF ClientInv, ClientTypes, Places, Moved
<1>12. place'[c] = "listed" /\ cursor'[c] = j /\ shown'[c] = y
  BY <1>6 DEF ClientInv, ClientTypes
<1>13. Walk("listed", f, j, y, S, t, x, m)
  <2>1. Shape("listed", f, j, y, t) /\ Answers("listed", f, S, x, m)
    BY <1>9 DEF Shape, Answers
  <2>2. ASSUME NEW s \in Spots, s \in P, Passed(f, k, s) PROVE FALSE
    BY <1>9, <2>2 DEF Rest, Passed
  <2>3. Unfinished("asked", k)
    BY DEF Unfinished
  <2>4. ASSUME NEW s \in Spots PROVE Once("listed", f, j, y, S, s)
    <3> SUFFICES ASSUME s \in S \/ ~f.q
                 PROVE  y[s] <= 1 /\ (y[s] = 1 /\ j # NoCursor => Passed(f, j, s))
      BY DEF Once, Unfinished
    <3>1. n[s] \in Nat /\ n[s] <= 1 /\ (n[s] = 1 => Passed(f, k, s))
      BY <1>5, <1>7, <2>3 DEF Walk, Once
    <3>2. CASE s \in P
      <4>1. n[s] = 0 /\ y[s] = 1
        BY <1>10, <2>2, <3>1, <3>2
      <4> QED
        BY <1>9, <3>2, <4>1
    <3>3. CASE s \notin P
      BY <1>9, <1>10, <3>1, <3>3
    <3> QED
      BY <3>2, <3>3
  <2>5. ASSUME NEW s \in Spots PROVE All("listed", f, j, y, S, t, s)
    <3> SUFFICES ASSUME ~t, s \in S
                 PROVE  /\ y[s] > 0 => Matches(f, s)
                        /\ Matches(f, s) => y[s] > 0 \/ (j # NoCursor /\ s \in Rest(f, j))
      BY DEF All, Unfinished
    <3>1. /\ n[s] \in Nat
          /\ n[s] > 0 => Matches(f, s)
          /\ Matches(f, s) => n[s] > 0 \/ s \in Rest(f, k)
      BY <1>5, <1>7 DEF Walk, All
    <3>2. CASE s \in P
      <4>1. Matches(f, s)
        BY <1>9, <3>2 DEF Rest
      <4> QED
        BY <1>10, <3>1, <3>2, <4>1
    <3>3. CASE s \notin P
      BY <1>9, <1>10, <3>1, <3>3
    <3> QED
      BY <3>2, <3>3
  <2> QED
    BY <2>1, <2>4, <2>5 DEF Walk
<1> QED
  BY <1>1, <1>6, <1>11, <1>12, <1>13, ClientMoves

LEMMA ClientStepKeepsClients ==
  ASSUME ClientInv, RowTypes, NEW c \in Clients, ClientStep(c)
  PROVE  ClientInv'
BY AskKeepsClients, ContinueKeepsClients, ReadPageKeepsClients, ReadTotalKeepsClients,
   TurnToMapKeepsClients, LeaveKeepsClients DEF ClientStep

---------------------------------------------------------------------------
(* What staff do while clients walk.                                       *)

\* Whoever still counts a spot as steady sees it as it was.
KeepsSight ==
  /\ UNCHANGED client
  /\ steady' \in [Clients -> SUBSET Spots]
  /\ \A c \in Clients : /\ steady'[c] \subseteq steady[c]
                        /\ \A s \in steady'[c] : Unaltered(filter[c], s)

LEMMA SightKeepsClients ==
  ASSUME ClientInv, KeepsSight
  PROVE  ClientInv'
<1>1. UNCHANGED <<place, filter, cursor, total, pins, shown, switched>>
  BY DEF KeepsSight, client
<1>2. ClientTypes'
  BY <1>1 DEF KeepsSight, ClientInv, ClientTypes
<1>3. ASSUME NEW c \in Clients PROVE WalkOf(c)'
  <2>1. PICK p, f, k, n, S, t, x, m :
          /\ p = place[c] /\ f = filter[c] /\ k = cursor[c] /\ n = shown[c]
          /\ S = steady[c] /\ t = switched[c] /\ x = total[c] /\ m = pins[c]
    OBVIOUS
  <2>2. PICK T : T = steady'[c]
    OBVIOUS
  <2>3. S \in SUBSET Spots /\ Walk(p, f, k, n, S, t, x, m)
    BY <2>1 DEF ClientInv, ClientTypes, WalkOf
  <2>4. T \in SUBSET S /\ \A s \in T : Unaltered(f, s)
    BY <2>1, <2>2 DEF KeepsSight
  <2>5. Walk(p, f, k, n, T, t, x, m)'
    BY <2>3, <2>4, WalkKept
  <2> QED
    BY <1>1, <2>1, <2>2, <2>5 DEF WalkOf
<1> QED
  BY <1>2, <1>3 DEF ClientInv

LEMMA NothingToSee ==
  ASSUME ClientInv, UNCHANGED <<row, client, steady>>
  PROVE  KeepsSight
BY DEF ClientInv, ClientTypes, KeepsSight, Unaltered

LEMMA WatchKeepsSight ==
  ASSUME ClientInv, RowTypes, NEW s \in Spots, NEW new \in Row, Watch(s, new),
         row' = [row EXCEPT ![s] = new], UNCHANGED client
  PROVE  KeepsSight
<1> DEFINE Alike == [new EXCEPT !.score = 0, !.rating = 0]
                      = [row[s] EXCEPT !.score = 0, !.rating = 0]
<1>1. ASSUME NEW c \in Clients
      PROVE  steady'[c] = IF Alike /\ (filter[c].q => new = row[s])
                          THEN steady[c] ELSE steady[c] \ {s}
  BY DEF Watch
<1>2. Alike => /\ new.public = row[s].public /\ new.at = row[s].at
               /\ new.category = row[s].category
  <2>1. new \in Row /\ row[s] \in Row
    BY DEF RowTypes
  <2> QED
    BY <2>1 DEF Row
<1> HIDE DEF Alike
<1>3. /\ steady' \in [Clients -> SUBSET Spots]
      /\ \A c \in Clients : steady'[c] \subseteq steady[c]
  <2>1. steady' = [c \in Clients |-> steady'[c]]
    BY DEF Watch
  <2>2. \A c \in Clients : steady'[c] \subseteq steady[c] /\ steady[c] \subseteq Spots
    BY <1>1 DEF ClientInv, ClientTypes
  <2> QED
    BY <2>1, <2>2
<1>4. ASSUME NEW c \in Clients, NEW t \in steady'[c] PROVE Unaltered(filter[c], t)
  <2>0. t \in Spots
    BY <1>3
  <2>1. CASE t # s
    BY <2>0, <2>1 DEF Unaltered, RowTypes
  <2>2. CASE t = s
    <3>1. Alike /\ (filter[c].q => new = row[s])
      BY <1>1, <2>2
    <3>2. row'[s] = new
      BY DEF RowTypes
    <3> QED
      BY <1>2, <2>2, <3>1, <3>2 DEF Unaltered
  <2> QED
    BY <2>1, <2>2
<1> QED
  BY <1>3, <1>4 DEF KeepsSight

LEMMA CommitPatchKeepsSight ==
  ASSUME ClientInv, StaffInv, NEW q \in Requests, CommitPatch(q)
  PROVE  KeepsSight
<1> DEFINE s == job[q].spot
           new == [row[s] EXCEPT !.category = job[q].category]
<1>1. /\ job[q].step = "written"
      /\ row' = [row EXCEPT ![s] = new] /\ Watch(s, new) /\ UNCHANGED client
  BY DEF CommitPatch
<1>2. s \in Spots /\ job[q].category \in SUBSET Codes /\ RowTypes /\ row[s] \in Row
  BY <1>1 DEF StaffInv, StaffTypes, JobInv, Fits, Jobs, RowTypes
<1>3. new \in Row
  BY <1>2, RowRecord
<1> HIDE DEF s, new
<1> QED
  BY <1>1, <1>2, <1>3, WatchKeepsSight

LEMMA CommitDeletionKeepsSight ==
  ASSUME ClientInv, StaffInv, NEW q \in Requests, CommitDeletion(q)
  PROVE  KeepsSight
<1>1. /\ \A s \in Spots \ job[q].rows : row'[s] = row[s]
      /\ steady' = [c \in Clients |-> steady[c] \ job[q].rows]
      /\ UNCHANGED client
  BY DEF CommitDeletion
<1>2. \A c \in Clients : steady'[c] = steady[c] \ job[q].rows /\ steady[c] \subseteq Spots
  BY <1>1 DEF ClientInv, ClientTypes
<1>3. steady' \in [Clients -> SUBSET Spots]
  BY <1>1, <1>2
<1> QED
  BY <1>1, <1>2, <1>3 DEF KeepsSight, Unaltered

LEMMA StaffStepKeepsSight ==
  ASSUME ClientInv, StaffInv, NEW q \in Requests, StaffStep(q)
  PROVE  KeepsSight
<1>1. CASE CommitPatch(q)
  BY <1>1, CommitPatchKeepsSight
<1>2. CASE CommitDeletion(q)
  BY <1>2, CommitDeletionKeepsSight
<1>3. CASE ~CommitPatch(q) /\ ~CommitDeletion(q)
  <2>1. UNCHANGED <<row, client, steady>>
    BY <1>3 DEF StaffStep, LoadPatch, FindOption, FlushPatch, LookForSpots, ClearCode, Abort
  <2> QED
    BY <2>1, NothingToSee
<1> QED
  BY <1>1, <1>2, <1>3

ExploreInv == StaffInv /\ ClientInv

LEMMA ExploreInvInitially == Init => ExploreInv
<1> SUFFICES ASSUME Init PROVE ClientInv
  BY StaffInvInitially DEF ExploreInv
<1>1. /\ AnyFilter \in Filters /\ NotShown \in [Spots -> Nat]
      /\ NoPins \in [spots : SUBSET Spots, truncated : BOOLEAN]
      /\ 0 \in 0..TotalCap /\ NoCursor \in Cursors(AnyFilter)
  BY LimitsAssumption DEF AnyFilter, Filters, NotShown, NoPins, Cursors
<1>2. NoCursor \in [scope : {"none", "all", "box"}, at : Seq(Nat)]
  BY <1>1, CursorTypes
<1>3. ClientTypes
  BY <1>1, <1>2 DEF Init, ClientTypes, Places
<1>4. Walk("away", AnyFilter, NoCursor, NotShown, Spots, FALSE, 0, NoPins)
  BY DEF Walk, Shape, Answers, Once, All, Cursors, NotShown
<1>5. \A c \in Clients : WalkOf(c)
  BY <1>4 DEF Init, WalkOf
<1> QED
  BY <1>3, <1>5 DEF ClientInv

LEMMA ExploreInvKept ==
  ASSUME ExploreInv, [Next]_vars
  PROVE  ExploreInv'
<1>1. StaffInv'
  BY StaffInvKept DEF ExploreInv
<1>2. StaffInv /\ ClientInv /\ RowTypes
  BY DEF ExploreInv, StaffInv, StaffTypes
<1>3. CASE \E c \in Clients : ClientStep(c)
  BY <1>1, <1>2, <1>3, ClientStepKeepsClients DEF ExploreInv
<1>4. CASE KeepsSight
  BY <1>1, <1>2, <1>4, SightKeepsClients DEF ExploreInv
<1>5. ASSUME NEW s \in Spots, NEW new \in OneEdit(row[s]), EditSpot(s, new)
      PROVE  KeepsSight
  <2>1. new \in Row
    BY <1>2, OneEditTypes DEF RowTypes
  <2>2. Watch(s, new) /\ row' = [row EXCEPT ![s] = new] /\ UNCHANGED client
    BY <1>5 DEF EditSpot
  <2> QED
    BY <1>2, <2>1, <2>2, WatchKeepsSight
<1>6. ASSUME NEW k \in Codes, CreateOption(k) PROVE KeepsSight
  BY <1>2, <1>6, NothingToSee DEF CreateOption
<1>7. ASSUME NEW q \in Requests, StaffStep(q) PROVE KeepsSight
  BY <1>2, <1>7, StaffStepKeepsSight
<1>8. CASE UNCHANGED vars
  <2>1. KeepsSight
    BY <1>2, <1>8, NothingToSee DEF vars
  <2> QED
    BY <1>4, <2>1
<1> QED
  BY <1>3, <1>4, <1>5, <1>6, <1>7, <1>8 DEF Next

LEMMA ExploreInvHolds == Spec => []ExploreInv
<1>1. ExploreInv /\ [Next]_vars => ExploreInv'
  BY ExploreInvKept
<1> QED
  BY ExploreInvInitially, <1>1, PTL DEF Spec

LEMMA TypesFromInv == ExploreInv => TypeOK
<1> SUFFICES ASSUME ExploreInv PROVE TypeOK
  OBVIOUS
<1>1. StaffTypes /\ ClientTypes
  BY DEF ExploreInv, StaffInv, ClientInv
<1>2. ASSUME NEW c \in Clients
      PROVE  /\ cursor[c].scope \in {"none", "all", "box"}
             /\ cursor[c].at \in Seq(Nat)
             /\ cursor[c] # NoCursor => cursor[c].scope = filter[c].area
  <2>1. cursor[c] \in Cursors(filter[c])
    BY DEF ExploreInv, ClientInv, WalkOf, Walk, Shape
  <2>2. cursor[c] # NoCursor => cursor[c].scope = filter[c].area
    BY <2>1 DEF Cursors
  <2> QED
    BY <1>1, <2>2 DEF ClientTypes
<1> QED
  BY <1>1, <1>2 DEF TypeOK, StaffTypes, RowTypes, Jobs, ClientTypes, Places

\* The functions and records of the model keep their types (vivacapi/crud/spot.py),
\* and a cursor that of the filter it was issued for.
THEOREM ExploreTypeCorrect == Spec => []TypeOK
BY ExploreInvHolds, TypesFromInv, PTL

LEMMA GoneFromInv == ExploreInv => DeletedCodesAreGone
BY DEF ExploreInv, StaffInv

\* delete_field_option: no spot keeps the code of an option that is gone, unless
\* it was given it after the deletion had looked for spots.
THEOREM DeletionIsComplete == Spec => []DeletedCodesAreGone
BY ExploreInvHolds, GoneFromInv, PTL

\* At the end of a walk what is steady was shown as it matches.
LEMMA ShownAtEnd ==
  ASSUME ExploreInv, NEW c \in Clients, place[c] \in {"end", "map"}, ~switched[c],
         NEW s \in steady[c]
  PROVE  shown[c][s] = IF Matches(filter[c], s) THEN 1 ELSE 0
<1>1. s \in Spots /\ shown[c][s] \in Nat
  BY DEF ExploreInv, ClientInv, ClientTypes
<1>2. /\ Shape(place[c], filter[c], cursor[c], shown[c], switched[c])
      /\ Once(place[c], filter[c], cursor[c], shown[c], steady[c], s)
      /\ All(place[c], filter[c], cursor[c], shown[c], steady[c], switched[c], s)
  BY <1>1 DEF ExploreInv, ClientInv, WalkOf, Walk
<1>3. ~Unfinished(place[c], cursor[c])
  BY <1>2 DEF Shape, Unfinished
<1>4. shown[c][s] <= 1 /\ (shown[c][s] > 0 <=> Matches(filter[c], s))
  BY <1>2, <1>3 DEF Once, All
<1> QED
  BY <1>1, <1>4

LEMMA ExactFromInv == ExploreInv => PagingIsExact
<1> SUFFICES ASSUME ExploreInv, NEW c \in Clients, NEW s \in Spots, shown[c][s] > 1
             PROVE  filter[c].q /\ s \notin steady[c]
  BY ShownAtEnd DEF PagingIsExact
<1>1. Once(place[c], filter[c], cursor[c], shown[c], steady[c], s)
  BY DEF ExploreInv, ClientInv, WalkOf, Walk
<1>2. shown[c][s] \in Nat
  BY DEF ExploreInv, ClientInv, ClientTypes
<1> QED
  BY <1>1, <1>2 DEF Once

\* list_spots, search_spots: a walk to the last page shows what stayed as it was
\* exactly once if it matches, whatever happened to the rest.
THEOREM WalksAreExact == Spec => []PagingIsExact
BY ExploreInvHolds, ExactFromInv, PTL

LEMMA AgreeFromInv == ExploreInv => ModesAgree
<1> SUFFICES ASSUME ExploreInv, NEW c \in Clients, place[c] \in {"end", "map"},
                    ~switched[c], steady[c] = Spots
             PROVE  LET listed == {s \in Spots : shown[c][s] > 0}
                        placed == {s \in listed : row[s].at # "nowhere"}
                    IN  /\ \A s \in listed : Opens(s)
                        /\ IF Cardinality(listed) <= TotalCap
                           THEN total[c] = Cardinality(listed)
                           ELSE total[c] = TotalCap
                        /\ place[c] = "map" =>
                             IF pins[c].truncated
                             THEN pins[c].spots \subseteq placed /\ pins[c].spots # placed
                             ELSE pins[c].spots = placed
  BY DEF ModesAgree
<1> DEFINE f == filter[c]
           listed == {s \in Spots : shown[c][s] > 0}
           placed == {s \in listed : row[s].at # "nowhere"}
<1>1. listed = {s \in Spots : Matches(f, s)}
  BY ShownAtEnd
<1>2. placed = OnMap(f)
  BY <1>1 DEF OnMap, Matches, Explorable
<1>3. \A s \in listed : Opens(s)
  BY <1>1 DEF Opens, Matches, Explorable, AnyFilter
<1>4. /\ total[c] = Total(f)
      /\ place[c] = "map" => pins[c] = Pins(f)
  BY DEF ExploreInv, ClientInv, WalkOf, Walk, Answers
<1>5. IF Cardinality(listed) <= TotalCap THEN total[c] = Cardinality(listed)
                                         ELSE total[c] = TotalCap
  <2>1. Cardinality(listed) \in Nat
    BY SpotsAssumption, FS_Subset, FS_CardinalityType
  <2> QED
    BY <1>1, <1>4, <2>1, LimitsAssumption DEF Total
<1>6. ASSUME place[c] = "map"
      PROVE  IF pins[c].truncated
             THEN pins[c].spots \subseteq placed /\ pins[c].spots # placed
             ELSE pins[c].spots = placed
  <2>1. PICK M \in SUBSET Spots : M = OnMap(f)
    BY DEF OnMap
  <2>2. PICK P : P = FirstOf(AnyFilter, M, MapLimit)
    OBVIOUS
  <2>3. pins[c].spots = P /\ pins[c].truncated = (Cardinality(M) > MapLimit)
    BY <1>4, <1>6, <2>1, <2>2 DEF Pins
  <2>4. RowTypes /\ AnyFilter \in Filters
    BY DEF ExploreInv, StaffInv, StaffTypes, AnyFilter, Filters
  <2>5. Cardinality(M) \in Nat /\ MapLimit \in Nat \ {0}
    BY SpotsAssumption, LimitsAssumption, FS_Subset, FS_CardinalityType
  <2>6. Cardinality(M) > MapLimit => P \subseteq M /\ P # M
    BY <2>2, <2>4, <2>5, FirstOfMany
  <2>7. ~(Cardinality(M) > MapLimit) => P = M
    BY <2>2, <2>4, <2>5, FirstOfFew
  <2> QED
    BY <1>2, <2>1, <2>3, <2>6, <2>7
<1> QED
  BY <1>3, <1>5, <1>6

\* _apply_explore_filters: the list or search, its total, the map and the detail of
\* a spot agree for whoever walked to the end while nothing changed.
THEOREM ModesDoNotPart == Spec => []ModesAgree
BY ExploreInvHolds, AgreeFromInv, PTL
============================================================================
