----------------------------- MODULE SpotCache -----------------------------
(***************************************************************************)
(* The read-through cache of the public spot endpoints                     *)
(* (vivacapi/core/cache.py, used by explore.py and by every writer of      *)
(* spots).  Redis holds responses, each under a key that contains a        *)
(* version read first: one version for lists, maps and searches with       *)
(* whatever filter, one for the detail of a spot.                          *)
(* Writers do not delete entries: they commit to PostgreSQL and then raise *)
(* the version, so that older keys are no longer asked for and die by TTL. *)
(*                                                                         *)
(* One filter combination and one spot stand for all: entries of different *)
(* keys never meet.  A response is represented by how many writes to its   *)
(* scope it reflects.  Each action lies between two awaits of a handler.   *)
(***************************************************************************)
EXTENDS Integers, FiniteSets

CONSTANTS
  Scopes,       \* the kinds of responses that are explored
  Readers,      \* requests to GET /spots, /spots/map or /spots/{uid}
  Writers,      \* requests and jobs that change spots
  NoEntry,      \* Redis has nothing under the key
  MaxWrites,    \* how many writes are started
  MaxVersion    \* versions are explored up to this number

ASSUME ScopeAssumption == Scopes # {} /\ Scopes \subseteq {"list", "search", "detail"}
ASSUME EntryAssumption == NoEntry \notin Int
ASSUME BoundAssumption == MaxWrites \in Nat /\ MaxVersion \in Nat

Versions == 0..MaxVersion

\* An idle reader's, which means nothing.
AnyScope == CHOOSE s \in Scopes : TRUE

\* The version that keys of s contain.  Map and list are one scope, "list".
Family(s) == IF s = "detail" THEN "detail" ELSE "spots"
Families == {Family(s) : s \in Scopes}

\* The scopes whose responses a write changes, by kind of writer.  A review changes
\* the rating: details show it, searches are ordered by it and have it in cursors.
Changed(kind) == IF kind = "review" THEN Scopes \ {"list"} ELSE Scopes

\* The versions it raises.  A review raises that of the detail alone, the deletion
\* of a field option none.
Raised(kind) == {f \in Families : kind = "spot" \/ (kind = "review" /\ f = "detail")}

VARIABLES
  data,       \* data[s]: committed writes that changed scope s
  version,    \* version[f]: the version key of f, absent meaning 0
  entry,      \* entry[s][v]: the cached response under version v, or NoEntry
  rpc, scope, key, value, floor,   \* each reader: see CacheTypeOK
  wpc, todo, made,                 \* each writer: see CacheTypeOK
  acked,      \* acked[s]: the newest write to s whose writer has returned
  writes,     \* writes started so far
  trouble     \* trouble[s]: the worst that has happened to s, see CacheTypeOK

redis == <<version, entry>>
reader == <<rpc, scope, key, value, floor>>
writer == <<wpc, todo, made, acked, writes>>
cacheVars == <<data, version, entry, rpc, scope, key, value, floor,
               wpc, todo, made, acked, writes, trouble>>

CacheTypeOK ==
  /\ data \in [Scopes -> Nat]
  /\ version \in [Families -> Versions]
  /\ entry \in [Scopes -> [Versions -> Nat \cup {NoEntry}]]
  /\ rpc \in [Readers -> {"idle", "keyed", "queried", "done"}]
  /\ scope \in [Readers -> Scopes]
  /\ key \in [Readers -> Versions]     \* the version in the reader's key
  /\ value \in [Readers -> Nat]        \* the response it has, from "queried" on
  /\ floor \in [Readers -> Nat]        \* acked[scope] when it began
  /\ wpc \in [Writers -> {"idle", "early", "bumping"}]
  /\ todo \in [Writers -> SUBSET Families]       \* versions still to raise
  /\ made \in [Writers -> [Scopes -> Nat]]       \* data of what it wrote, after its commit
  /\ acked \in [Scopes -> Nat]
  /\ writes \in 0..MaxWrites
  \* "early": a bulk upsert has raised the version before its commit.
  \* "lost": a version was lost, could not be read or raised, or was not to be raised.
  /\ trouble \in [Scopes -> {"none", "early", "lost"}]

CacheInit ==
  /\ data = [s \in Scopes |-> 0]
  /\ version = [f \in Families |-> 0]
  /\ entry = [s \in Scopes |-> [v \in Versions |-> NoEntry]]
  /\ rpc = [r \in Readers |-> "idle"]
  /\ scope = [r \in Readers |-> AnyScope]
  /\ key = [r \in Readers |-> 0]
  /\ value = [r \in Readers |-> 0]
  /\ floor = [r \in Readers |-> 0]
  /\ wpc = [w \in Writers |-> "idle"]
  /\ todo = [w \in Writers |-> {}]
  /\ made = [w \in Writers |-> [s \in Scopes |-> 0]]
  /\ acked = [s \in Scopes |-> 0]
  /\ writes = 0
  /\ trouble = [s \in Scopes |-> "none"]

\* e happens to the scopes S.
Happens(e, S) ==
  trouble' = [s \in Scopes |-> IF s \in S /\ trouble[s] # "lost" THEN e ELSE trouble[s]]

Of(f) == {s \in Scopes : Family(s) = f}

---------------------------------------------------------------------------
(* Readers: list_spots, list_spots_for_map, get_spot.                      *)

BeginRead(r, s, v) ==
  /\ rpc[r] = "idle"
  /\ rpc' = [rpc EXCEPT ![r] = "keyed"]
  /\ scope' = [scope EXCEPT ![r] = s]
  /\ key' = [key EXCEPT ![r] = v]
  /\ floor' = [floor EXCEPT ![r] = acked[s]]
  /\ UNCHANGED <<data, redis, value, writer>>

\* make_spots_list_key or spot_detail_key: the version goes into the key.
ReadVersion(r) ==
  \E s \in Scopes : BeginRead(r, s, version[Family(s)]) /\ UNCHANGED trouble

\* The version cannot be read: the key says version 0 (fail-open).
ReadVersionFails(r) == \E s \in Scopes : BeginRead(r, s, 0) /\ Happens("lost", {s})

Hit(r) ==
  /\ rpc[r] = "keyed"
  /\ entry[scope[r]][key[r]] # NoEntry
  /\ value' = [value EXCEPT ![r] = entry[scope[r]][key[r]]]
  /\ rpc' = [rpc EXCEPT ![r] = "done"]
  /\ UNCHANGED <<data, redis, scope, key, floor, writer, trouble>>

\* get_cached returns None, because there is no entry or because Redis fails:
\* in either case the handler reads the database.
Query(r) ==
  /\ rpc[r] = "keyed"
  /\ value' = [value EXCEPT ![r] = data[scope[r]]]
  /\ rpc' = [rpc EXCEPT ![r] = "queried"]
  /\ UNCHANGED <<data, redis, scope, key, floor, writer, trouble>>

\* Faulty form: the response is stored under the version of now.
StoreUnderCurrentVersion(r) ==
  /\ rpc[r] = "queried"
  /\ entry' = [entry EXCEPT ![scope[r]][version[Family(scope[r])]] = value[r]]
  /\ rpc' = [rpc EXCEPT ![r] = "done"]
  /\ UNCHANGED <<data, version, scope, key, value, floor, writer, trouble>>

\* set_cached, under the key of the beginning.
Store(r) ==
  /\ rpc[r] = "queried"
  /\ entry' = [entry EXCEPT ![scope[r]][key[r]] = value[r]]
  /\ rpc' = [rpc EXCEPT ![r] = "done"]
  /\ UNCHANGED <<data, version, scope, key, value, floor, writer, trouble>>

\* set_cached fails: logged, and the response is sent all the same.
StoreFails(r) ==
  /\ rpc[r] = "queried"
  /\ rpc' = [rpc EXCEPT ![r] = "done"]
  /\ UNCHANGED <<data, redis, scope, key, value, floor, writer, trouble>>

\* The response is out and the next request comes.
Respond(r) ==
  /\ rpc[r] = "done"
  /\ rpc' = [rpc EXCEPT ![r] = "idle"]
  /\ scope' = [scope EXCEPT ![r] = AnyScope]
  /\ key' = [key EXCEPT ![r] = 0]
  /\ value' = [value EXCEPT ![r] = 0]
  /\ floor' = [floor EXCEPT ![r] = 0]
  /\ UNCHANGED <<data, redis, writer, trouble>>

---------------------------------------------------------------------------
(* Writers.                                                                *)

Committed(w, kind) ==
  /\ data' = [s \in Scopes |-> IF s \in Changed(kind) THEN data[s] + 1 ELSE data[s]]
  /\ made' = [made EXCEPT ![w] =
                [s \in Scopes |-> IF s \in Changed(kind) THEN data[s] + 1 ELSE 0]]

\* The handler of a spot, review or field option commits; versions are raised after
\* that.
Commit(w, kind) ==
  /\ wpc[w] = "idle"
  /\ writes < MaxWrites
  /\ writes' = writes + 1
  /\ Committed(w, kind)
  /\ wpc' = [wpc EXCEPT ![w] = "bumping"]
  /\ todo' = [todo EXCEPT ![w] = Raised(kind)]
  /\ Happens("lost", {s \in Changed(kind) : Family(s) \notin Raised(kind)})
  /\ UNCHANGED <<redis, reader, acked>>

\* The bulk upsert job has released its savepoint and goes on to the cache;
\* its transaction is still open (JobQueue, "bumping").
BulkBegin(w) ==
  /\ wpc[w] = "idle"
  /\ writes < MaxWrites
  /\ writes' = writes + 1
  /\ wpc' = [wpc EXCEPT ![w] = "early"]
  /\ todo' = [todo EXCEPT ![w] = Families]
  /\ Happens("early", Scopes)
  /\ UNCHANGED <<data, redis, reader, made, acked>>

\* process_job commits the job and its rows.
BulkCommit(w) ==
  /\ wpc[w] = "early" /\ todo[w] = {}
  /\ Committed(w, "bulk")
  /\ wpc' = [wpc EXCEPT ![w] = "bumping"]
  /\ UNCHANGED <<redis, reader, todo, acked, writes, trouble>>

\* bump_spots_version comes before invalidate_spot_detail.
IsNext(w, f) == f \in todo[w] /\ ("spots" \in todo[w] => f = "spots")

\* INCR on the version key of f.
Bump(w, f) ==
  /\ IsNext(w, f)
  /\ version[f] < MaxVersion
  /\ version' = [version EXCEPT ![f] = @ + 1]
  /\ todo' = [todo EXCEPT ![w] = @ \ {f}]
  /\ UNCHANGED <<data, entry, reader, wpc, made, acked, writes, trouble>>

\* INCR fails: logged, and the handler goes on (fail-open).
BumpFails(w, f) ==
  /\ IsNext(w, f)
  /\ Happens("lost", Of(f))
  /\ todo' = [todo EXCEPT ![w] = @ \ {f}]
  /\ UNCHANGED <<data, redis, reader, wpc, made, acked, writes>>

\* The writer's caller gets its answer.
Return(w) ==
  /\ wpc[w] = "bumping" /\ todo[w] = {}
  /\ wpc' = [wpc EXCEPT ![w] = "idle"]
  /\ acked' = [s \in Scopes |->
                 IF made[w][s] > acked[s] THEN made[w][s] ELSE acked[s]]
  /\ made' = [made EXCEPT ![w] = [s \in Scopes |-> 0]]
  /\ UNCHANGED <<data, redis, reader, todo, writes, trouble>>

\* The process dies, or the handler raises between its commit and the bump;
\* a job that has not committed is rolled back.  Nobody gets an answer.
Die(w) ==
  /\ wpc[w] # "idle"
  /\ wpc' = [wpc EXCEPT ![w] = "idle"]
  /\ todo' = [todo EXCEPT ![w] = {}]
  /\ made' = [made EXCEPT ![w] = [s \in Scopes |-> 0]]
  /\ UNCHANGED <<data, redis, reader, acked, writes, trouble>>

---------------------------------------------------------------------------
(* Redis: no persistence, allkeys-lru, responses with a TTL.               *)

\* Faulty form: responses are stored without a TTL and never evicted.
NeverExpires(s, v) == FALSE /\ UNCHANGED cacheVars

\* A response reaches its TTL or is evicted.
Expire(s, v) ==
  /\ entry[s][v] # NoEntry
  /\ entry' = [entry EXCEPT ![s][v] = NoEntry]
  /\ UNCHANGED <<data, version, reader, writer, trouble>>

\* Faulty form: an absent version key is not read as 0.
EvictVersionToNothing(f) ==
  /\ version[f] # 0
  /\ version' = [version EXCEPT ![f] = NoEntry]
  /\ Happens("lost", Of(f))
  /\ UNCHANGED <<data, entry, reader, writer>>

\* The version key, which has no TTL, is evicted: the version is 0 again.
EvictVersion(f) ==
  /\ version[f] # 0
  /\ version' = [version EXCEPT ![f] = 0]
  /\ Happens("lost", Of(f))
  /\ UNCHANGED <<data, entry, reader, writer>>

\* Redis restarts with nothing.
RestartRedis ==
  /\ version' = [f \in Families |-> 0]
  /\ entry' = [s \in Scopes |-> [v \in Versions |-> NoEntry]]
  /\ Happens("lost", Scopes)
  /\ UNCHANGED <<data, reader, writer>>

---------------------------------------------------------------------------

ReaderStep(r) ==
  \/ ReadVersion(r)
  \/ ReadVersionFails(r)
  \/ Hit(r)
  \/ Query(r)
  \/ Store(r)
  \/ StoreFails(r)
  \/ Respond(r)

WriterStep(w) ==
  \/ \E kind \in {"spot", "review", "option"} : Commit(w, kind)
  \/ BulkBegin(w)
  \/ BulkCommit(w)
  \/ \E f \in Families : Bump(w, f) \/ BumpFails(w, f)
  \/ Return(w)
  \/ Die(w)

RedisStep ==
  \/ \E s \in Scopes, v \in Versions : Expire(s, v)
  \/ \E f \in Families : EvictVersion(f)
  \/ RestartRedis

CacheNext ==
  \/ \E r \in Readers : ReaderStep(r)
  \/ \E w \in Writers : WriterStep(w)
  \/ RedisStep

CacheSpec == CacheInit /\ [][CacheNext]_cacheVars

\* Only time is fair: a response does not outlive its TTL.
FairSpec ==
  CacheSpec /\ \A s \in Scopes, v \in Versions : WF_cacheVars(Expire(s, v))

---------------------------------------------------------------------------
(* Properties.                                                             *)

\* A finished request reflects every write to its scope that had returned
\* before the request began.
SeesCompletedWrites(r) == rpc[r] = "done" => value[r] >= floor[r]

\* As long as the writers of a kind of response commit first and bump then, and its
\* version key is neither lost nor unreachable, no interleaving serves a response of
\* that kind that is older than a write completed before the request: however slow
\* a reader is, it stores under a key nobody asks for any more
\* (bump_spots_version, invalidate_spot_detail).
CompletedWritesAreVisible ==
  \A r \in Readers : trouble[scope[r]] = "none" => SeesCompletedWrites(r)

\* The responses under the current versions are those of the database.
Fresh ==
  \A s \in Scopes : entry[s][version[Family(s)]] \in {NoEntry, data[s]}

\* Whatever went wrong with versions, bumps and writers, the TTL heals it:
\* once the writes stop, the cache ends up fresh for good (set_cached's ex).
TtlHeals == <>[]Fresh

\* test_explore_spots_cache.py: after a data change no stale response may come
\* out, the bulk upsert's data change included.
BulkWritesAreVisible ==
  \A r \in Readers : trouble[scope[r]] # "lost" => SeesCompletedWrites(r)
============================================================================
