# A verification development of vivacapi-core

vivacapi-core is the API server of a service about outdoor spots: a FastAPI
application with PostgreSQL, Redis and S3 behind it, started by the `Dockerfile`
as two uvicorn workers that share nothing but those three stores. This
directory models its stateful core in TLA+, checks small instances with TLC and
proves theorems about it with TLAPS.

Paths below are relative to `src/`; `api/`, `core/`, `crud/`, `models/` and
`workers/` are directories of `src/vivacapi/`, and endpoints are in
`api/v1/endpoints/`. `PROJECT.json` maps every definition that models code to
its lines, and lists the runs, the mutants, the hazards and the theorems.

## 1. The system

| Component | State it keeps | Operations | Module |
|---|---|---|---|
| Background jobs: `workers/`, `crud/job.py`, `internal_jobs.py` | table `jobs`; one worker loop per process | enqueue, boot cleanup, claim, three handlers, last commit | `JobQueue` |
| Public spot cache: `core/cache.py`, `explore.py` | version keys and responses in Redis | read-through, bump, expiry | `SpotCache` |
| Spot groups: `crud/spot_group.py`, `spot_groups.py`, `internal_spot_groups.py` | groups, members with roles, spots of a group | create, update, delete, members, roles, pin | `SpotGroups` |
| Invite links: `crud/invite.py`, `invites.py`, first login in `auth.py` | table `invites`; accounts with `referred_by_uid` | issue, look at, accept, sign up by a link | `SpotGroups` |
| Reviews: `crud/spot_review.py`, `spot_reviews.py` | reviews; `rating_avg`, `review_count` of the spot | create, update, delete, recount | `Reviews` |
| Spot pipeline: `crud/spot.py`, `internal_spots.py`, `internal_batch.py` | status, assignee, trust tier, deletion of spots | assign, transfer, PATCH, bulk changes, decay | `SpotPipeline` |
| Direct messages: `crud/conversation.py`, `message.py`, `user_block.py`, `conversations.py` | conversations, participants, messages, blocks | open, block, send, read, delete, page | `Conversations` |
| Spot images: `internal_spot_images.py`, `crud/spot_image.py`, `core/storage.py` | objects in S3, table `spot_images` | presign, register, delete | `SpotImages` |
| Explore: `explore.py`, list, search, total, map and detail of `crud/spot.py` | none (cursors are the clients') | list, search, next page, map, open | `Explore` |
| Spot field options: `crud/spot_field_option.py`, `internal_spot_options.py` | option codes, and the codes in spots | create, delete, use | `Explore` |
| Push: `core/ws_manager.py`, `ws_conversations.py` | per process a registry of WebSockets | connect, push, disconnect | `Push` |
| Rate limits: `core/limits.py`, `incr_with_ttl` of `core/cache.py` | counters in Redis with a TTL | count | `RateLimit`, composed with `Push` |
| Business info, accounts, audit log, schemas | see section 9 | | not modelled |

**How they interact.** Components share rows, not calls. A bulk job
(`JobQueue`) writes spots, and thereby overwrites the ratings (`Reviews`, action
`BulkUpsert`), moves spots in the pipeline (`SpotPipeline`, `UpsertRow`) and
invalidates responses (`SpotCache`, the writer kind "bulk"). Every endpoint that
writes a spot is a writer of the cache. Accepting a link adds a member to a
group, which is why both are one module. Roles of app users and of staff appear
as guards of the actions they admit. The modules are therefore separate state
machines that repeat, at their border, what another component may do to the
rows they own; the cross-component race that matters (the bulk job bumps the
cache before its commit) is in `SpotCache` as two steps in that order. Two
components call each other: sending a message stands behind the rate limit, and
`Push` EXTENDS `RateLimit` for that. Deleting an option writes the spots that
clients page through, which is why both are in `Explore`.

**What is hard in this code.** Nothing is single-threaded: there are two processes,
each an event loop that gives way at every `await`, and PostgreSQL runs under
READ COMMITTED with very few row locks (`FOR UPDATE SKIP LOCKED` in the job claim
and in the assignment of spots). So most handlers read, decide in Python and
write later. The other difficulties are: sagas over systems without a common
transaction (S3 and PostgreSQL; Redis and PostgreSQL; two commits of one
request), processes that are killed or cancelled between any two steps, derived
columns (`rating_avg`), and timestamps taken at the start of a transaction.

**What makes each component correct.**
Jobs: one worker per job, effects at most once, a truthful job row, no job
that waits for ever and none RUNNING for a dead process beyond a boot. Cache: a
response is never older than a write that had finished. Groups: nothing happens that a role did not allow, there is always
an owner, a link admits one person. Reviews: one active review per user, rating
equal to the reviews, deletions last. Pipeline: a spot is handed to one person,
staff stay within the transitions they may make, tiers decay once per period.
Messages: blocks stop them, what was sent after a read is unread, paging misses nothing.
Images: rows and objects correspond, originals survive failures, and limits hold. Explore: a walk over the
pages misses and repeats nothing, the modes agree, no spot keeps a deleted code.
Push: a client that is connected and has listed misses nothing, and no dead
socket stays registered. Rate limits: at most twice the limit in any window, and
nobody is refused for longer than that.

`PROJECT.json` "hazards" lists 40 places where this can go wrong, with the
properties about each. They are of two kinds. Where the code defends itself, the
property would notice if it did not. Where the code leaves a case open, the property
does not notice that case: it names it by a history variable (`raced`, `shared`, `late`,
`past`, `taken`, `trouble`) or by a bound, and shows that the promise is broken in
exactly this case and in no other. The note of such a hazard says so; section 7 lists
the cases.

## 2. The plan

Order of the modules, the most important behaviour first. Done so far: 1 to 11.

1. `JobExecution` (abstract: what one job promises), `JobQueue` (detailed),
   `MCJobQueue`, `JobQueueProofs` (safety and refinement).
2. `SpotCache`, `MCSpotCache`, and their theorems, now in `PublicReadProofs`.
3. `SpotGroups` with the invite links and the sign-up by a link, `MCSpotGroups`,
   `SpotGroupsProofs`.
4. `Reviews`, `MCReviews`, `ReviewsProofs`.
5. `SpotPipeline`, `MCSpotPipeline`, `SpotPipelineProofs`.
6. `Conversations`, `MCConversations`, `ConversationsProofs`.
7. `SpotImages`, `MCSpotImages`, `SpotImagesProofs`.
8. Findings and observations (section 7).
9. `Explore` with the field options, `MCExplore`.
10. `RateLimit`, `Push`, `MCPush`, `PushProofs`.
11. `PublicReadProofs`: theorems about both models of `explore.py`, `SpotCache` and
   `Explore`; paging in `ConversationsProofs`.
12. The rate, in `PushProofs`.

## 3. The modules

Each models requests as processes with a `pc`. One action is what happens
between two points at which something else can run (an `await`, a statement, a
commit, a call to S3 or Redis). A rolled back transaction is an action that
leaves the tables alone. History variables exist only to state properties and
are marked "history" where they are declared. Several modules also define
operators such as `LockNextIfNoneRunning` or `NeverExpires` beside the real ones:
these are plausible mistakes used as mutants, and no specification uses them.

### JobQueue, and what it implements

State: the columns `status`, `error` and `result` of `jobs`, a count of how often
the effect of a job became durable, and per process the place of its worker loop,
the job it holds and what the handler did uncommitted.
`Boot` is `startup_orphan_cleanup` followed by the start of the loop; `LockNext`
and `CommitClaim` are the two halves of `claim_next_job`; `StartHandler` reloads
the job in a second session; `HandlerRejects`, `HandlerApplies`,
`HandlerUploads` and `HandlerRaises` are the ends a handler of
`workers/spots_bulk.py`, `spot_business_info_bulk.py` and `db_dump.py` can have;
`BumpCache` is the await at the end of the bulk handler; `EndJob` is the `finally` of
`process_job`. `CycleError` is a database error the loop catches and survives.
`Stop` and `CancelWhileBumping` stop the process; the second one keeps the rows,
because the `finally` commits although the handler was cancelled.

`JobExecution` says what the queue promises about one job: absent, queued, taken,
settled, and one effect at most, only while taken or with the settling. The
refinement mapping `phase` maps a job row to these. A row lock is not yet a claim,
and a RUNNING job of a dead process counts as settled, since nobody will ever
touch it again except to mark it FAILED.

### SpotCache

State: `data[s]` counts the committed writes that changed the responses of a scope ("list"
for list and map, "search", "detail" for one spot), `version[f]` is a version key in Redis
(lists and searches have one, details another: `Family`), `entry[s][v]` the response stored
under version v, represented by how many writes it reflects. `Changed` says which
responses a writer changes and `Raised` which versions it raises. They differ for a
review, which changes the rating that orders searches and stands in their cursors but
raises only the version of the detail, and for the deletion of a field option. A reader takes the version (`ReadVersion`), looks up (`Hit`), queries
PostgreSQL (`Query`), stores (`Store`) and answers (`Respond`), and Redis can
fail at each of its calls. A writer commits and then bumps its versions one after
the other (`Commit`, `Bump`, `Return`); the bulk job bumps first and commits then
(`BulkBegin`, `BulkCommit`); a deletion of a field option bumps nothing.
`Expire` is the TTL, `EvictVersion` and `RestartRedis` lose keys. `trouble[s]` records the
worst event outside the promise that has happened to scope s.

### SpotGroups

State: whether the group is live, its visibility, `role[u]` of each user, its
spots, the invites, and per request its operation, its target and the place it
stands. `Begin`/`Authorise` are `require_group_role` (or the staff dependency, which
asks for no membership); then `LoadTarget`, `CountOwners` and `UpdateRole` or
`RemoveMember` are the statements of `crud/spot_group.py`; `CheckAbsent` and
`AddMember` those of `add_member`; `CheckGroup`, `CheckInviter`, `Join` and
`CloseInvite` those of `accept_invite`, with the commit of the membership in
`Join` and the commit of the link in `CloseInvite`. `seen[q]` records the
conditions that have held since request q began. `update_member_role` is two
operations ("promote" to OWNER and "demote"), because only one of them counts
the owners.

A first login with a link is the operation "signup": `BeginSignUp` finds no user,
`Register` is `create_user` (or the IntegrityError of a concurrent first login, after
which both go on as new), `LoadInvite` to `Join` and `CloseInvite` are
`consume_invite_for_signup`, and `ReferOnly` its end where the group part of the link
is no longer good. The referral is set in Python before the checks and reaches the
database with their first SELECT (autoflush), so until its commit the row of the
user is locked; `Flushed` says who holds it. `Starts` says what a behaviour begins
from: which operations are requested in it and who has an account.

### Reviews

State: the rows of `spot_reviews` of one spot, the set of ratings the spot's
`rating_avg` and `review_count` were computed from (or `FromFile` after a bulk
upsert), the row lock of the spot, and per transaction the loaded row, the row as
it will write it, and what it has counted. `LoadForCreate/Update/Same/Delete`
load; `Flush` is the INSERT or UPDATE with PostgreSQL's waiting for row locks and
for `uq_spot_user_review_active`; `Recount`, `WriteRating` and `Commit` are
`recalculate_rating` and the commit. `behind` holds the transactions whose count
another commit has overtaken. "same" is the request that changes nothing but
recounts.

### SpotPipeline

State: `row[s]` with status, assignee, tier, deletion and whether the last
verification is older than the threshold; `lock[s]`, the row locks of
`FOR UPDATE SKIP LOCKED` and of updates; per request what it picked or loaded.
`Pick`/`WriteAssignment` are `assign_spots` and `transfer_spots`; `LoadPatch`,
`LoadReassignment` and `SaveEdit` are the single edits, where what was checked may
be gone when it is saved; `AssignBulk`, `SetStatusBulk`, `SetDeleted` and
`UpsertRow` are single statements; `Lower` and `Requeue` are the two statements of
`decay_stale_trust_tiers`; `GrowStale` is the passing of time and starts a new
period, in which `spent[s]` counts the decays.

### Conversations

State: which conversations exist and of which kind, blocks, messages with sender
and `created_at`, `last_read_at`, PostgreSQL's clock, and per request its place and the
timestamp it took. There are two clocks: `created_at` is PostgreSQL's (`func.now()` in
`models/message.py:34`), `last_read_at` that of a host of the API (`datetime.now()` in
`crud/conversation.py:172`). The second is no variable: it shows any time that is not more
than `Ahead` later than PostgreSQL's, late by any amount, and may jump back. `AskToOpen`, `CheckOpen`, `LookUp` and `CreateDirect` are
`get_or_create_direct_conversation` behind the check of blocks; `BeginSend`,
`CheckSend` and `CommitSend` are `send_message`, whose `created_at` is the start of
the transaction; `TakeReadTime` and `CommitRead` are the marking as read;
`FirstPage` and `NextPage` are a client that pages through `list_messages` with
the cursor `(created_at, uid)`. PostgreSQL's clock moves when a read takes its time: only
the order of `created_at` against `last_read_at` matters, and messages begun
between two reads have one `created_at`, which is also the boundary case of the
cursor. `taken[c][u]` is history: PostgreSQL's time when u last began to mark c read.

### SpotImages

State: presigned URLs, the object under the pending and under the final key (none,
small enough, too large), the rows, and per registration its place and key.
`Begin`, `Head`, `DeleteTooLarge`, `Copy`, `Insert`, `InsertFails`,
`RefreshFails`, `Undo` and `DeleteOriginal` are the steps of `register_image` and its
rollback, and `End` is any stop between them. `Upload` may repeat while the URL is
valid; `Sweep` is the lifecycle rule of the bucket on the pending prefix (an S3
service, external to the code).

### Explore

State: `row[s]` as far as a query can see it (public or not, where it lies relative
to one bounding box, how well it matches the one query, its rating, its category
codes), the option codes, and per client where it stands, the filters it asks with,
the cursor it holds and the answers it has. `Ask`, `ReadPage` and `ReadTotal` are one request
of `list_spots` (the page and the total are two statements), `Continue` the next
page with the cursor and the check of its area, `TurnToMap` the map. The queries are
operators: `Explorable` is `_apply_explore_filters`, `Matches` adds the search, `Rest` the
comparison with the cursor, `FirstOf` the ORDER BY and LIMIT, and `Position` and
`Before` the order itself, descending by score, rating and uid in a search and
ascending by uid in a list.

`EditSpot` is any commit of another component that changes what a query sees of a
spot. `LoadPatch`, `FlushPatch` and `CommitPatch` write category codes;
`FindOption`, `LookForSpots`, `ClearCode` and `CommitDeletion` are
`delete_field_option`, whose one UPDATE is two steps, because it looks for rows in a
snapshot and then waits for their locks. `shown`, `steady`, `switched` and `late` are
history: what the client was shown, which spots did not change for it since its
first page, whether it took the cursor to another category, and which codes were
written when their option was going.

### RateLimit and Push

`RateLimit` is the counter of one endpoint and actor: `Counted` is INCR with EXPIRE NX,
`Admit`, `Refuse` and `FailOpen` are the ends of the dependency, `EvictKey` and
`Tick` are Redis. Time is relative to now: `recent[k][i]` counts the requests that
passed i ticks ago, and `spoilt` how long a fault still bears on the rate.

`Push` puts `send_message` behind it. State: each request with its process, the
participants it has still to serve (`todo`) and the copy of sockets it is going through
(`copy`); each socket with its process; `registry[p]`, the ConnectionManager of
process p; and `shown[s]`, what the client behind a socket has got by listing or by
push. `TakeCopy` and `PushTo` are `send_to_user`, with other coroutines between any
two sends; `Close` is the end of the receive loop, `Kill` the end of a process.

## 4. The runs

All runs use breadth-first search to the end; the table gives the properties.

| Run | Instance | What it shows |
|---|---|---|
| `jobs` | 2 processes, 3 jobs (bulk, dump, business), 3 faults | OneHolder, EffectAtMostOnce, OutcomeMatchesEffect; the refinement ImplementsJobExecution; with fairness EveryJobIsServed and BootClearsRunning |
| `cache` | searches and details, 2 readers, 1 writer of any kind, versions to 1 | CompletedWritesAreVisible for a kind of response while its version survives and is raised after each commit; TtlHeals in every case |
| `groups` | 2 requests at a time, in behaviours of three kinds: 2 users and staff on members, pins and the group; 3 users with one link; 1 user whose link brings in 2 new ones | KeepsAnOwnerUnlessRaced, EffectsWereAllowed, OneEntryUnlessShared |
| `reviews` | 2 users, 3 review rows, 2 transactions, bulk upserts | OneActiveReview, DeletedStaysOut, UndisturbedReviewHeals |
| `pipeline` | 2 spots, 1 staff user and a superuser, 2 requests | PickedIsHeld, DecayOncePerPeriod, StaffReachIsBounded |
| `conversations` | 2 users, one of whom marks read, 2 conversations (messages in one), 2 messages, 2 requests, pages of 1, a host at most 1 tick ahead | OneDirectUnlessRaced, BlockStops, UnreadUnlessRead, PagingIsComplete |
| `images` | 2 keys, 3 rows, 2 registrations, maximum of 1 image | RowsHaveObjects, ObjectsHaveRows, OriginalsAreKept, SizeIsBounded, CountIsBounded |
| `explore` | 3 spots of 2 kinds, 1 client, 2 staff requests, 1 code, pages of 1, 2 pins, totals to 2, 2 edits | PagingIsExact, ModesAgree, DeletedCodesAreGone |
| `push` | 1 sender, 1 recipient with 2 sockets, 2 processes, 2 messages; 1 request in 2 ticks | PushLeavesNoGap, RateIsKept |
| `cache_bulk`, `invites_onetime`, `reviews_rating` | as above | counterexamples to what docs and tests say; section 7 |

**Names with "Unless".** Several things the code is supposed to do hold only
outside a window the code leaves open. The passing property then names exactly
that window (`raced`, `shared`, `behind`, `taken` and `Ahead`, `past`, `late`, `trouble`),
so that it says the window is the only one, and where a doc or a test promises the thing without the
window, a violation run shows the window itself.

**Bounds.** Two of each actor, since every race found is between two, and a third
user for the links, because one issues and two accept or sign up. Two requests of every kind
interleave at every statement, and requests start again when they end, so
sequences are unbounded in length. Named bounds:
`MaxFaults = 3` lets a fault hit the claim, the handler and the reboot of one
history; `MaxWrites = 1` and `MaxVersion = 1`: a response is stale against one write, the
commit and the bumps of that write are what a slow reader crosses, and a version that is
lost goes back to 0 and to the entry of before the write (that a later bump brings it to 1
again is left to the theorem NoStaleResponse, which bounds no writes, and to the TTL, which
acts on every entry); `MaxPick = 2` is all
spots; `MaxImages = 1` makes the second registration the one too many, and the third row is
there to exceed what two registrations may;
`MaxClock = 3` allows two reads, which is what committing in the wrong order takes, and
`Ahead = 1` a message that is lost to a fast clock and one that is not; `Marking` is one
user, because a user's marks are columns of her own participant row that nobody else reads;
`PageSize = 1` cuts every page between two messages or spots; `MapLimit = 2` and
`TotalCap = 2` are one less than there are spots, so both the exact and the cut
answer occur; `MaxEdits = 2` lets one spot change and change back, or a write of a
code meet a deletion. `times = 1` and `seconds = 2` put a window boundary between two
requests that pass, with a third refused. `Busy` confines messages to
one conversation, because no statement relates the messages of two; the second
conversation is there to be opened twice. `Statuses` leaves out RAW, REVIEWED and
REJECTED as targets (the transition to REJECTED is like that to CURATED), and
`Tiers = {2}`: a spot written with tier 2 reaches 3 by one decay and the second
UPDATE of the batch by the next.

**Symmetry** is used only in runs whose properties are invariants or action
properties, over model values that no action distinguishes.

**Deadlock** is checked in `cache`, `reviews`, `pipeline`, `conversations`, `images`,
`explore` and `push` (in the last, where time always passes, it says nothing). In
`jobs` the jobs and the faults are finite, so a run of the model ends with every job
settled; in `groups` a deleted group with no request in flight rests for ever. These
cfgs say `CHECK_DEADLOCK FALSE`.

## 5. Fairness

`JobQueue!FairSpec` has weak fairness of `Boot(w)` and `WorkerStep(w)` per
process. The code justifies it: `infra/docker-compose.yml:8` restarts the container always and uvicorn
respawns a dead worker, and the loop of `run_worker` catches every
exception, sleeps `POLL_INTERVAL` and goes on. Requests need not come and faults
need not stop being possible; they are bounded by `MaxFaults`, which states that
a process is not killed for ever. `SpotCache!FairSpec` assumes only that time
passes: a response under a key expires (`set_cached` gives every entry an `ex`). No
fairness is assumed of readers, writers or bumps. The other modules state safety
only, and so need none.

## 6. The proofs

Checked by `tlapm` for every value of the constants that satisfies the modules'
named assumptions: any number of processes, jobs, faults, readers, writers, users,
members, links, reviews, transactions, spots, staff, conversations, messages, images,
clients, sockets and requests. The assumptions name no sizes but one: `Conversations` is
about a pair of users (`TwoUsers`), because each of its statements is. Its
`BoundsAssumption` names `Ahead`, the one assumption about clocks: hosts synchronised by NTP
have a small one, and nothing in the code enforces any. `CountAssumption` of `SpotImages`
says that the maximum is not 0 and that finitely many registrations are in flight, and
`MessagesAssumption` that no message is 0: that is the model's "no cursor", and with a
message 0 paging would be lost. `SpotsAssumption` of `Explore` says the same of spots and
that there are finitely many, as rows of a table are.

**JobQueueProofs.** `IInv` is TypeOK, OneHolder, EffectAtMostOnce and
OutcomeMatchesEffect together with `HolderInv` and `FreshInv`. The properties
alone are not inductive: they say nothing of what a worker that holds a job may
still commit. HolderInv says it: who holds a job is at a matching place of the
loop, the job is pending (locked), or running or already failed by another
process's boot (claimed), has no result, and nothing of it is durable but an
uploaded dump. FreshInv says that an unclaimed job has left nothing. One lemma
per action, then TypeCorrect, ClaimsAreExclusive, EffectsAreNotRepeated,
ReportsAreTrue, and QueueImplementsJobExecution: each step of the queue is a step
of `JobExecution` or a stutter under `phase`.

**PublicReadProofs, the cache.** A finished request sees completed writes because of what a
version stands for. `Reflects(s, v, n)`: whatever is stored under version v, or is
about to be stored by a reader, reflects the first n writes. As long as there was
no trouble, the current version reflects all writes whose writers have bumped
(CurrentInv), the version a reader holds reflects what it must see (ReaderInv),
nothing is stored above the current version (VersionInv), and nobody bumps before
its commit (CommittedInv). `Keeps` is the lemma that makes a reader's promise
outlive other writers' bumps. All of it is said per kind of response, under the
condition that no trouble came to that kind; searches are in trouble after a review, details
are not. The theorem covers any number of readers, writers and writes. From it:
CacheTypeCorrect and NoStaleResponse.

**PublicReadProofs, the queries.** The two models of `explore.py` have no constant and no
variable in common, so one module extends both. `StaffInv` says of a deletion that has
looked for spots that it knows all that have its code, but for those that were given it
late (`Fits`); CommitPatch keeps this because `Going` holds the codes of deletions under
way. `Walk` says of a client, at any place: its cursor is a place in the order of its
filter (`Shape`); what it was shown is behind the cursor (`Once`); what matches and stayed
as it was has been shown or is ahead (`All`); and what it was answered at the end is what the
queries would answer (`Answers`). Steps of staff keep it because whoever still counts a
spot as steady sees it as it was (`KeepsSight`, `WalkKept`). A page keeps it by
`PageIsNext`: what LIMIT takes is a part of the rest that ends with a last row, nothing else
of the rest is ahead of that row, and what was behind the old cursor is behind it
too. That is where the order matters: `BeforeIsOrder` (the row-value comparison is a
total strict order, descending in a search and ascending in a list), `FirstExists` (finitely many rows have
a first one in any order, from well-foundedness of < on how many rows are below each),
`FirstOfFew` and `FirstOfMany` (what LIMIT takes of few rows and of many). From it:
ExploreTypeCorrect, WalksAreExact, ModesDoNotPart, DeletionIsComplete.

**ReviewsProofs.** The invariant says what PostgreSQL's locks protect between a
flush and a commit: the row is still what it was changed from (OwnRow, OwnDraft),
no two transactions write one row or insert for one user (Locked), and whoever
has not been overtaken holds the count of the table it will commit
(CountIsRight). From it: ReviewsTypeCorrect, OneReviewPerUser, NoResurrection
(action property) and RatingHeals (action property).

**SpotPipelineProofs.** While a request holds the lock of a spot the row is as the
request found it: waiting and its source's for an assignment (PickedIsHeld), stale
and of tier 1 or 2 for the batch (LoweredIsHeld). SpentInv adds that a stale
spot has not decayed in its period, which is what makes a second run harmless.
Edits hold no lock, so for them CheckedEdit says what an edit of STAFF may contain
once it was checked. StatementStep and FinishStep do the work for every action
that writes rows; the rest is what each action writes. From it:
PipelineTypeCorrect, PickedSpotsAreHeld, TiersDecayOnce and the action property
StaffStayWithinReach.

**SpotGroupsProofs.** No row is locked, so nothing can be said of a request from the
tables; the invariant follows the request. ShapeInv says what it is about at each place
(an account, a link, a new user), SeenInv which of the conditions its handler checks it
has met by there (`Due`), and from that WritesWereAllowed. OwnerInv strengthens
KeepsAnOwnerUnlessRaced: as long as no owner went under a decision, every request about
to demote or remove someone leaves an owner. LinkInv says of a link that lets somebody
in that it is now being closed, or closed with nobody holding it. Two lemmas carry the
22 actions: `Walk` for steps that read and go on, `Ends` for those that write and are
done. From it: GroupsTypeCorrect, AnOwnerRemains, WritesWereAllowed, LinksAdmitOne.

**ConversationsProofs.** DirectInv: who is about to make a conversation has found none,
and there still is none. BlockInv: a block stands as long as it accompanies a request, so
the check of that request fails (with two users every block is between them). StampInv
relates the clocks: every time a user has marked a conversation read with, or is about to,
is at most `Ahead` later than PostgreSQL's when she last took one (`Taken`); this is what
UnreadUnlessRead needs of reads that commit in the wrong order. From
it: OneDirectConversation, BlocksStopRequests, UnreadIsCounted. PagesInv is about a client
that pages: what it was shown and what it has left make up what was there at its first page,
and the cursor, the last message of a page, separates the two (`PageIsCut`,
`PageAdvances`). From it: ConversationsTypeCorrect, PagesAreComplete.

**SpotImagesProofs.** The invariant follows a key through the saga: two registrations
of one key are marked (TogetherInv), a registration that may still delete the final object
has no row (RowInv), what it copied is there (CopyInv), an object without a row has a
registration that sees to it (LeftInv), what was found small is small (HeadInv), and who
deletes an original has its row (CommittedInv). RoomInv counts the rows together with the
registrations that have found room and not used it (`Counting`). From
it: ImagesTypeCorrect, RowsKeepObjects, ObjectsKeepRows, OriginalsSurvive (action property),
LargeObjectsStayOut, CountStaysBounded.

**PushProofs.** OwedInv says what a push owes while it runs: to every client of its process
that has listed the messages without this one, the push still comes, because its user is in
`todo` or its socket in `copy`. The part of TypeOK about the registry makes `TakeCopy`
complete: every socket that still hears is in it. From it: PushTypeCorrect (with the counter
of RateLimit) and NoPushIsMissed.

**PushProofs, the rate.** A fixed window bounds no window but its own: what passed in the last
`seconds` ticks may lie under two keys. `RateInv` therefore cuts an actor's history at the age of
her key (`Kept`). What no fault bears on (`Young`) is at most the limit in each part, and under
the key at most its count; and under the key as much has passed as the key counts, or the limit.
The first half gives twice the limit, the second that a refused actor has had it. Requests are
counted as the pairs of an age and a number (`Recent`), so that the lemmas about what a request
adds (`NumCounts`), what a tick moves (`NumAges`) and how a history splits (`NumSplits`) follow
from those about finite sets. From it: RateIsHeld (action property).

**Only model-checked:** liveness (EveryJobIsServed, BootClearsRunning, TtlHeals), which is out
of the prover's reach as are ENABLED and RECURSIVE operators (none is used here). Induction
over data is, too, as a principle; what the proofs need of it, a least number of a set of
naturals and so a first and a last of finitely many, follows from well-foundedness
(`LeastNatural`). Every other property of a passing run is a theorem.

## 7. Findings

Three places where the code does not do what its docs, comments or tests say. Each
has a run that finds the counterexample.

* `cache_bulk`: `workers/spots_bulk.py:76` bumps the cache versions inside the
  handler, and `process_job` commits the rows afterwards. A reader in between
  caches the old response under the new version and it is served until its TTL
  ends. `tests/test_explore_spots_cache.py:84` says that after a data change no
  stale response may appear, and tests the bulk upsert among others.
* `invites_onetime`: `accept_invite` commits the membership (in `add_member`) and
  the ACCEPTED status separately, and checks PENDING on a row it loaded before. Two
  users, or two after a crash, get in by a link `models/invite.py:21` calls one-time.
* `reviews_rating`: two reviews written at once count without each other, and
  the later commit overwrites the rating with a count of one, against
  `spot_reviews.py:84-86`.

Observations made while modelling, which no run is about or which a passing
property names as its exception:

* The last-owner safeguard of `crud/spot_group.py:158` counts owners without a lock:
  two owners who demote or remove each other leave a group without one. `raced` in
  KeepsAnOwnerUnlessRaced is exactly this window.
* The boot of one process fails RUNNING jobs of the other, living one (cleanup
  does not know whose they are). That worker goes on, and the row goes from FAILED
  to SUCCEEDED with `error` still "orphaned".
* `PATCH` of `trust_tier` does not set `last_verified_at`, although
  `models/spot.py:119` says it is set with it.
* The second UPDATE of `decay_stale_trust_tiers` gives PUBLISHED spots of tier 3 back
  to the queue by clearing their assignee, but only ENRICHED ones are ever picked.
* `PATCH` of a spot checks status and assignee on a row loaded before; the
  transition saved may be outside the whitelist when another request comes in
  between. StaffReachIsBounded says what remains.
* `consume_invite_for_signup` has the two commits of `accept_invite`. A process that
  stops after `create_user` loses the referral: the next login is not a first one. Two first
  logins with one link can both join by it, and of two concurrent first logins of one
  account the later one gets 409 from `add_member` instead of a token.
* Category codes of PATCH and of the bulk upsert are never checked against the
  options, though `models/spot_field_option.py:21-22` calls them a whitelist. A code
  written while its option is deleted stays (`late` in DeletedCodesAreGone).
* `explore.py:170-171` says that list and map never part. By default
  (`EXPLORE_REQUIRE_COORDINATES` off) the list has spots without coordinates and the
  map has not; ModesAgree compares the map with those that have a place.
* The cursor is bound to the area it was issued for, not to category, region or
  query (`switched` in PagingIsExact).
* A socket is entered once its user is authenticated and stays when she is
  deactivated; it keeps its database session for as long as it is open.
* Two users who open a conversation with each other at once get two, and from
  then on every lookup of that pair raises (`scalar_one_or_none`).
* A message is never counted unread if it was begun before its recipient marked the
  conversation read and committed afterwards, or if it was sent after a mark by a host
  whose clock is ahead of PostgreSQL's by more than the time in between (`taken` and `Ahead`
  in UnreadUnlessRead).
* `crud/spot_review.py:69-70` says that the rating appears only in details, so a review
  leaves the version of lists and searches alone. But searches are ordered by the rating
  and carry it in their cursors (`crud/spot.py:297-313`): a cached search keeps the old
  order until its TTL ends (`Raised` against `Changed` in `SpotCache`).
* A rating in flight may still change the row of a review that was deleted meanwhile;
  DeletedStaysOut says that it does not bring the review back.
* `register_image` deletes the final object when the error comes after the commit
  (refresh), and when one key is registered twice: a row without object remains
  (`past` in RowsHaveObjects). An upload between HEAD and copy bypasses the size
  limit; concurrent registrations exceed the maximum count, by fewer rows than there are
  registrations (CountIsBounded).
* `ws_manager` pushes to sockets of its own process. Its comment assumes one
  instance, and the `Dockerfile` starts two workers (`at[m] = home[s]` in
  PushLeavesNoGap).

## 8. Abstractions shared by the modules

* READ COMMITTED, row locks, unique indexes and `SKIP LOCKED` are modelled by
  what PostgreSQL does, at the statements where the code relies on them.
* Names, texts, coordinates, key digests and response bodies are left out; rows are
  model values; ratings, tiers and sizes are members of small sets.
* One group, one spot of reviews, one pair of users, one spot of images stand for
  all where no statement relates two of them.
* A request that waits for a lock is an action that is not enabled. Deadlocks
  inside PostgreSQL between bulk jobs (row order) are left out, because the database
  resolves them by failing one statement, which the model has as a failed row.

## 9. What is not modelled, and why

* Images: `update_image` (role, order and visibility are overwritten as they come) and
  the choice of the thumbnail, which is an ORDER BY.
* Explore: `random` spots, the text search itself (a spot has a score for the one
  query), regions (one more filter), and cached responses, which are `SpotCache`.
* Messages: `updated_at` and the order of the list of conversations.
* Invite links without a group: `referred_by_uid` of a new user and nothing else,
  which ReferOnly does for a link whose group part has expired.
* The pool of database connections and lock waits between the rows of two bulk
  files: resources inside SQLAlchemy and PostgreSQL, left to load tests.
* Reports of reviews: one INSERT under a unique index.
* Business info: the bulk upsert is a job of `JobQueue`; the PATCH is one load and
  one commit.
* Accounts and sign-in beyond the first login: stateless tokens, profiles and
  nicknames under a unique index, the session of the admin console.
* `enforce_spots_bulk_size`: a bound on the length of one payload.
* Audit log: database triggers inside the transaction of each change.
* Schemas, error wording, Alembic migrations, infrastructure, the admin templates:
  no state machine of their own.
