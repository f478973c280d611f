------------------------------ MODULE Explore ------------------------------
(***************************************************************************)
(* Exploring the public spots (vivacapi/crud/spot.py and the endpoints in  *)
(* explore.py): a client pages through the list or through a search, turns *)
(* to the map and opens spots, while spots are edited and options of their *)
(* category are created and deleted (crud/spot_field_option.py).           *)
(*                                                                         *)
(* One action is one statement.  A page and its total are two statements,  *)
(* and between two pages a client holds nothing but a cursor.  Responses   *)
(* from the cache are left to SpotCache: they are answers of an earlier    *)
(* moment.  Of the two cursor formats each is used where it was issued.    *)
(***************************************************************************)
EXTENDS Integers, Sequences, FiniteSets

CONSTANTS
  Spots,                \* the spots, as the numbers that order their uids
  Clients,              \* clients that explore
  Requests,             \* requests of staff about categories
  Codes,                \* codes of category options
  Scores, Ratings,      \* how well a text matches the query (0: not), rating_avg
  Catalogue,            \* the rows spots start with
  RequireCoordinates,   \* EXPLORE_REQUIRE_COORDINATES
  PageSize, MapLimit,   \* the limits of the list and of the map
  TotalCap,             \* TOTAL_CAP
  MaxEdits,             \* bounds the edits of a behaviour
  Nobody                \* no request

\* public: PUBLISHED and not deleted.  at: the place, relative to the one bbox
\* clients ask for.
Row == [public : BOOLEAN, at : {"nowhere", "inside", "outside"},
        score : Scores, rating : Ratings, category : SUBSET Codes]

\* What a client asks for: by a query or not, in which area, of which category.
\* region_province is a filter like category.
Filters == [q : BOOLEAN, area : {"all", "box"}, category : SUBSET Codes]

ASSUME SpotsAssumption == Spots \subseteq Nat \ {0} /\ IsFiniteSet(Spots)
ASSUME RowsAssumption == Scores \subseteq Nat /\ Ratings \subseteq Nat /\ Catalogue \subseteq Row
ASSUME SettingsAssumption == RequireCoordinates \in BOOLEAN
ASSUME LimitsAssumption == /\ PageSize \in Nat \ {0} /\ MapLimit \in Nat \ {0}
                           /\ TotalCap \in Nat \ {0} /\ MaxEdits \in Nat
ASSUME NobodyAssumption == Nobody \notin Requests

VARIABLES
  row,          \* row[s]: the committed row of s
  options,      \* codes in spot_field_options
  edits,        \* how many edits have begun
  place,        \* place[c]: where client c stands
  filter,       \* what c asks for
  cursor,       \* the cursor c holds
  total,        \* the total of c's last response
  pins,         \* what c has seen on the map
  shown,        \* history: how often c was shown each spot since its first page
  steady,       \* history: spots as c would have found them at any time since then
  switched,     \* history: c has taken its cursor to another category
  job,          \* each request about categories: see TypeOK
  lock,         \* lock[s]: the request that has written s and not committed
  late          \* history: codes written when their option was gone or going

client == <<place, filter, cursor, total, pins, shown, switched>>
staff == <<job, lock, late>>
vars == <<row, options, edits, client, steady, staff>>

NoCursor == [scope |-> "none", at |-> <<>>]
NoPins == [spots |-> {}, truncated |-> FALSE]
AnyFilter == [q |-> FALSE, area |-> "all", category |-> {}]
Idle == [step |-> "idle", spot |-> 0, category |-> {}, rows |-> {}]
NotShown == [s \in Spots |-> 0]

TypeOK ==
  /\ row \in [Spots -> Row]
  /\ options \subseteq Codes
  /\ edits \in 0..MaxEdits
  /\ place \in [Clients -> {"away", "asked", "listed", "more", "end", "map"}]
  /\ filter \in [Clients -> Filters]
  /\ \A c \in Clients :
        /\ cursor[c].scope \in {"none", "all", "box"}
        /\ cursor[c].at \in Seq(Nat)
        /\ cursor[c] # NoCursor => cursor[c].scope = filter[c].area
  /\ total \in [Clients -> 0..TotalCap]
  /\ pins \in [Clients -> [spots : SUBSET Spots, truncated : BOOLEAN]]
  /\ shown \in [Clients -> [Spots -> Nat]]
  /\ steady \in [Clients -> SUBSET Spots]
  /\ switched \in [Clients -> BOOLEAN]
  /\ job \in [Requests -> [step : {"idle", "loaded", "written", "found", "started", "cleared"},
                           spot : Spots \cup {0}, category : SUBSET Codes,
                           rows : SUBSET Spots]]
  /\ lock \in [Spots -> Requests \cup {Nobody}]
  /\ late \subseteq Spots \X Codes

Init ==
  /\ row \in [Spots -> Catalogue]
  /\ options = Codes
  /\ edits = 0
  /\ place = [c \in Clients |-> "away"]
  /\ filter = [c \in Clients |-> AnyFilter]
  /\ cursor = [c \in Clients |-> NoCursor]
  /\ total = [c \in Clients |-> 0]
  /\ pins = [c \in Clients |-> NoPins]
  /\ shown = [c \in Clients |-> NotShown]
  /\ steady = [c \in Clients |-> Spots]
  /\ switched = [c \in Clients |-> FALSE]
  /\ job = [q \in Requests |-> Idle]
  /\ lock = [s \in Spots |-> Nobody]
  /\ late = {}

---------------------------------------------------------------------------
(* The queries.                                                            *)

\* _apply_explore_filters, the conditions all modes have in common.
Explorable(f, s, coordinates) ==
  /\ row[s].public
  /\ coordinates => row[s].at # "nowhere"
  /\ f.category # {} => row[s].category \cap f.category # {}
  /\ f.area = "box" => row[s].at = "inside"

\* The match of a search (_search_terms).
Found(f, s) == f.q => row[s].score > 0

Matches(f, s) == Explorable(f, s, RequireCoordinates) /\ Found(f, s)

\* ORDER BY: a search by score, rating and uid, the list by uid.
Position(f, s) == IF f.q THEN <<row[s].score, row[s].rating, s>> ELSE <<s>>

\* A search descends, the list ascends.
Before(f, a, b) ==
  \E i \in DOMAIN a :
    /\ IF f.q THEN a[i] > b[i] ELSE a[i] < b[i]
    /\ \A j \in 1..(i - 1) : a[j] = b[j]

\* Faulty form: of a search only the score is compared.
RestByScore(f, k) ==
  {s \in Spots :
     /\ Matches(f, s)
     /\ \/ k = NoCursor
        \/ IF f.q THEN k.at[1] > Position(f, s)[1] ELSE k.at[1] < Position(f, s)[1]}

\* What is left after a cursor (the row-value comparison of the WHERE clause).
Rest(f, k) ==
  {s \in Spots : Matches(f, s) /\ (k = NoCursor \/ Before(f, k.at, Position(f, s)))}

\* LIMIT n.
FirstOf(f, S, n) ==
  {s \in S : Cardinality({t \in S : Before(f, Position(f, t), Position(f, s))}) < n}

\* The page is one row longer than asked for where there is more; the cursor is
\* the place of its last spot and the area it was asked in.
NextCursor(f, k) ==
  IF Cardinality(Rest(f, k)) <= PageSize THEN NoCursor
  ELSE LET page == FirstOf(f, Rest(f, k), PageSize)
           last == CHOOSE s \in page :
                     \A t \in page \ {s} : Before(f, Position(f, t), Position(f, s))
       IN  [scope |-> f.area, at |-> Position(f, last)]

\* Faulty form: the match is forgotten.
TotalOfFilters(f) ==
  LET n == Cardinality({s \in Spots : Explorable(f, s, RequireCoordinates)})
  IN  IF n > TotalCap THEN TotalCap ELSE n

\* count_spots: the filters and the match of the page, up to TOTAL_CAP.
Total(f) ==
  LET n == Cardinality({s \in Spots : Matches(f, s)})
  IN  IF n > TotalCap THEN TotalCap ELSE n

\* list_spots_map: always with coordinates, and by uid.
OnMap(f) == {s \in Spots : Explorable(f, s, TRUE) /\ Found(f, s)}
Pins(f) == [spots |-> FirstOf(AnyFilter, OnMap(f), MapLimit),
            truncated |-> Cardinality(OnMap(f)) > MapLimit]

\* get_spot_by_uid of the public endpoints.
Opens(s) == Explorable(AnyFilter, s, RequireCoordinates)

---------------------------------------------------------------------------
(* Clients.                                                                *)

\* A new walk.
Ask(c, f) ==
  /\ place[c] = "away"
  /\ place' = [place EXCEPT ![c] = "asked"]
  /\ filter' = [filter EXCEPT ![c] = f]
  /\ steady' = [steady EXCEPT ![c] = Spots]
  /\ UNCHANGED <<row, options, edits, cursor, total, pins, shown, switched, staff>>

\* list_spots or search_spots.
ReadPage(c) ==
  LET f == filter[c]
      page == FirstOf(f, Rest(f, cursor[c]), PageSize)
  IN  /\ place[c] = "asked"
      /\ shown' = [shown EXCEPT ![c] =
                     [s \in Spots |-> @[s] + IF s \in page THEN 1 ELSE 0]]
      /\ cursor' = [cursor EXCEPT ![c] = NextCursor(f, @)]
      /\ place' = [place EXCEPT ![c] = "listed"]
      /\ UNCHANGED <<row, options, edits, filter, total, pins, switched, steady, staff>>

\* count_spots, in the same request.
ReadTotal(c) ==
  /\ place[c] = "listed"
  /\ total' = [total EXCEPT ![c] = Total(filter[c])]
  /\ place' = [place EXCEPT ![c] = IF cursor[c] = NoCursor THEN "end" ELSE "more"]
  /\ UNCHANGED <<row, options, edits, filter, cursor, pins, shown, switched, steady, staff>>

\* Faulty form: the cursor is taken wherever the map has moved.
ContinueAnywhere(c, f) ==
  /\ place[c] = "more"
  /\ f.q = filter[c].q
  /\ place' = [place EXCEPT ![c] = "asked"]
  /\ filter' = [filter EXCEPT ![c] = f]
  /\ switched' = [switched EXCEPT ![c] = @ \/ f.category # filter[c].category]
  /\ UNCHANGED <<row, options, edits, cursor, total, pins, shown, steady, staff>>

\* The next page, in the area the cursor was issued for (_reject_scope_mismatch);
\* nothing binds it to a category.
Continue(c, f) ==
  /\ place[c] = "more"
  /\ f.q = filter[c].q
  /\ cursor[c].scope = f.area
  /\ place' = [place EXCEPT ![c] = "asked"]
  /\ filter' = [filter EXCEPT ![c] = f]
  /\ switched' = [switched EXCEPT ![c] = @ \/ f.category # filter[c].category]
  /\ UNCHANGED <<row, options, edits, cursor, total, pins, shown, steady, staff>>

\* list_spots_for_map with the same filters.
TurnToMap(c) ==
  /\ place[c] = "end"
  /\ pins' = [pins EXCEPT ![c] = Pins(filter[c])]
  /\ place' = [place EXCEPT ![c] = "map"]
  /\ UNCHANGED <<row, options, edits, filter, cursor, total, shown, switched, steady, staff>>

\* The client gives up, an error answers it (CURSOR_SCOPE_MISMATCH among them), or
\* it has seen enough.
Leave(c) ==
  /\ place[c] # "away"
  /\ place' = [place EXCEPT ![c] = "away"]
  /\ filter' = [filter EXCEPT ![c] = AnyFilter]
  /\ cursor' = [cursor EXCEPT ![c] = NoCursor]
  /\ total' = [total EXCEPT ![c] = 0]
  /\ pins' = [pins EXCEPT ![c] = NoPins]
  /\ shown' = [shown EXCEPT ![c] = NotShown]
  /\ steady' = [steady EXCEPT ![c] = Spots]
  /\ switched' = [switched EXCEPT ![c] = FALSE]
  /\ UNCHANGED <<row, options, edits, staff>>

ClientStep(c) ==
  \/ \E f \in Filters : Ask(c, f) \/ Continue(c, f)
  \/ ReadPage(c)
  \/ ReadTotal(c)
  \/ TurnToMap(c)
  \/ Leave(c)

---------------------------------------------------------------------------
(* Edits of spots.                                                         *)

\* How clients see spots while a row changes: a list of whatever rating or text.
Watch(s, new) ==
  steady' = [c \in Clients |->
    IF /\ [new EXCEPT !.score = 0, !.rating = 0] = [row[s] EXCEPT !.score = 0, !.rating = 0]
       /\ filter[c].q => new = row[s]
    THEN steady[c] ELSE steady[c] \ {s}]

\* Publishing, deletion, restoring, a new place, text or rating: the column is
\* committed by an endpoint of staff, a review or a bulk upsert.
EditSpot(s, new) ==
  /\ edits < MaxEdits
  /\ lock[s] = Nobody
  /\ new.category = row[s].category
  /\ row' = [row EXCEPT ![s] = new]
  /\ Watch(s, new)
  /\ edits' = edits + 1
  /\ UNCHANGED <<options, client, staff>>

\* The rows that differ from r in one column.
OneEdit(r) ==
  {[r EXCEPT !.public = ~@]}
    \cup {[r EXCEPT !.at = x] : x \in {"nowhere", "inside", "outside"}}
    \cup {[r EXCEPT !.score = x] : x \in Scores}
    \cup {[r EXCEPT !.rating = x] : x \in Ratings}

Start(q, j) ==
  /\ job[q] = Idle
  /\ edits < MaxEdits
  /\ edits' = edits + 1
  /\ job' = [job EXCEPT ![q] = j]

\* update_spot loads the spot; without a change there is nothing to write.  No
\* code of the payload is looked up in the options.
LoadPatch(q, s, codes) ==
  /\ codes # row[s].category
  /\ Start(q, [Idle EXCEPT !.step = "loaded", !.spot = s, !.category = codes])
  /\ UNCHANGED <<row, options, client, steady, lock, late>>

\* The UPDATE of one row, which waits for its lock.
FlushPatch(q) ==
  /\ job[q].step = "loaded"
  /\ lock[job[q].spot] = Nobody
  /\ lock' = [lock EXCEPT ![job[q].spot] = q]
  /\ job' = [job EXCEPT ![q].step = "written"]
  /\ UNCHANGED <<row, options, edits, client, steady, late>>

\* Codes whose option is gone, or whose deletion has looked for spots already.
Going == (Codes \ options) \cup
         UNION {job[d].category : d \in {d \in Requests : job[d].step \in {"started", "cleared"}}}

Unlocked(q) == [s \in Spots |-> IF lock[s] = q THEN Nobody ELSE lock[s]]

CommitPatch(q) ==
  LET s == job[q].spot
      new == [row[s] EXCEPT !.category = job[q].category]
  IN  /\ job[q].step = "written"
      /\ row' = [row EXCEPT ![s] = new]
      /\ Watch(s, new)
      /\ late' = late \cup ({s} \X (job[q].category \cap Going))
      /\ lock' = Unlocked(q)
      /\ job' = [job EXCEPT ![q] = Idle]
      /\ UNCHANGED <<options, edits, client>>

\* create_field_option: the primary key refuses a second one.
CreateOption(k) ==
  /\ edits < MaxEdits
  /\ k \notin options
  /\ options' = options \cup {k}
  /\ edits' = edits + 1
  /\ UNCHANGED <<row, client, steady, staff>>

\* delete_field_option finds the option ...
FindOption(q, k) ==
  /\ k \in options
  /\ Start(q, [Idle EXCEPT !.step = "found", !.category = {k}])
  /\ UNCHANGED <<row, options, client, steady, lock, late>>

\* Faulty form: only among the public spots.
LookForPublicSpots(q) ==
  /\ job[q].step = "found"
  /\ job' = [job EXCEPT ![q].step = "started",
                        ![q].rows = {s \in Spots : /\ job[q].category \subseteq row[s].category
                                                   /\ row[s].public}]
  /\ UNCHANGED <<row, options, edits, client, steady, lock, late>>

\* ... its UPDATE looks for the spots with the code, as they are committed ...
LookForSpots(q) ==
  /\ job[q].step = "found"
  /\ job' = [job EXCEPT ![q].step = "started",
                        ![q].rows = {s \in Spots : job[q].category \subseteq row[s].category}]
  /\ UNCHANGED <<row, options, edits, client, steady, lock, late>>

\* ... and writes them once they are free, those that still have it ...
ClearCode(q) ==
  /\ job[q].step = "started"
  /\ \A s \in job[q].rows : lock[s] = Nobody
  /\ LET S == {s \in job[q].rows : job[q].category \subseteq row[s].category}
     IN  /\ lock' = [s \in Spots |-> IF s \in S THEN q ELSE lock[s]]
         /\ job' = [job EXCEPT ![q].step = "cleared", ![q].rows = S]
  /\ UNCHANGED <<row, options, edits, client, steady, late>>

\* ... and the option goes in the same commit.
CommitDeletion(q) ==
  /\ job[q].step = "cleared"
  /\ row' = [s \in Spots |-> IF s \in job[q].rows
                             THEN [row[s] EXCEPT !.category = @ \ job[q].category] ELSE row[s]]
  /\ steady' = [c \in Clients |-> steady[c] \ job[q].rows]
  /\ options' = options \ job[q].category
  /\ lock' = Unlocked(q)
  /\ job' = [job EXCEPT ![q] = Idle]
  /\ UNCHANGED <<edits, client, late>>

\* An error or a stop: rolled back.
Abort(q) ==
  /\ job[q] # Idle
  /\ lock' = Unlocked(q)
  /\ job' = [job EXCEPT ![q] = Idle]
  /\ UNCHANGED <<row, options, edits, client, steady, late>>

StaffStep(q) ==
  \/ \E s \in Spots, codes \in SUBSET Codes : LoadPatch(q, s, codes)
  \/ FlushPatch(q)
  \/ CommitPatch(q)
  \/ \E k \in Codes : FindOption(q, k)
  \/ LookForSpots(q)
  \/ ClearCode(q)
  \/ CommitDeletion(q)
  \/ Abort(q)

Next ==
  \/ \E c \in Clients : ClientStep(c)
  \/ \E s \in Spots : \E new \in OneEdit(row[s]) : EditSpot(s, new)
  \/ \E k \in Codes : CreateOption(k)
  \/ \E q \in Requests : StaffStep(q)

Spec == Init /\ [][Next]_vars

---------------------------------------------------------------------------
(* Properties.                                                             *)

\* A walk to the last page has shown each spot that nobody changed meanwhile
\* once if it matches and never if not, whatever happened to the other spots,
\* the one the cursor points at among them (list_spots, search_spots); unless the
\* client took the cursor to another category.  In a list even a changed spot is
\* not shown twice.
PagingIsExact ==
  \A c \in Clients :
    /\ place[c] \in {"end", "map"} /\ ~switched[c] =>
         \A s \in steady[c] : shown[c][s] = IF Matches(filter[c], s) THEN 1 ELSE 0
    /\ \A s \in Spots : shown[c][s] > 1 => filter[c].q /\ s \notin steady[c]

\* _apply_explore_filters: the modes do not part.  For a client who walked to the
\* end while nothing changed, the list, the total and the map tell of the same
\* spots (the map of those that have a place), and every one of them opens.
ModesAgree ==
  \A c \in Clients :
    place[c] \in {"end", "map"} /\ ~switched[c] /\ steady[c] = Spots =>
      LET listed == {s \in Spots : shown[c][s] > 0}
          placed == {s \in listed : row[s].at # "nowhere"}
      IN  /\ \A s \in listed : Opens(s)
          /\ IF Cardinality(listed) <= TotalCap THEN total[c] = Cardinality(listed)
             ELSE total[c] = TotalCap
          /\ place[c] = "map" =>
               IF pins[c].truncated
               THEN pins[c].spots \subseteq placed /\ pins[c].spots # placed
               ELSE pins[c].spots = placed

\* delete_field_option: once an option is gone no spot has its code, but for a
\* spot that was given it after the deletion had looked for spots.
DeletedCodesAreGone ==
  \A s \in Spots : \A k \in row[s].category \ options : <<s, k>> \in late
============================================================================
