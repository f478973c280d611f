------------------------------ MODULE RateLimit ------------------------------
(***************************************************************************)
(* The rate limit of an endpoint: a fixed window counter in Redis for each *)
(* actor (vivacapi/core/limits.py, incr_with_ttl of core/cache.py).        *)
(*                                                                         *)
(* Time is counted in ticks and kept relative to now: how long a key has   *)
(* to live, how long ago a request passed.  INCR and EXPIRE NX are one     *)
(* transaction (a pipeline of redis-py is MULTI/EXEC).  A count above the  *)
(* limit is kept at limit + 1, where every answer is the same.             *)
(***************************************************************************)
EXTENDS Integers, FiniteSets

CONSTANTS
  Actors,     \* logged-in users, or client addresses
  times,      \* requests let through in a window
  seconds     \* the length of a window

ASSUME LimitAssumption == times \in Nat \ {0} /\ seconds \in Nat \ {0}

VARIABLES
  counter,    \* counter[k]: the key of k, its count and how long it has to live
  recent,     \* history: recent[k][i]: requests of k that passed i ticks ago
  spoilt      \* history: for how many ticks a fault of Redis bears on k's rate

limits == <<counter, recent, spoilt>>

NoKey == [count |-> 0, ttl |-> 0]
Many == 2 * times + 1       \* more than may pass: counted no further

LimitTypeOK ==
  /\ counter \in [Actors -> [count : 0..(times + 1), ttl : 0..seconds]]
  /\ recent \in [Actors -> [0..(seconds - 1) -> 0..Many]]
  /\ spoilt \in [Actors -> 0..seconds]
  /\ \A k \in Actors : counter[k].count = 0 <=> counter[k].ttl = 0

LimitInit ==
  /\ counter = [k \in Actors |-> NoKey]
  /\ recent = [k \in Actors |-> [i \in 0..(seconds - 1) |-> 0]]
  /\ spoilt = [k \in Actors |-> 0]

AtMost(n, max) == IF n > max THEN max ELSE n

\* Faulty form: EXPIRE without NX, every request renews the window.
CountedAndRenewed(k) == [count |-> AtMost(counter[k].count + 1, times + 1), ttl |-> seconds]

\* incr_with_ttl: the key after INCR and EXPIRE NX.
Counted(k) ==
  [count |-> AtMost(counter[k].count + 1, times + 1),
   ttl |-> IF counter[k] = NoKey THEN seconds ELSE counter[k].ttl]

Passes(k) == recent' = [recent EXCEPT ![k][0] = AtMost(@ + 1, Many)]

\* rate_limit: a request of k is counted and let through ...
Admit(k) ==
  /\ counter' = [counter EXCEPT ![k] = Counted(k)]
  /\ counter'[k].count <= times
  /\ Passes(k)
  /\ UNCHANGED spoilt

\* ... or counted and refused (RATE_LIMITED).
Refuse(k) ==
  /\ counter' = [counter EXCEPT ![k] = Counted(k)]
  /\ counter'[k].count > times
  /\ UNCHANGED <<recent, spoilt>>

\* Redis cannot be reached or its answer is lost: the request passes, counted or not.
FailOpen(k) ==
  /\ counter' \in {counter, [counter EXCEPT ![k] = Counted(k)]}
  /\ Passes(k)
  /\ spoilt' = [spoilt EXCEPT ![k] = seconds]

\* Redis evicts the key (allkeys-lru), or restarts without it.
EvictKey(k) ==
  /\ counter[k] # NoKey
  /\ counter' = [counter EXCEPT ![k] = NoKey]
  /\ spoilt' = [spoilt EXCEPT ![k] = seconds]
  /\ UNCHANGED recent

\* Time passes; a key at the end of its TTL is gone.
Tick ==
  /\ counter' = [k \in Actors |-> IF counter[k].ttl <= 1 THEN NoKey
                                  ELSE [counter[k] EXCEPT !.ttl = @ - 1]]
  /\ recent' = [k \in Actors |-> [i \in 0..(seconds - 1) |->
                                    IF i = 0 THEN 0 ELSE recent[k][i - 1]]]
  /\ spoilt' = [k \in Actors |-> IF spoilt[k] = 0 THEN 0 ELSE spoilt[k] - 1]

---------------------------------------------------------------------------
(* Properties.                                                             *)

\* Requests of k that passed in the last `seconds` ticks, and how many there are.
Recent(k) ==
  {p \in (0..(seconds - 1)) \X (1..Many) : p[2] <= recent[k][p[1]]}
Rate(k) == Cardinality(Recent(k))

\* rate_limit: no stretch of `seconds`, wherever it begins, lets through more than
\* twice the limit while Redis is well; and nobody is refused who has not had the
\* limit in the last `seconds`: trying on while refused does not keep one out.
RateIsKept ==
  [][\A k \in Actors :
       /\ Admit(k) /\ spoilt[k] = 0 => Rate(k)' <= 2 * times
       /\ Refuse(k) => Rate(k) >= times]_limits
============================================================================
