----------------------------- MODULE PushProofs -----------------------------
(***************************************************************************)
(* Theorems about Push, for any number of users, sockets, processes and    *)
(* messages.                                                               *)
(*                                                                         *)
(* The invariant says what a push owes while it runs: to every client of   *)
(* its process that has listed the messages without this one, the push     *)
(* still comes, because its user or its socket is among those to serve.    *)
(*                                                                         *)
(* The rate: what has passed of late is counted by the pairs of an age and *)
(* a number up to what passed at that age.  A key in force divides it into *)
(* what passed under the key and what passed before; each part keeps to    *)
(* the limit as long as Redis is well (Kept).                              *)
(***************************************************************************)
EXTENDS Push, FiniteSetTheorems, TLAPS

\* A request is somewhere, and a message that may be stored goes to everybody but
\* its sender.
CheckedInv ==
  \A m \in Messages :
    /\ pc[m] # "idle" => at[m] \in Processes
    /\ pc[m] = "checked" => todo[m] = Users \ {by[m]}

\* s has listed, and m is being pushed in its process by another user.
Concerns(m, s) ==
  sock[s] = "listed" /\ pc[m] = "stored" /\ at[m] = home[s] /\ by[m] # owner[s]

OwedInv ==
  \A s \in Sockets, m \in Messages :
    Concerns(m, s) => m \in shown[s] \/ owner[s] \in todo[m] \/ s \in copy[m]

\* The parts of TypeOK.
SendsOK ==
  /\ pc \in [Messages -> {"idle", "begun", "checked", "stored", "done", "lost"}]
  /\ by \in [Messages -> Actors \cup {Nobody}]
  /\ at \in [Messages -> Processes \cup {Nobody}]
  /\ todo \in [Messages -> SUBSET Users]
  /\ copy \in [Messages -> SUBSET Sockets]

SocketsOK ==
  /\ sock \in [Sockets -> {"none", "open", "listed", "gone", "closed"}]
  /\ home \in [Sockets -> Processes \cup {Nobody}]
  /\ registry \in [Processes -> SUBSET Sockets]
  /\ shown \in [Sockets -> SUBSET Messages]

RegistryOK ==
  \A p \in Processes, s \in Sockets :
    /\ s \in registry[p] => Running(s) /\ home[s] = p
    /\ Heard(s) /\ home[s] = p => s \in registry[p]

IInv == TypeOK /\ CheckedInv /\ OwedInv /\ PushLeavesNoGap

LEMMA Replaced ==
  ASSUME NEW S, NEW T, NEW f \in [S -> T], NEW a \in S, NEW v \in T
  PROVE  /\ [f EXCEPT ![a] = v] \in [S -> T]
         /\ \A b \in S : [f EXCEPT ![a] = v][b] = IF b = a THEN v ELSE f[b]
OBVIOUS

---------------------------------------------------------------------------
(* The counter.                                                            *)

Key == [count : 0..(times + 1), ttl : 0..seconds]

LEMMA SecondsAreThere == 0 \in 0..(seconds - 1) /\ seconds \in 0..seconds
BY LimitAssumption

LEMMA CountedIsKey ==
  ASSUME LimitTypeOK, NEW k \in Actors
  PROVE  Counted(k) \in Key /\ Counted(k).count # 0 /\ Counted(k).ttl # 0
BY LimitAssumption DEF LimitTypeOK, Counted, NoKey, AtMost, Key

LEMMA PassesTypes ==
  ASSUME LimitTypeOK, NEW k \in Actors, Passes(k)
  PROVE  recent' \in [Actors -> [0..(seconds - 1) -> 0..Many]]
<1>1. recent[k] \in [0..(seconds - 1) -> 0..Many] /\ recent[k][0] \in 0..Many
  BY SecondsAreThere DEF LimitTypeOK
<1>2. AtMost(recent[k][0] + 1, Many) \in 0..Many
  BY <1>1, LimitAssumption DEF AtMost, Many
<1>3. [recent[k] EXCEPT ![0] = AtMost(recent[k][0] + 1, Many)] \in [0..(seconds - 1) -> 0..Many]
  BY <1>1, <1>2, SecondsAreThere
<1> QED
  BY <1>3 DEF LimitTypeOK, Passes

LEMMA CountingTypes ==
  ASSUME LimitTypeOK, NEW k \in Actors,
         counter' \in {counter, [counter EXCEPT ![k] = Counted(k)]}
  PROVE  /\ counter' \in [Actors -> Key]
         /\ \A a \in Actors : counter'[a].count = 0 <=> counter'[a].ttl = 0
<1>1. counter \in [Actors -> Key]
  BY DEF LimitTypeOK, Key
<1>2. CASE counter' = counter
  BY <1>1, <1>2 DEF LimitTypeOK
<1>3. CASE counter' = [counter EXCEPT ![k] = Counted(k)]
  <2>1. /\ counter' \in [Actors -> Key]
        /\ \A a \in Actors : counter'[a] = IF a = k THEN Counted(k) ELSE counter[a]
    BY <1>1, <1>3, CountedIsKey, Replaced
  <2> QED
    BY <2>1, CountedIsKey DEF LimitTypeOK
<1> QED
  BY <1>2, <1>3

LEMMA AdmitTypes ==
  ASSUME LimitTypeOK, NEW k \in Actors, Admit(k)
  PROVE  LimitTypeOK'
<1>1. counter' = [counter EXCEPT ![k] = Counted(k)] /\ Passes(k) /\ spoilt' = spoilt
  BY DEF Admit
<1> QED
  BY <1>1, CountingTypes, PassesTypes DEF LimitTypeOK, Key

LEMMA FailOpenTypes ==
  ASSUME LimitTypeOK, NEW k \in Actors, FailOpen(k)
  PROVE  LimitTypeOK'
<1>1. /\ counter' \in {counter, [counter EXCEPT ![k] = Counted(k)]}
      /\ Passes(k)
      /\ spoilt' = [spoilt EXCEPT ![k] = seconds]
  BY DEF FailOpen
<1>2. spoilt' \in [Actors -> 0..seconds]
  BY <1>1, SecondsAreThere DEF LimitTypeOK
<1> QED
  BY <1>1, <1>2, CountingTypes, PassesTypes DEF LimitTypeOK, Key

LEMMA RefuseTypes ==
  ASSUME LimitTypeOK, NEW k \in Actors, Refuse(k)
  PROVE  LimitTypeOK'
<1>1. counter' = [counter EXCEPT ![k] = Counted(k)] /\ recent' = recent /\ spoilt' = spoilt
  BY DEF Refuse
<1> QED
  BY <1>1, CountingTypes DEF LimitTypeOK, Key

LEMMA EvictTypes ==
  ASSUME LimitTypeOK, NEW k \in Actors, EvictKey(k)
  PROVE  LimitTypeOK'
<1>1. NoKey \in Key /\ NoKey.count = 0 /\ NoKey.ttl = 0
  BY LimitAssumption DEF NoKey, Key
<1>2. counter \in [Actors -> Key]
  BY DEF LimitTypeOK, Key
<1>3. /\ counter' \in [Actors -> Key]
      /\ \A a \in Actors : counter'[a] = IF a = k THEN NoKey ELSE counter[a]
  BY <1>1, <1>2, Replaced DEF EvictKey
<1>4. spoilt' \in [Actors -> 0..seconds]
  BY SecondsAreThere DEF EvictKey, LimitTypeOK
<1> QED
  BY <1>1, <1>3, <1>4 DEF EvictKey, LimitTypeOK, Key

LEMMA TickTypes ==
  ASSUME LimitTypeOK, Tick
  PROVE  LimitTypeOK'
<1>1. ASSUME NEW k \in Actors
      PROVE  /\ counter'[k] \in Key
             /\ counter'[k].count = 0 <=> counter'[k].ttl = 0
  <2>1. counter[k] \in Key /\ (counter[k].count = 0 <=> counter[k].ttl = 0)
    BY DEF LimitTypeOK, Key
  <2>2. CASE counter[k].ttl <= 1
    BY <2>2, LimitAssumption DEF Tick, NoKey, Key
  <2>3. CASE ~(counter[k].ttl <= 1)
    <3>1. counter'[k] = [counter[k] EXCEPT !.ttl = counter[k].ttl - 1]
      BY <2>3 DEF Tick
    <3> QED
      BY <2>1, <2>3, <3>1, LimitAssumption DEF Key
  <2> QED
    BY <2>2, <2>3
<1>2. ASSUME NEW k \in Actors, NEW i \in 0..(seconds - 1)
      PROVE  (IF i = 0 THEN 0 ELSE recent[k][i - 1]) \in 0..Many
  BY LimitAssumption DEF LimitTypeOK, Many
<1>3. recent' \in [Actors -> [0..(seconds - 1) -> 0..Many]]
  BY <1>2 DEF Tick
<1>4. ASSUME NEW k \in Actors
      PROVE  (IF spoilt[k] = 0 THEN 0 ELSE spoilt[k] - 1) \in 0..seconds
  BY LimitAssumption DEF LimitTypeOK
<1>5. spoilt' \in [Actors -> 0..seconds]
  BY <1>4 DEF Tick
<1>6. counter' \in [Actors -> Key]
  BY <1>1 DEF Tick
<1> QED
  BY <1>1, <1>3, <1>5, <1>6 DEF LimitTypeOK, Key

LEMMA LimitUnchanged == ASSUME LimitTypeOK, UNCHANGED limits PROVE LimitTypeOK'
BY DEF LimitTypeOK, limits
---------------------------------------------------------------------------
(* How many requests have passed.                                          *)

Ages == 0..(seconds - 1)
Histories == [Ages -> 0..Many]

\* The requests of a history r at the ages I, and how many they are.
PassedAt(r, I) == {p \in I \X (1..Many) : p[2] <= r[p[1]]}
Num(r, I) == Cardinality(PassedAt(r, I))

LEMMA PassedFinite ==
  ASSUME NEW r, NEW I \in SUBSET Ages
  PROVE  IsFiniteSet(PassedAt(r, I)) /\ Num(r, I) \in Nat
<1>1. IsFiniteSet(Ages) /\ IsFiniteSet(1..Many)
  BY LimitAssumption, FS_Interval DEF Ages, Many
<1>2. IsFiniteSet(I)
  BY <1>1, FS_Subset
<1>3. IsFiniteSet(I \X (1..Many))
  BY <1>1, <1>2, FS_Product
<1>4. PassedAt(r, I) \subseteq I \X (1..Many)
  BY DEF PassedAt
<1>5. IsFiniteSet(PassedAt(r, I))
  BY <1>3, <1>4, FS_Subset
<1> QED
  BY <1>5, FS_CardinalityType DEF Num

LEMMA NumGrows ==
  ASSUME NEW r, NEW I \in SUBSET Ages, NEW J \in SUBSET I
  PROVE  Num(r, J) <= Num(r, I)
<1>1. PassedAt(r, J) \subseteq PassedAt(r, I)
  BY DEF PassedAt
<1> QED
  BY <1>1, PassedFinite, FS_Subset DEF Num

LEMMA NumSplits ==
  ASSUME NEW r, NEW I \in SUBSET Ages, NEW J
  PROVE  Num(r, I) = Num(r, I \cap J) + Num(r, I \ J)
<1> DEFINE A == PassedAt(r, I \cap J)
           B == PassedAt(r, I \ J)
<1>1. A \cup B = PassedAt(r, I) /\ A \cap B = {}
  BY DEF PassedAt
<1>2. IsFiniteSet(A) /\ IsFiniteSet(B) /\ Cardinality(A) \in Nat /\ Cardinality(B) \in Nat
  <2>1. I \cap J \in SUBSET Ages /\ I \ J \in SUBSET Ages
    OBVIOUS
  <2> QED
    BY <2>1, PassedFinite DEF Num
<1> HIDE DEF A, B
<1>3. Cardinality(A \cup B) = Cardinality(A) + Cardinality(B) - Cardinality(A \cap B)
  BY <1>2, FS_Union
<1>4. Cardinality({}) = 0
  BY FS_EmptySet
<1>5. Cardinality(A \cap B) = 0
  BY <1>1, <1>4, Zenon
<1>6. Cardinality(A \cup B) = Cardinality(A) + Cardinality(B)
  BY <1>2, <1>3, <1>5
<1> QED
  BY <1>1, <1>6 DEF Num, A, B

\* A request passes.
LEMMA NumCounts ==
  ASSUME NEW r \in Histories, NEW s, s = [r EXCEPT ![0] = AtMost(@ + 1, Many)],
         NEW I \in SUBSET Ages
  PROVE  /\ s \in Histories
         /\ Num(r, I) <= Num(s, I)
         /\ Num(s, I) <= Num(r, I) + 1
         /\ 0 \notin I => Num(s, I) = Num(r, I)
         /\ 0 \in I => Num(s, I) = Num(r, I) + 1 \/ Num(s, I) >= times
<1>0. 0 \in Ages /\ Many \in Nat /\ Many > 0 /\ Many > times /\ times \in Nat
  BY LimitAssumption DEF Ages, Many
<1>1. r[0] \in 0..Many /\ \A i \in Ages : r[i] \in 0..Many
  BY <1>0 DEF Histories
<1>2. /\ \A i \in Ages : i # 0 => s[i] = r[i]
      /\ s[0] = IF r[0] < Many THEN r[0] + 1 ELSE r[0]
  BY <1>0, <1>1 DEF Histories, AtMost
<1>3. s \in Histories
  <2>1. AtMost(r[0] + 1, Many) \in 0..Many
    BY <1>0, <1>1 DEF AtMost
  <2> QED
    BY <2>1 DEF Histories
<1>4. Num(r, I) \in Nat /\ Num(s, I) \in Nat /\ IsFiniteSet(PassedAt(r, I))
  BY PassedFinite
<1>5. CASE 0 \in I /\ r[0] < Many
  <2> DEFINE e == <<0, r[0] + 1>>
  <2>1. e \notin PassedAt(r, I)
    BY <1>1 DEF PassedAt
  <2>2. PassedAt(s, I) = PassedAt(r, I) \cup {e}
    <3>1. e \in PassedAt(s, I)
      BY <1>0, <1>1, <1>2, <1>5 DEF PassedAt
    <3>2. ASSUME NEW p \in I \X (1..Many), p # e
          PROVE  p[2] <= s[p[1]] <=> p[2] <= r[p[1]]
      <4>1. PICK i \in I, n \in 1..Many : p = <<i, n>>
        BY <3>2
      <4>2. CASE i = 0
        BY <1>0, <1>1, <1>2, <1>5, <3>2, <4>1, <4>2
      <4>3. CASE i # 0
        BY <1>2, <4>1, <4>3
      <4> QED
        BY <4>2, <4>3
    <3>3. \A p \in I \X (1..Many) :
            p # e => (p \in PassedAt(s, I) <=> p \in PassedAt(r, I))
      BY <3>2 DEF PassedAt
    <3>4. PassedAt(s, I) \subseteq I \X (1..Many) /\ PassedAt(r, I) \subseteq I \X (1..Many)
      BY DEF PassedAt
    <3> HIDE DEF e
    <3> QED
      BY <3>1, <3>3, <3>4
  <2> HIDE DEF e
  <2>3. Cardinality(PassedAt(r, I) \cup {e}) = Cardinality(PassedAt(r, I)) + 1
    BY <1>4, <2>1, FS_AddElement
  <2>4. Num(s, I) = Num(r, I) + 1
    BY <2>2, <2>3, Zenon DEF Num
  <2> QED
    BY <1>3, <1>4, <1>5, <2>4
<1>6. CASE 0 \notin I \/ ~(r[0] < Many)
  <2>1. \A i \in I : s[i] = r[i]
    BY <1>2, <1>6
  <2>2. PassedAt(s, I) = PassedAt(r, I)
    BY <2>1 DEF PassedAt
  <2>3. ASSUME 0 \in I PROVE Num(r, I) >= times
    <3>1. r[0] = Many
      BY <1>0, <1>1, <1>6, <2>3
    <3>2. \A n \in 1..Many : <<0, n>> \in PassedAt(r, {0})
      BY <1>0, <3>1 DEF PassedAt
    <3>3. Num(r, {0}) >= Many
      <4> DEFINE g == [n \in 1..Many |-> <<0, n>>]
      <4>1. g \in Injection(1..Many, PassedAt(r, {0}))
        BY <3>2 DEF Injection, IsInjective
      <4>2. IsFiniteSet(PassedAt(r, {0})) /\ Num(r, {0}) \in Nat
        BY <1>0, PassedFinite
      <4>3. Cardinality(1..Many) <= Cardinality(PassedAt(r, {0}))
        BY <4>1, <4>2, FS_Injection
      <4>4. Cardinality(1..Many) = Many
        BY <1>0, FS_Interval
      <4> QED
        BY <4>3, <4>4 DEF Num
    <3>4. Num(r, {0}) <= Num(r, I) /\ Num(r, {0}) \in Nat
      BY <1>0, <2>3, NumGrows, PassedFinite
    <3> QED
      BY <1>0, <1>4, <3>3, <3>4
  <2> QED
    BY <1>3, <1>4, <1>6, <2>2, <2>3 DEF Num
<1> QED
  BY <1>5, <1>6

\* A tick: what passed is older by one.
LEMMA NumAges ==
  ASSUME NEW r \in Histories,
         NEW s, s = [i \in Ages |-> IF i = 0 THEN 0 ELSE r[i - 1]],
         NEW I \in SUBSET Ages, NEW J \in SUBSET Ages
  PROVE  /\ s \in Histories
         /\ (\A i \in Ages : i + 1 \in J => i \in I) => Num(s, J) <= Num(r, I)
         /\ (\A i \in I : i + 1 \in J) => Num(r, I) <= Num(s, J)
<1>0. seconds \in Nat /\ seconds > 0 /\ Many \in Nat
  BY LimitAssumption DEF Many
<1>1. \A i \in Ages : r[i] \in 0..Many
  BY DEF Histories
<1>2. \A i \in Ages : i # 0 => i - 1 \in Ages /\ s[i] = r[i - 1]
  BY <1>0 DEF Ages
<1>3. 0 \in Ages => s[0] = 0
  OBVIOUS
<1>4. s \in Histories
  <2>1. \A i \in Ages : (IF i = 0 THEN 0 ELSE r[i - 1]) \in 0..Many
    BY <1>0, <1>1, <1>2
  <2> QED
    BY <2>1 DEF Histories
<1>5. IsFiniteSet(PassedAt(r, I)) /\ IsFiniteSet(PassedAt(s, J))
  BY PassedFinite
<1>6. ASSUME \A i \in Ages : i + 1 \in J => i \in I PROVE Num(s, J) <= Num(r, I)
  <2> DEFINE g == [p \in PassedAt(s, J) |-> <<p[1] - 1, p[2]>>]
  <2>1. ASSUME NEW p \in PassedAt(s, J)
        PROVE  /\ p = <<p[1], p[2]>> /\ p[1] \in Int
               /\ <<p[1] - 1, p[2]>> \in PassedAt(r, I)
    <3>1. p[1] \in J /\ p[2] \in 1..Many /\ p[2] <= s[p[1]] /\ p = <<p[1], p[2]>>
      BY DEF PassedAt
    <3>2. p[1] # 0
      BY <1>0, <1>3, <3>1
    <3>3. p[1] - 1 \in Ages /\ s[p[1]] = r[p[1] - 1] /\ p[1] \in Int
      BY <1>2, <3>1, <3>2 DEF Ages
    <3>4. p[1] - 1 \in I
      BY <1>6, <3>1, <3>3
    <3> QED
      BY <3>1, <3>3, <3>4 DEF PassedAt
  <2>2. \A p, q \in PassedAt(s, J) : g[p] = g[q] => p = q
    BY <2>1
  <2>3. g \in Injection(PassedAt(s, J), PassedAt(r, I))
    BY <2>1, <2>2 DEF Injection, IsInjective
  <2> QED
    BY <1>5, <2>3, FS_Injection DEF Num
<1>7. ASSUME \A i \in I : i + 1 \in J PROVE Num(r, I) <= Num(s, J)
  <2> DEFINE g == [p \in PassedAt(r, I) |-> <<p[1] + 1, p[2]>>]
  <2>1. ASSUME NEW p \in PassedAt(r, I)
        PROVE  /\ p = <<p[1], p[2]>> /\ p[1] \in Int
               /\ <<p[1] + 1, p[2]>> \in PassedAt(s, J)
    <3>1. p[1] \in I /\ p[2] \in 1..Many /\ p[2] <= r[p[1]] /\ p = <<p[1], p[2]>>
      BY DEF PassedAt
    <3>2. p[1] + 1 \in J /\ p[1] + 1 # 0 /\ (p[1] + 1) - 1 = p[1]
      BY <1>7, <3>1 DEF Ages
    <3>3. s[p[1] + 1] = r[p[1]]
      BY <1>2, <3>2
    <3>4. p[1] \in Int
      BY <3>1 DEF Ages
    <3>5. <<p[1] + 1, p[2]>> \in PassedAt(s, J)
      BY <3>1, <3>2, <3>3 DEF PassedAt
    <3> QED
      BY <3>1, <3>4, <3>5
  <2>2. \A p, q \in PassedAt(r, I) : g[p] = g[q] => p = q
    BY <2>1
  <2>3. g \in Injection(PassedAt(r, I), PassedAt(s, J))
    BY <2>1, <2>2 DEF Injection, IsInjective
  <2> QED
    BY <1>5, <2>3, FS_Injection DEF Num
<1> QED
  BY <1>4, <1>6, <1>7

LEMMA NumOfNone == \A r : Num(r, {}) = 0
<1>1. \A r : PassedAt(r, {}) = {}
  BY DEF PassedAt
<1> QED
  BY <1>1, FS_EmptySet DEF Num

---------------------------------------------------------------------------
(* The rate of one actor.                                                  *)

\* The ages since the last fault, z ticks of which still bear on the rate, and the
\* ages since the key began that has x ticks to live.
Young(z) == {i \in Ages : i < seconds - z}
Since(x) == {i \in Ages : i <= seconds - x}

\* Kept(r, n, x, z): of an actor with the history r and a key of count n that has x
\* ticks to live.  Without faults no more has passed under the key than it counts
\* and the limit allows, and no more than the limit before; as much has passed as it
\* counts, or the limit.
Kept(r, n, x, z) ==
  /\ x = 0 => /\ Num(r, Young(z)) <= times
              /\ 0 \in Young(z) => r[0] = 0
  /\ x > 0 => /\ Num(r, Young(z) \cap Since(x)) <= n
              /\ Num(r, Young(z) \cap Since(x)) <= times
              /\ Num(r, Young(z) \ Since(x)) <= times
              /\ Num(r, Since(x)) >= n \/ Num(r, Since(x)) >= times

LEMMA AgesTypes ==
  ASSUME NEW x, NEW z
  PROVE  /\ Young(z) \in SUBSET Ages /\ Since(x) \in SUBSET Ages
         /\ Young(z) \cap Since(x) \in SUBSET Ages /\ Young(z) \ Since(x) \in SUBSET Ages
         /\ \A r : /\ Num(r, Young(z)) \in Nat /\ Num(r, Since(x)) \in Nat
                   /\ Num(r, Young(z) \cap Since(x)) \in Nat
                   /\ Num(r, Young(z) \ Since(x)) \in Nat
<1>1. /\ Young(z) \in SUBSET Ages /\ Since(x) \in SUBSET Ages
      /\ Young(z) \cap Since(x) \in SUBSET Ages /\ Young(z) \ Since(x) \in SUBSET Ages
  BY DEF Young, Since
<1> QED
  BY <1>1, PassedFinite

LEMMA SinceNow ==
  ASSUME NEW x \in 0..seconds
  PROVE  0 \in Ages /\ 0 \in Since(x) /\ Since(seconds) = {0} /\ Young(seconds) = {}
                    /\ Young(0) = Ages
BY LimitAssumption DEF Since, Young, Ages

LEMMA KeptWhenAdmitted ==
  ASSUME NEW r \in Histories, NEW n \in 0..(times + 1), NEW x \in 0..seconds,
         NEW z \in 0..seconds, n = 0 <=> x = 0, Kept(r, n, x, z),
         NEW s, s = [r EXCEPT ![0] = AtMost(@ + 1, Many)],
         NEW m, m = AtMost(n + 1, times + 1), m <= times,
         NEW y, y = IF x = 0 THEN seconds ELSE x
  PROVE  Kept(s, m, y, z)
<1>0. times \in Nat /\ times > 0 /\ seconds \in Nat /\ seconds > 0
  BY LimitAssumption
<1>1. m = n + 1 /\ y \in 0..seconds /\ y > 0
  BY <1>0 DEF AtMost
<1> DEFINE A == Young(z) \cap Since(y)
           B == Young(z) \ Since(y)
           C == Since(y)
<1>2. /\ A \in SUBSET Ages /\ B \in SUBSET Ages /\ C \in SUBSET Ages
      /\ Num(r, A) \in Nat /\ Num(r, B) \in Nat /\ Num(r, C) \in Nat
      /\ Num(s, A) \in Nat /\ Num(s, B) \in Nat /\ Num(s, C) \in Nat
  BY AgesTypes
<1>3. 0 \in C /\ 0 \notin B
  BY <1>1, SinceNow
<1>4. /\ Num(s, A) <= Num(r, A) + 1
      /\ Num(s, B) = Num(r, B)
      /\ Num(s, C) = Num(r, C) + 1 \/ Num(s, C) >= times
      /\ Num(r, C) <= Num(s, C)
  BY <1>2, <1>3, NumCounts
<1>5. /\ Num(r, A) <= n /\ Num(r, B) <= times
      /\ Num(r, C) >= n \/ Num(r, C) >= times
  <2>1. CASE x > 0
    BY <1>0, <2>1 DEF Kept
  <2>2. CASE x = 0
    <3>1. C = {0} /\ n = 0
      BY <2>2, SinceNow
    <3>2. Num(r, B) <= times
      <4>1. Num(r, B) <= Num(r, Young(z)) /\ Num(r, Young(z)) \in Nat
        BY AgesTypes, NumGrows
      <4>2. Num(r, Young(z)) <= times
        BY <2>2 DEF Kept
      <4> QED
        BY <1>0, <1>2, <4>1, <4>2
    <3>3. PassedAt(r, A) = {}
      <4>1. \A i \in A : r[i] = 0
        BY <2>2, <3>1 DEF Kept
      <4> QED
        BY <4>1 DEF PassedAt
    <3>4. Num(r, A) = 0
      BY <3>3, FS_EmptySet DEF Num
    <3> QED
      BY <1>2, <3>1, <3>2, <3>4
  <2> QED
    BY <1>0, <2>1, <2>2
<1> HIDE DEF A, B, C
<1>6. /\ Num(s, A) <= m /\ Num(s, A) <= times /\ Num(s, B) <= times
      /\ Num(s, C) >= m \/ Num(s, C) >= times
  BY <1>0, <1>1, <1>2, <1>4, <1>5
<1>7. Kept(s, m, y, z)
  BY <1>0, <1>1, <1>6 DEF Kept, A, B, C
<1> QED
  BY <1>7

\* Under the key and before it at most the limit each.
LEMMA KeptIsRate ==
  ASSUME NEW r, NEW n, NEW x \in 0..seconds, x > 0, Kept(r, n, x, 0)
  PROVE  Num(r, Ages) <= 2 * times
<1>0. times \in Nat
  BY LimitAssumption
<1>1. Ages = Young(0) /\ Ages \in SUBSET Ages
  BY SinceNow
<1>2. \A J : Num(r, Ages) = Num(r, Ages \cap J) + Num(r, Ages \ J)
  BY <1>1, NumSplits
<1>3. /\ Num(r, Young(0) \cap Since(x)) <= times
      /\ Num(r, Young(0) \ Since(x)) <= times
  BY DEF Kept
<1>4. Num(r, Ages \cap Since(x)) <= times /\ Num(r, Ages \ Since(x)) <= times
  BY <1>1, <1>3
<1>5. Num(r, Ages \cap Since(x)) \in Nat /\ Num(r, Ages \ Since(x)) \in Nat
  <2>1. Ages \cap Since(x) \in SUBSET Ages /\ Ages \ Since(x) \in SUBSET Ages
    OBVIOUS
  <2> QED
    BY <2>1, PassedFinite
<1>6. PICK c, a, b : /\ c = Num(r, Ages)
                     /\ a = Num(r, Ages \cap Since(x)) /\ b = Num(r, Ages \ Since(x))
  OBVIOUS
<1>7. c = a + b
  BY <1>2, <1>6
<1>8. a \in Nat /\ b \in Nat /\ a <= times /\ b <= times
  BY <1>4, <1>5, <1>6
<1>9. c <= 2 * times
  BY <1>0, <1>7, <1>8
<1> QED
  BY <1>6, <1>9

LEMMA KeptWhenRefused ==
  ASSUME NEW r \in Histories, NEW n \in 0..(times + 1), NEW x \in 0..seconds,
         NEW z \in 0..seconds, n = 0 <=> x = 0, Kept(r, n, x, z),
         NEW m, m = AtMost(n + 1, times + 1), m > times
  PROVE  x > 0 /\ Kept(r, m, x, z) /\ Num(r, Ages) >= times
<1>0. times \in Nat /\ times > 0 /\ seconds \in Nat
  BY LimitAssumption
<1>1. n >= times /\ x > 0 /\ m >= n /\ m \in Nat
  BY <1>0 DEF AtMost
<1> DEFINE A == Young(z) \cap Since(x)
           B == Young(z) \ Since(x)
           C == Since(x)
<1>2. Num(r, A) \in Nat /\ Num(r, B) \in Nat /\ Num(r, C) \in Nat /\ C \in SUBSET Ages
  BY AgesTypes
<1>3. /\ Num(r, A) <= n /\ Num(r, A) <= times /\ Num(r, B) <= times
      /\ Num(r, C) >= n \/ Num(r, C) >= times
  BY <1>1 DEF Kept
<1> HIDE DEF A, B, C
<1>4. /\ Num(r, A) <= m /\ Num(r, C) >= times
  BY <1>0, <1>1, <1>2, <1>3
<1>5. Kept(r, m, x, z)
  BY <1>0, <1>1, <1>3, <1>4 DEF Kept, A, B, C
<1>6. Num(r, Ages) >= times
  <2>1. Num(r, C) <= Num(r, Ages) /\ Num(r, Ages) \in Nat
    BY <1>2, NumGrows, PassedFinite
  <2> QED
    BY <1>0, <1>2, <1>4, <2>1
<1> QED
  BY <1>1, <1>5, <1>6

\* After a fault nothing is young.
LEMMA KeptAfterFault ==
  ASSUME NEW r, NEW n \in 0..(times + 1), NEW x \in 0..seconds,
         x > 0 => Num(r, Since(x)) >= n \/ Num(r, Since(x)) >= times
  PROVE  Kept(r, n, x, seconds)
<1>1. Young(seconds) = {}
  BY SinceNow
<1>2. Young(seconds) \cap Since(x) = {} /\ Young(seconds) \ Since(x) = {}
  BY <1>1
<1>3. 0 <= n /\ 0 <= times
  BY LimitAssumption
<1> QED
  BY <1>1, <1>2, <1>3, NumOfNone DEF Kept

LEMMA KeptWhenOpen ==
  ASSUME NEW r \in Histories, NEW n \in 0..(times + 1), NEW x \in 0..seconds,
         NEW z \in 0..seconds, n = 0 <=> x = 0, Kept(r, n, x, z),
         NEW s, s = [r EXCEPT ![0] = AtMost(@ + 1, Many)],
         NEW m, m = AtMost(n + 1, times + 1),
         NEW y, y = IF x = 0 THEN seconds ELSE x
  PROVE  Kept(s, n, x, seconds) /\ Kept(s, m, y, seconds)
<1>0. times \in Nat /\ times > 0 /\ seconds \in Nat /\ seconds > 0
  BY LimitAssumption
<1>1. /\ m \in 0..(times + 1) /\ m <= n + 1 /\ y \in 0..seconds /\ y > 0
  BY <1>0 DEF AtMost
<1>2. /\ Num(r, Since(x)) \in Nat /\ Num(s, Since(x)) \in Nat
      /\ Num(r, Since(y)) \in Nat /\ Num(s, Since(y)) \in Nat
  BY AgesTypes
<1>3. /\ Num(r, Since(x)) <= Num(s, Since(x))
      /\ Num(s, Since(y)) = Num(r, Since(y)) + 1 \/ Num(s, Since(y)) >= times
      /\ Num(r, Since(y)) <= Num(s, Since(y))
  BY <1>1, SinceNow, AgesTypes, NumCounts
<1>4. x > 0 => Num(r, Since(x)) >= n \/ Num(r, Since(x)) >= times
  BY DEF Kept
<1>5. x > 0 => Num(s, Since(x)) >= n \/ Num(s, Since(x)) >= times
  BY <1>0, <1>2, <1>3, <1>4
<1>6. Num(s, Since(y)) >= m \/ Num(s, Since(y)) >= times
  <2>1. CASE x > 0
    BY <1>0, <1>1, <1>2, <1>3, <1>4, <2>1
  <2>2. CASE x = 0
    BY <1>0, <1>1, <1>2, <1>3, <2>2
  <2> QED
    BY <2>1, <2>2
<1> QED
  BY <1>1, <1>5, <1>6, KeptAfterFault

LEMMA KeptAsTimePasses ==
  ASSUME NEW r \in Histories, NEW n \in 0..(times + 1), NEW x \in 0..seconds,
         NEW z \in 0..seconds, n = 0 <=> x = 0, Kept(r, n, x, z),
         NEW s, s = [i \in Ages |-> IF i = 0 THEN 0 ELSE r[i - 1]],
         NEW w, w = IF z = 0 THEN 0 ELSE z - 1
  PROVE  /\ x <= 1 => Kept(s, 0, 0, w)
         /\ x > 1 => Kept(s, n, x - 1, w)
<1>0. times \in Nat /\ times > 0 /\ seconds \in Nat /\ seconds > 0 /\ 0 \in Ages
  BY LimitAssumption DEF Ages
<1>1. \A i \in Ages : i + 1 \in Young(w) => i \in Young(z)
  BY <1>0 DEF Young, Ages
<1>2. s[0] = 0
  BY <1>0
<1>3. CASE x <= 1
  <2>1. x = 1 \/ x = 0
    BY <1>0, <1>3
  <2>2. Num(s, Young(w)) <= times
    <3>1. CASE x = 0
      <4>1. Num(s, Young(w)) <= Num(r, Young(z))
        BY <1>1, AgesTypes, NumAges
      <4>2. Num(r, Young(z)) <= times
        BY <3>1 DEF Kept
      <4>3. Num(s, Young(w)) \in Nat /\ Num(r, Young(z)) \in Nat
        BY AgesTypes
      <4> QED
        BY <1>0, <4>1, <4>2, <4>3
    <3>2. CASE x = 1
      <4>1. \A i \in Ages : i + 1 \in Young(w) => i \in Young(z) \cap Since(1)
        BY <1>0, <1>1 DEF Since, Young, Ages
      <4>2. Num(s, Young(w)) <= Num(r, Young(z) \cap Since(1))
        BY <4>1, AgesTypes, NumAges
      <4>3. Num(r, Young(z) \cap Since(1)) <= times
        BY <3>2 DEF Kept
      <4>4. Num(s, Young(w)) \in Nat /\ Num(r, Young(z) \cap Since(1)) \in Nat
        BY AgesTypes
      <4> QED
        BY <1>0, <4>2, <4>3, <4>4
    <3> QED
      BY <2>1, <3>1, <3>2
  <2> QED
    BY <1>0, <1>2, <1>3, <2>2 DEF Kept
<1>4. CASE x > 1
  <2> DEFINE A == Young(z) \cap Since(x)
             B == Young(z) \ Since(x)
             C == Since(x)
             E == Young(w) \cap Since(x - 1)
             F == Young(w) \ Since(x - 1)
             G == Since(x - 1)
  <2>1. /\ A \in SUBSET Ages /\ B \in SUBSET Ages /\ C \in SUBSET Ages
        /\ E \in SUBSET Ages /\ F \in SUBSET Ages /\ G \in SUBSET Ages
        /\ Num(r, A) \in Nat /\ Num(r, B) \in Nat /\ Num(r, C) \in Nat
        /\ Num(s, E) \in Nat /\ Num(s, F) \in Nat /\ Num(s, G) \in Nat
    BY AgesTypes
  <2>2. \A i \in Ages : (i + 1 \in Ages => (i \in Since(x) <=> i + 1 \in Since(x - 1)))
    BY <1>0, <1>4 DEF Since, Ages
  <2>3. \A i \in Since(x) : i + 1 \in Since(x - 1)
    BY <1>0, <1>4 DEF Since, Ages
  <2>4. \A i \in Ages : (i + 1 \in E => i \in A) /\ (i + 1 \in F => i \in B)
    BY <1>1, <2>1, <2>2
  <2>5. Num(s, E) <= Num(r, A) /\ Num(s, F) <= Num(r, B) /\ Num(r, C) <= Num(s, G)
    <3> HIDE DEF A, B, C, E, F, G
    <3>1. \A i \in C : i + 1 \in G
      BY <2>3 DEF C, G
    <3> QED
      BY <2>1, <2>4, <3>1, NumAges
  <2>6. /\ Num(r, A) <= n /\ Num(r, A) <= times /\ Num(r, B) <= times
        /\ Num(r, C) >= n \/ Num(r, C) >= times
    BY <1>4 DEF Kept
  <2> HIDE DEF A, B, C, E, F, G
  <2>7. /\ Num(s, E) <= n /\ Num(s, E) <= times /\ Num(s, F) <= times
        /\ Num(s, G) >= n \/ Num(s, G) >= times
    BY <1>0, <2>1, <2>5, <2>6
  <2>8. x - 1 # 0 /\ x - 1 > 0
    BY <1>4
  <2>9. Kept(s, n, x - 1, w)
    BY <2>7, <2>8 DEF Kept, E, F, G
  <2> QED
    BY <1>4, <2>9
<1> QED
  BY <1>3, <1>4

---------------------------------------------------------------------------
(* The rates of all.                                                       *)

RateInv ==
  \A k \in Actors : Kept(recent[k], counter[k].count, counter[k].ttl, spoilt[k])

LEMMA RateIsNum == \A k : Rate(k) = Num(recent[k], Ages)
BY DEF Rate, Recent, Num, PassedAt, Ages

\* What the lemmas above ask of an actor.
LEMMA ActorTypes ==
  ASSUME LimitTypeOK, NEW k \in Actors
  PROVE  /\ recent[k] \in Histories
         /\ counter[k] = [count |-> counter[k].count, ttl |-> counter[k].ttl]
         /\ counter[k].count \in 0..(times + 1)
         /\ counter[k].ttl \in 0..seconds
         /\ spoilt[k] \in 0..seconds
         /\ counter[k].count = 0 <=> counter[k].ttl = 0
BY DEF LimitTypeOK, Histories, Ages

LEMMA CountedKey ==
  ASSUME LimitTypeOK, NEW k \in Actors
  PROVE  /\ Counted(k).count = AtMost(counter[k].count + 1, times + 1)
         /\ Counted(k).ttl = IF counter[k].ttl = 0 THEN seconds ELSE counter[k].ttl
<1>1. counter[k] = NoKey <=> counter[k].ttl = 0
  <2>1. /\ counter[k] \in [count : 0..(times + 1), ttl : 0..seconds]
        /\ counter[k].count = 0 <=> counter[k].ttl = 0
    BY DEF LimitTypeOK
  <2> QED
    BY <2>1 DEF NoKey
<1> QED
  BY <1>1 DEF Counted

LEMMA CounterAfter ==
  ASSUME LimitTypeOK, NEW k \in Actors, NEW v, counter' = [counter EXCEPT ![k] = v]
  PROVE  \A a \in Actors : counter'[a] = IF a = k THEN v ELSE counter[a]
BY DEF LimitTypeOK

LEMMA PassesAfter ==
  ASSUME LimitTypeOK, NEW k \in Actors, Passes(k)
  PROVE  /\ recent'[k] = [recent[k] EXCEPT ![0] = AtMost(@ + 1, Many)]
         /\ \A a \in Actors : a # k => recent'[a] = recent[a]
BY DEF LimitTypeOK, Passes

LEMMA AdmitKeeps ==
  ASSUME LimitTypeOK, RateInv, NEW k \in Actors, Admit(k)
  PROVE  RateInv' /\ (spoilt[k] = 0 => Rate(k)' <= 2 * times)
<1>1. \A a \in Actors : counter'[a] = IF a = k THEN Counted(k) ELSE counter[a]
  BY CounterAfter DEF Admit
<1>2. /\ recent'[k] = [recent[k] EXCEPT ![0] = AtMost(@ + 1, Many)]
      /\ \A a \in Actors : a # k => recent'[a] = recent[a]
  BY PassesAfter DEF Admit
<1>3. spoilt' = spoilt /\ Counted(k).count <= times
  BY <1>1 DEF Admit
<1>4. Kept(recent[k], counter[k].count, counter[k].ttl, spoilt[k])
  BY DEF RateInv
<1>5. /\ Kept(recent'[k], Counted(k).count, Counted(k).ttl, spoilt[k])
      /\ spoilt[k] = 0 => Num(recent'[k], Ages) <= 2 * times
  <2>1. PICK r, n, x, z :
          r = recent[k] /\ n = counter[k].count /\ x = counter[k].ttl /\ z = spoilt[k]
    OBVIOUS
  <2>2. PICK s, m, y : s = recent'[k] /\ m = Counted(k).count /\ y = Counted(k).ttl
    OBVIOUS
  <2>3. /\ r \in Histories /\ n \in 0..(times + 1) /\ x \in 0..seconds /\ z \in 0..seconds
        /\ n = 0 <=> x = 0
    BY <2>1, ActorTypes
  <2>4. /\ m = AtMost(n + 1, times + 1) /\ m <= times
        /\ y = IF x = 0 THEN seconds ELSE x
    BY <1>3, <2>1, <2>2, CountedKey
  <2>5. Kept(r, n, x, z) /\ s = [r EXCEPT ![0] = AtMost(@ + 1, Many)]
    BY <1>2, <1>4, <2>1, <2>2
  <2>6. Kept(s, m, y, z)
    BY <2>3, <2>4, <2>5, KeptWhenAdmitted
  <2>7. y \in 0..seconds /\ y > 0
    BY <2>3, <2>4, LimitAssumption
  <2>8. z = 0 => Num(s, Ages) <= 2 * times
    BY <2>6, <2>7, KeptIsRate
  <2> QED
    BY <2>1, <2>2, <2>6, <2>8
<1>6. RateInv'
  BY <1>1, <1>2, <1>3, <1>5 DEF RateInv
<1>7. Rate(k)' = Num(recent'[k], Ages)
  BY DEF Rate, Recent, Num, PassedAt, Ages
<1> QED
  BY <1>5, <1>6, <1>7

LEMMA RefuseKeeps ==
  ASSUME LimitTypeOK, RateInv, NEW k \in Actors, Refuse(k)
  PROVE  RateInv' /\ Rate(k) >= times
<1>1. \A a \in Actors : counter'[a] = IF a = k THEN Counted(k) ELSE counter[a]
  BY CounterAfter DEF Refuse
<1>2. recent' = recent /\ spoilt' = spoilt /\ Counted(k).count > times
  BY <1>1 DEF Refuse
<1>3. Kept(recent[k], counter[k].count, counter[k].ttl, spoilt[k])
  BY DEF RateInv
<1>4. /\ counter[k].ttl > 0
      /\ Kept(recent[k], Counted(k).count, counter[k].ttl, spoilt[k])
      /\ Num(recent[k], Ages) >= times
  <2>1. PICK r, n, x, z :
          r = recent[k] /\ n = counter[k].count /\ x = counter[k].ttl /\ z = spoilt[k]
    OBVIOUS
  <2>2. PICK m : m = Counted(k).count
    OBVIOUS
  <2>3. /\ r \in Histories /\ n \in 0..(times + 1) /\ x \in 0..seconds /\ z \in 0..seconds
        /\ n = 0 <=> x = 0
    BY <2>1, ActorTypes
  <2>4. m = AtMost(n + 1, times + 1) /\ m > times
    BY <1>2, <2>1, <2>2, CountedKey
  <2>5. Kept(r, n, x, z)
    BY <1>3, <2>1
  <2>6. x > 0 /\ Kept(r, m, x, z) /\ Num(r, Ages) >= times
    BY <2>3, <2>4, <2>5, KeptWhenRefused
  <2> QED
    BY <2>1, <2>2, <2>6
<1>5. Counted(k).ttl = counter[k].ttl
  BY <1>4, ActorTypes, CountedKey
<1>6. RateInv'
  BY <1>1, <1>2, <1>4, <1>5 DEF RateInv
<1> QED
  BY <1>4, <1>6, RateIsNum

LEMMA SpoiltAfter ==
  ASSUME LimitTypeOK, NEW k \in Actors, spoilt' = [spoilt EXCEPT ![k] = seconds]
  PROVE  \A a \in Actors : spoilt'[a] = IF a = k THEN seconds ELSE spoilt[a]
BY DEF LimitTypeOK

LEMMA FailOpenKeeps ==
  ASSUME LimitTypeOK, RateInv, NEW k \in Actors, FailOpen(k)
  PROVE  RateInv'
<1>1. /\ \A a \in Actors : a # k => counter'[a] = counter[a]
      /\ counter'[k] \in {counter[k], Counted(k)}
  BY CounterAfter DEF FailOpen
<1>2. /\ recent'[k] = [recent[k] EXCEPT ![0] = AtMost(@ + 1, Many)]
      /\ \A a \in Actors : a # k => recent'[a] = recent[a]
  BY PassesAfter DEF FailOpen
<1>3. \A a \in Actors : spoilt'[a] = IF a = k THEN seconds ELSE spoilt[a]
  BY SpoiltAfter DEF FailOpen
<1>4. Kept(recent[k], counter[k].count, counter[k].ttl, spoilt[k])
  BY DEF RateInv
<1>5. /\ Kept(recent'[k], counter[k].count, counter[k].ttl, seconds)
      /\ Kept(recent'[k], Counted(k).count, Counted(k).ttl, seconds)
  <2>1. PICK r, n, x, z :
          r = recent[k] /\ n = counter[k].count /\ x = counter[k].ttl /\ z = spoilt[k]
    OBVIOUS
  <2>2. PICK s, m, y : s = recent'[k] /\ m = Counted(k).count /\ y = Counted(k).ttl
    OBVIOUS
  <2>3. /\ r \in Histories /\ n \in 0..(times + 1) /\ x \in 0..seconds /\ z \in 0..seconds
        /\ n = 0 <=> x = 0
    BY <2>1, ActorTypes
  <2>4. m = AtMost(n + 1, times + 1) /\ y = IF x = 0 THEN seconds ELSE x
    BY <2>1, <2>2, CountedKey
  <2>5. Kept(r, n, x, z) /\ s = [r EXCEPT ![0] = AtMost(@ + 1, Many)]
    BY <1>2, <1>4, <2>1, <2>2
  <2>6. Kept(s, n, x, seconds) /\ Kept(s, m, y, seconds)
    BY <2>3, <2>4, <2>5, KeptWhenOpen
  <2> QED
    BY <2>1, <2>2, <2>6
<1>6. Kept(recent'[k], counter'[k].count, counter'[k].ttl, spoilt'[k])
  BY <1>1, <1>3, <1>5
<1> QED
  BY <1>1, <1>2, <1>3, <1>6 DEF RateInv

LEMMA EvictKeeps ==
  ASSUME LimitTypeOK, RateInv, NEW k \in Actors, EvictKey(k)
  PROVE  RateInv'
<1>1. \A a \in Actors : counter'[a] = IF a = k THEN NoKey ELSE counter[a]
  BY CounterAfter DEF EvictKey
<1>2. recent' = recent /\ \A a \in Actors : spoilt'[a] = IF a = k THEN seconds ELSE spoilt[a]
  BY SpoiltAfter DEF EvictKey
<1>3. Kept(recent[k], 0, 0, seconds)
  BY LimitAssumption, KeptAfterFault
<1> QED
  BY <1>1, <1>2, <1>3 DEF RateInv, NoKey

LEMMA TickKeeps ==
  ASSUME LimitTypeOK, RateInv, Tick
  PROVE  RateInv'
<1> SUFFICES ASSUME NEW k \in Actors
             PROVE  Kept(recent'[k], counter'[k].count, counter'[k].ttl, spoilt'[k])
  BY DEF RateInv
<1>1. recent'[k] = [i \in Ages |-> IF i = 0 THEN 0 ELSE recent[k][i - 1]]
  BY DEF Tick, Ages
<1>2. spoilt'[k] = IF spoilt[k] = 0 THEN 0 ELSE spoilt[k] - 1
  BY DEF Tick
<1>3. Kept(recent[k], counter[k].count, counter[k].ttl, spoilt[k])
  BY DEF RateInv
<1>4. /\ counter[k].ttl <= 1 => Kept(recent'[k], 0, 0, spoilt'[k])
      /\ counter[k].ttl > 1 =>
           Kept(recent'[k], counter[k].count, counter[k].ttl - 1, spoilt'[k])
  <2>1. PICK r, n, x, z :
          r = recent[k] /\ n = counter[k].count /\ x = counter[k].ttl /\ z = spoilt[k]
    OBVIOUS
  <2>2. PICK s, w : s = recent'[k] /\ w = spoilt'[k]
    OBVIOUS
  <2>3. /\ r \in Histories /\ n \in 0..(times + 1) /\ x \in 0..seconds /\ z \in 0..seconds
        /\ n = 0 <=> x = 0
    BY <2>1, ActorTypes
  <2>4. s = [i \in Ages |-> IF i = 0 THEN 0 ELSE r[i - 1]]
    BY <1>1, <2>1, <2>2
  <2>5. Kept(r, n, x, z) /\ w = IF z = 0 THEN 0 ELSE z - 1
    BY <1>2, <1>3, <2>1, <2>2
  <2>6. (x <= 1 => Kept(s, 0, 0, w)) /\ (x > 1 => Kept(s, n, x - 1, w))
    BY <2>3, <2>4, <2>5, KeptAsTimePasses
  <2> QED
    BY <2>1, <2>2, <2>6
<1>5. counter'[k] = IF counter[k].ttl <= 1 THEN NoKey
                    ELSE [counter[k] EXCEPT !.ttl = counter[k].ttl - 1]
  BY DEF Tick
<1>6. CASE counter[k].ttl <= 1
  BY <1>4, <1>5, <1>6 DEF NoKey
<1>7. CASE ~(counter[k].ttl <= 1)
  <2>1. counter'[k].count = counter[k].count /\ counter'[k].ttl = counter[k].ttl - 1
    BY <1>5, <1>7, ActorTypes
  <2>2. counter[k].ttl > 1
    <3>1. counter[k].ttl \in 0..seconds
      BY ActorTypes
    <3> QED
      BY <1>7, <3>1, LimitAssumption
  <2> QED
    BY <1>4, <2>1, <2>2
<1> QED
  BY <1>6, <1>7

LEMMA RateInvInit == ASSUME LimitInit PROVE RateInv
<1> SUFFICES ASSUME NEW k \in Actors
             PROVE  Kept(recent[k], counter[k].count, counter[k].ttl, spoilt[k])
  BY DEF RateInv
<1>1. counter[k].count = 0 /\ counter[k].ttl = 0 /\ spoilt[k] = 0
  BY DEF LimitInit, NoKey
<1>2. \A i \in Ages : recent[k][i] = 0
  BY DEF LimitInit, Ages
<1>3. PassedAt(recent[k], Young(0)) = {}
  <2>1. Young(0) \in SUBSET Ages
    BY AgesTypes
  <2> QED
    BY <1>2, <2>1 DEF PassedAt
<1>4. Num(recent[k], Young(0)) = 0
  BY <1>3, FS_EmptySet DEF Num
<1>5. 0 \in Young(0) => recent[k][0] = 0
  BY <1>2, AgesTypes
<1>6. 0 <= times
  BY LimitAssumption
<1> QED
  BY <1>1, <1>4, <1>5, <1>6 DEF Kept

LEMMA RateUnchanged == ASSUME RateInv, UNCHANGED limits PROVE RateInv'
BY DEF RateInv, limits

---------------------------------------------------------------------------
(* What a step leaves alone.                                               *)

LEMMA TypeParts == TypeOK <=> LimitTypeOK /\ SendsOK /\ SocketsOK /\ RegistryOK
BY DEF TypeOK, SendsOK, SocketsOK, RegistryOK

LEMMA TypePartsNext ==
  TypeOK' <=> LimitTypeOK' /\ SendsOK' /\ SocketsOK' /\ RegistryOK'
BY DEF TypeOK, SendsOK, SocketsOK, RegistryOK

LEMMA SendsUnchanged ==
  ASSUME IInv, UNCHANGED sends PROVE SendsOK' /\ CheckedInv'
BY TypeParts DEF IInv, SendsOK, CheckedInv, sends

LEMMA SocketsUnchanged ==
  ASSUME IInv, UNCHANGED sockets PROVE SocketsOK' /\ RegistryOK'
BY TypeParts DEF IInv, SocketsOK, RegistryOK, Running, Heard, sockets

\* Nothing but the counter moves.
LEMMA LimitStep ==
  ASSUME IInv, LimitTypeOK', UNCHANGED <<sends, sockets>>
  PROVE  IInv'
<1>1. TypeOK' /\ CheckedInv'
  BY SendsUnchanged, SocketsUnchanged, TypePartsNext
<1>2. OwedInv' /\ PushLeavesNoGap'
  BY DEF IInv, OwedInv, Concerns, PushLeavesNoGap, sends, sockets
<1> QED
  BY <1>1, <1>2 DEF IInv

---------------------------------------------------------------------------
(* Sockets.                                                                *)

LEMMA ConnectStep ==
  ASSUME IInv, NEW s \in Sockets, NEW p \in Processes, Connect(s, p)
  PROVE  IInv'
<1>1. SocketsOK /\ RegistryOK /\ LimitTypeOK
  BY TypeParts DEF IInv
<1>2. \A t \in Sockets : /\ sock'[t] = IF t = s THEN "open" ELSE sock[t]
                         /\ home'[t] = IF t = s THEN p ELSE home[t]
  BY <1>1 DEF Connect, SocketsOK
<1>3. \A r \in Processes : registry'[r] = IF r = p THEN registry[r] \cup {s} ELSE registry[r]
  BY <1>1 DEF Connect, SocketsOK
<1>4. SocketsOK'
  BY <1>1 DEF Connect, SocketsOK
<1>5. RegistryOK'
  BY <1>1, <1>2, <1>3 DEF Connect, RegistryOK, Running, Heard
<1>6. SendsOK' /\ CheckedInv' /\ LimitTypeOK'
  BY <1>1, SendsUnchanged, LimitUnchanged DEF Connect
<1>7. OwedInv' /\ PushLeavesNoGap'
  BY <1>2 DEF IInv, Connect, OwedInv, Concerns, PushLeavesNoGap, sends
<1> QED
  BY <1>4, <1>5, <1>6, <1>7, TypePartsNext DEF IInv

LEMMA ListStep ==
  ASSUME IInv, NEW s \in Sockets, ListMessages(s)
  PROVE  IInv'
<1>1. SocketsOK /\ RegistryOK /\ LimitTypeOK
  BY TypeParts DEF IInv
<1>2. \A t \in Sockets : /\ sock'[t] = IF t = s THEN "listed" ELSE sock[t]
                         /\ shown'[t] = IF t = s THEN shown[t] \cup Stored ELSE shown[t]
  BY <1>1 DEF ListMessages, SocketsOK
<1>3. SocketsOK'
  BY <1>1 DEF ListMessages, SocketsOK, Stored
<1>4. RegistryOK'
  BY <1>1, <1>2 DEF ListMessages, RegistryOK, Running, Heard
<1>5. SendsOK' /\ CheckedInv' /\ LimitTypeOK'
  BY <1>1, SendsUnchanged, LimitUnchanged DEF ListMessages
<1>6. \A m \in Messages : pc[m] \in {"stored", "done"} => m \in Stored
  BY DEF Stored
<1>7. \A t \in Sockets : shown[t] \subseteq shown'[t] /\ (t # s => sock'[t] = sock[t])
  BY <1>2
<1>8. OwedInv'
  BY <1>2, <1>6, <1>7 DEF IInv, ListMessages, OwedInv, Concerns, sends
<1>9. PushLeavesNoGap'
  BY <1>2, <1>6, <1>7 DEF IInv, ListMessages, PushLeavesNoGap, sends
<1> QED
  BY <1>3, <1>4, <1>5, <1>8, <1>9, TypePartsNext DEF IInv

LEMMA VanishStep ==
  ASSUME IInv, NEW s \in Sockets, Vanish(s)
  PROVE  IInv'
<1>1. SocketsOK /\ RegistryOK /\ LimitTypeOK
  BY TypeParts DEF IInv
<1>2. \A t \in Sockets : sock'[t] = IF t = s THEN "gone" ELSE sock[t]
  BY <1>1 DEF Vanish, SocketsOK
<1>3. SocketsOK'
  BY <1>1 DEF Vanish, SocketsOK
<1>4. RegistryOK'
  BY <1>1, <1>2 DEF Vanish, RegistryOK, Running, Heard
<1>5. SendsOK' /\ CheckedInv' /\ LimitTypeOK'
  BY <1>1, SendsUnchanged, LimitUnchanged DEF Vanish
<1>6. OwedInv' /\ PushLeavesNoGap'
  BY <1>2 DEF IInv, Vanish, OwedInv, Concerns, PushLeavesNoGap, sends
<1> QED
  BY <1>3, <1>4, <1>5, <1>6, TypePartsNext DEF IInv

\* A socket that no client is behind may leave the registry.
LEMMA DisconnectTypes ==
  ASSUME SocketsOK, RegistryOK, NEW s \in Sockets, Disconnect(s)
  PROVE  /\ registry' \in [Processes -> SUBSET Sockets]
         /\ \A p \in Processes : registry'[p] = registry[p] \ {s}
<1>1. CASE home[s] \in Processes
  <2>1. \A p \in Processes \ {home[s]} : s \notin registry[p]
    BY DEF RegistryOK
  <2> QED
    BY <1>1, <2>1 DEF Disconnect, SocketsOK
<1>2. CASE home[s] \notin Processes
  <2>1. \A p \in Processes : s \notin registry[p]
    BY <1>2 DEF RegistryOK
  <2> QED
    BY <1>2, <2>1 DEF Disconnect, SocketsOK
<1> QED
  BY <1>1, <1>2

LEMMA CloseStep ==
  ASSUME IInv, NEW s \in Sockets, Close(s)
  PROVE  IInv'
<1>1. SocketsOK /\ RegistryOK /\ LimitTypeOK
  BY TypeParts DEF IInv
<1>2. \A t \in Sockets : sock'[t] = IF t = s THEN "closed" ELSE sock[t]
  BY <1>1 DEF Close, SocketsOK
<1>3. /\ registry' \in [Processes -> SUBSET Sockets]
      /\ \A p \in Processes : registry'[p] = registry[p] \ {s}
  BY <1>1, DisconnectTypes DEF Close
<1>4. SocketsOK'
  BY <1>1, <1>3 DEF Close, SocketsOK
<1>5. RegistryOK'
  BY <1>1, <1>2, <1>3 DEF Close, RegistryOK, Running, Heard
<1>6. SendsOK' /\ CheckedInv' /\ LimitTypeOK'
  BY <1>1, SendsUnchanged, LimitUnchanged DEF Close
<1>7. OwedInv' /\ PushLeavesNoGap'
  BY <1>2 DEF IInv, Close, OwedInv, Concerns, PushLeavesNoGap, sends
<1> QED
  BY <1>4, <1>5, <1>6, <1>7, TypePartsNext DEF IInv
---------------------------------------------------------------------------
(* Requests.                                                               *)

LEMMA BeginStep ==
  ASSUME IInv, NEW m \in Messages, NEW u \in Actors, NEW p \in Processes,
         BeginSend(m, u, p)
  PROVE  IInv'
<1>1. SendsOK /\ LimitTypeOK
  BY TypeParts DEF IInv
<1>2. \A n \in Messages : /\ pc'[n] = IF n = m THEN "begun" ELSE pc[n]
                          /\ by'[n] = IF n = m THEN u ELSE by[n]
                          /\ at'[n] = IF n = m THEN p ELSE at[n]
  BY <1>1 DEF BeginSend, SendsOK
<1>3. SendsOK'
  BY <1>1 DEF BeginSend, SendsOK
<1>4. LimitTypeOK'
  BY <1>1, AdmitTypes, FailOpenTypes DEF BeginSend
<1>5. SocketsOK' /\ RegistryOK'
  BY SocketsUnchanged DEF BeginSend
<1>6. CheckedInv' /\ OwedInv' /\ PushLeavesNoGap'
  BY <1>2 DEF IInv, BeginSend, CheckedInv, OwedInv, Concerns, PushLeavesNoGap, sockets
<1> QED
  BY <1>3, <1>4, <1>5, <1>6, TypePartsNext DEF IInv

LEMMA CheckStep ==
  ASSUME IInv, NEW m \in Messages, CheckSend(m)
  PROVE  IInv'
<1>1. SendsOK /\ LimitTypeOK
  BY TypeParts DEF IInv
<1>2. \A n \in Messages : /\ pc'[n] = IF n = m THEN "checked" ELSE pc[n]
                          /\ todo'[n] = IF n = m THEN Users \ {by[n]} ELSE todo[n]
  BY <1>1 DEF CheckSend, SendsOK
<1>3. SendsOK'
  BY <1>1 DEF CheckSend, SendsOK
<1>4. LimitTypeOK' /\ SocketsOK' /\ RegistryOK'
  BY <1>1, LimitUnchanged, SocketsUnchanged DEF CheckSend
<1>5. CheckedInv' /\ OwedInv' /\ PushLeavesNoGap'
  BY <1>2 DEF IInv, CheckSend, CheckedInv, OwedInv, Concerns, PushLeavesNoGap, sockets
<1> QED
  BY <1>3, <1>4, <1>5, TypePartsNext DEF IInv

\* From here on the push owes the message to everybody but its sender.
LEMMA StoreStep ==
  ASSUME IInv, NEW m \in Messages, Store(m)
  PROVE  IInv'
<1>1. SendsOK /\ LimitTypeOK
  BY TypeParts DEF IInv
<1>2. \A n \in Messages : pc'[n] = IF n = m THEN "stored" ELSE pc[n]
  BY <1>1 DEF Store, SendsOK
<1>3. SendsOK'
  BY <1>1 DEF Store, SendsOK
<1>4. LimitTypeOK' /\ SocketsOK' /\ RegistryOK'
  BY <1>1, LimitUnchanged, SocketsUnchanged DEF Store
<1>5. todo[m] = Users \ {by[m]}
  BY DEF IInv, CheckedInv, Store
<1>6. OwedInv'
  BY <1>2, <1>5, OwnerAssumption DEF IInv, Store, OwedInv, Concerns, sockets
<1>7. CheckedInv' /\ PushLeavesNoGap'
  BY <1>2 DEF IInv, Store, CheckedInv, PushLeavesNoGap, sockets
<1> QED
  BY <1>3, <1>4, <1>6, <1>7, TypePartsNext DEF IInv

LEMMA FailStep ==
  ASSUME IInv, NEW m \in Messages, FailSend(m)
  PROVE  IInv'
<1>1. SendsOK /\ LimitTypeOK
  BY TypeParts DEF IInv
<1>2. \A n \in Messages : /\ pc'[n] = IF n = m THEN "idle" ELSE pc[n]
                          /\ n # m => by'[n] = by[n] /\ at'[n] = at[n] /\ todo'[n] = todo[n]
  BY <1>1 DEF FailSend, SendsOK
<1>3. SendsOK'
  BY <1>1 DEF FailSend, SendsOK
<1>4. LimitTypeOK' /\ SocketsOK' /\ RegistryOK'
  BY <1>1, LimitUnchanged, SocketsUnchanged DEF FailSend
<1>5. CheckedInv' /\ OwedInv' /\ PushLeavesNoGap'
  BY <1>2 DEF IInv, FailSend, CheckedInv, OwedInv, Concerns, PushLeavesNoGap, sockets
<1> QED
  BY <1>3, <1>4, <1>5, TypePartsNext DEF IInv

\* Whoever is owed the message by name is owed it by socket: all her sockets with
\* a client are in the registry.
LEMMA CopyStep ==
  ASSUME IInv, NEW m \in Messages, NEW u \in Users, TakeCopy(m, u)
  PROVE  IInv'
<1>1. SendsOK /\ SocketsOK /\ RegistryOK /\ LimitTypeOK
  BY TypeParts DEF IInv
<1> DEFINE mine == {s \in registry[at[m]] : owner[s] = u}
<1>2. at[m] \in Processes /\ mine \in SUBSET Sockets
  BY <1>1 DEF IInv, CheckedInv, TakeCopy, SocketsOK
<1>3. copy' = [copy EXCEPT ![m] = mine]
  BY DEF TakeCopy
<1> HIDE DEF mine
<1>4. \A n \in Messages : /\ todo'[n] = IF n = m THEN todo[n] \ {u} ELSE todo[n]
                          /\ copy'[n] = IF n = m THEN mine ELSE copy[n]
  BY <1>1, <1>3 DEF TakeCopy, SendsOK
<1>5. ASSUME NEW s \in Sockets, Concerns(m, s), owner[s] = u
      PROVE  s \in mine
  BY <1>1, <1>5, <1>2 DEF Concerns, Heard, RegistryOK, mine
<1>6. OwedInv'
  <2> SUFFICES ASSUME NEW s \in Sockets, NEW n \in Messages, Concerns(n, s)
               PROVE  n \in shown[s] \/ owner[s] \in todo'[n] \/ s \in copy'[n]
    BY DEF OwedInv, Concerns, TakeCopy, sockets
  <2>1. n \in shown[s] \/ owner[s] \in todo[n] \/ s \in copy[n]
    BY DEF IInv, OwedInv
  <2>2. CASE n # m
    BY <1>4, <2>1, <2>2
  <2>3. CASE n = m
    <3>1. copy[m] = {} /\ Concerns(m, s)
      BY <2>3 DEF TakeCopy
    <3>2. owner[s] = u => s \in mine
      BY <1>5, <3>1
    <3>3. m \in shown[s] \/ owner[s] \in todo[m]
      BY <2>1, <2>3, <3>1
    <3> QED
      BY <1>4, <2>3, <3>2, <3>3
  <2> QED
    BY <2>2, <2>3
<1>7. CheckedInv' /\ PushLeavesNoGap'
  BY <1>4 DEF IInv, TakeCopy, CheckedInv, PushLeavesNoGap, sockets
<1>8. SendsOK'
  BY <1>1, <1>2, <1>3 DEF TakeCopy, SendsOK
<1>9. LimitTypeOK' /\ SocketsOK' /\ RegistryOK'
  BY <1>1, LimitUnchanged, SocketsUnchanged DEF TakeCopy
<1> QED
  BY <1>6, <1>7, <1>8, <1>9, TypePartsNext DEF IInv

\* One socket is served: its client has the message, or it has no client.
LEMMA PushStep ==
  ASSUME IInv, NEW m \in Messages, NEW s \in Sockets, PushTo(m, s)
  PROVE  IInv'
<1>1. SendsOK /\ SocketsOK /\ RegistryOK /\ LimitTypeOK
  BY TypeParts DEF IInv
<1>2. \A n \in Messages : copy'[n] = IF n = m THEN copy[n] \ {s} ELSE copy[n]
  BY <1>1 DEF PushTo, SendsOK
<1>3. SendsOK' /\ LimitTypeOK'
  BY <1>1, LimitUnchanged DEF PushTo, SendsOK
<1>4. UNCHANGED <<pc, by, at, todo, sock, home>>
  BY DEF PushTo
<1>5. CheckedInv'
  BY <1>4 DEF IInv, CheckedInv
<1>6. CASE /\ Heard(s)
           /\ shown' = [shown EXCEPT ![s] = shown[s] \cup {m}]
           /\ UNCHANGED registry
  <2>1. \A t \in Sockets : shown'[t] = IF t = s THEN shown[t] \cup {m} ELSE shown[t]
    BY <1>1, <1>6 DEF SocketsOK
  <2>2. SocketsOK'
    <3>1. shown \in [Sockets -> SUBSET Messages] /\ shown[s] \cup {m} \in SUBSET Messages
      BY <1>1 DEF SocketsOK
    <3>2. shown' \in [Sockets -> SUBSET Messages]
      BY <1>6, <3>1
    <3> QED
      BY <1>1, <1>4, <1>6, <3>2 DEF SocketsOK
  <2>3. OwedInv'
    BY <1>2, <1>4, <2>1 DEF IInv, OwedInv, Concerns
  <2>4. PushLeavesNoGap'
    BY <1>4, <2>1 DEF IInv, PushLeavesNoGap
  <2>5. RegistryOK'
    BY <1>1, <1>4, <1>6 DEF RegistryOK, Running, Heard
  <2> QED
    BY <1>3, <1>5, <2>2, <2>3, <2>4, <2>5, TypePartsNext DEF IInv
<1>7. CASE /\ ~Heard(s)
           /\ Disconnect(s) \/ (sock[s] = "gone" /\ UNCHANGED registry)
           /\ UNCHANGED shown
  <2>1. /\ registry' \in [Processes -> SUBSET Sockets]
        /\ \A p \in Processes : registry[p] \ {s} \subseteq registry'[p]
        /\ \A p \in Processes : registry'[p] \subseteq registry[p]
    <3>1. CASE Disconnect(s)
      BY <1>1, <3>1, DisconnectTypes
    <3>2. CASE UNCHANGED registry
      BY <1>1, <3>2 DEF SocketsOK
    <3> QED
      BY <1>7, <3>1, <3>2
  <2>2. SocketsOK'
    BY <1>1, <1>4, <1>7, <2>1 DEF SocketsOK
  <2>3. RegistryOK'
    BY <1>1, <1>4, <1>7, <2>1 DEF RegistryOK, Running, Heard
  <2>4. OwedInv'
    BY <1>2, <1>4, <1>7 DEF IInv, OwedInv, Concerns, Heard
  <2>5. PushLeavesNoGap'
    BY <1>4, <1>7 DEF IInv, PushLeavesNoGap
  <2> QED
    BY <1>3, <1>5, <2>2, <2>3, <2>4, <2>5, TypePartsNext DEF IInv
<1> QED
  BY <1>6, <1>7 DEF PushTo

\* Nothing is owed when there is nobody left to serve.
LEMMA EndStep ==
  ASSUME IInv, NEW m \in Messages, EndSend(m)
  PROVE  IInv'
<1>1. SendsOK /\ LimitTypeOK
  BY TypeParts DEF IInv
<1>2. \A n \in Messages : pc'[n] = IF n = m THEN "done" ELSE pc[n]
  BY <1>1 DEF EndSend, SendsOK
<1>3. SendsOK'
  BY <1>1 DEF EndSend, SendsOK
<1>4. LimitTypeOK' /\ SocketsOK' /\ RegistryOK'
  BY <1>1, LimitUnchanged, SocketsUnchanged DEF EndSend
<1>5. CheckedInv' /\ OwedInv'
  BY <1>2 DEF IInv, EndSend, CheckedInv, OwedInv, Concerns, sockets
<1>6. \A s \in Sockets : Concerns(m, s) => m \in shown[s]
  BY DEF IInv, OwedInv, EndSend
<1>7. PushLeavesNoGap'
  BY <1>2, <1>6 DEF IInv, EndSend, Concerns, PushLeavesNoGap, sockets
<1> QED
  BY <1>3, <1>4, <1>5, <1>7, TypePartsNext DEF IInv

\* With a process go its sockets: nobody is left whom its pushes would owe.
LEMMA KillStep ==
  ASSUME IInv, NEW p \in Processes, Kill(p)
  PROVE  IInv'
<1>1. SendsOK /\ SocketsOK /\ RegistryOK /\ LimitTypeOK
  BY TypeParts DEF IInv
<1>2. \A m \in Messages :
        /\ at[m] # p => pc'[m] = pc[m]
        /\ at[m] = p => pc'[m] \in {"idle", "done", "lost"}
        /\ at[m] # p => todo'[m] = todo[m] /\ copy'[m] = copy[m]
  BY DEF Kill
<1>3. \A m \in Messages :
        /\ pc'[m] # "idle" => by'[m] = by[m] /\ at'[m] = at[m] /\ pc[m] # "idle"
        /\ pc'[m] = "idle" => by'[m] = Nobody /\ at'[m] = Nobody
        /\ todo'[m] \in SUBSET Users /\ copy'[m] \in SUBSET Sockets
  BY <1>1 DEF Kill, SendsOK
<1>4. pc' \in [Messages -> {"idle", "begun", "checked", "stored", "done", "lost"}]
  BY <1>1, <1>2 DEF Kill, SendsOK
<1>5. SendsOK'
  BY <1>1, <1>3, <1>4 DEF Kill, SendsOK
<1>6. \A s \in Sockets : sock'[s] = IF home[s] = p THEN "closed" ELSE sock[s]
  BY DEF Kill
<1>7. \A r \in Processes : registry'[r] = IF r = p THEN {} ELSE registry[r]
  BY <1>1 DEF Kill, SocketsOK
<1>8. SocketsOK'
  BY <1>1 DEF Kill, SocketsOK
<1>9. RegistryOK'
  BY <1>1, <1>6, <1>7 DEF Kill, RegistryOK, Running, Heard
<1>10. LimitTypeOK'
  BY <1>1, LimitUnchanged DEF Kill
<1>11. CheckedInv'
  BY <1>1, <1>2, <1>3 DEF IInv, CheckedInv
<1>12. OwedInv'
  BY <1>2, <1>3, <1>6 DEF IInv, Kill, OwedInv, Concerns
<1>13. PushLeavesNoGap'
  BY <1>2, <1>3, <1>6 DEF IInv, Kill, PushLeavesNoGap
<1> QED
  BY <1>5, <1>8, <1>9, <1>10, <1>11, <1>12, <1>13, TypePartsNext DEF IInv

---------------------------------------------------------------------------
(* The invariant and the theorems.                                         *)

LEMMA InvInit == ASSUME Init PROVE IInv
<1>1. LimitTypeOK
  BY LimitAssumption DEF Init, LimitInit, LimitTypeOK, NoKey, Many
<1>2. SendsOK /\ SocketsOK /\ RegistryOK
  BY DEF Init, SendsOK, SocketsOK, RegistryOK, Running, Heard
<1>3. CheckedInv /\ OwedInv /\ PushLeavesNoGap
  BY DEF Init, CheckedInv, OwedInv, Concerns, PushLeavesNoGap
<1> QED
  BY <1>1, <1>2, <1>3, TypeParts DEF IInv

LEMMA InvStep == ASSUME IInv, [Next]_vars PROVE IInv'
<1>1. LimitTypeOK
  BY TypeParts DEF IInv
<1>2. CASE Time
  BY <1>1, <1>2, TickTypes, EvictTypes, LimitStep DEF Time
<1>3. ASSUME NEW s \in Sockets, SocketStep(s) PROVE IInv'
  BY <1>3, ConnectStep, ListStep, VanishStep, CloseStep DEF SocketStep
<1>4. ASSUME NEW m \in Messages, SendStep(m) PROVE IInv'
  BY <1>4, BeginStep, CheckStep, StoreStep, FailStep, CopyStep, PushStep, EndStep
     DEF SendStep
<1>5. ASSUME NEW u \in Actors, RefuseSend(u) PROVE IInv'
  BY <1>1, <1>5, RefuseTypes, LimitStep DEF RefuseSend
<1>6. ASSUME NEW p \in Processes, Kill(p) PROVE IInv'
  BY <1>6, KillStep
<1>7. CASE UNCHANGED vars
  BY <1>1, <1>7, LimitUnchanged, LimitStep DEF vars
<1> QED
  BY <1>2, <1>3, <1>4, <1>5, <1>6, <1>7 DEF Next

LEMMA PushInvariant == Spec => []IInv
<1>1. Init => IInv
  BY InvInit
<1>2. IInv /\ [Next]_vars => IInv'
  BY InvStep
<1> QED
  BY <1>1, <1>2, PTL DEF Spec

\* The registries, requests and counters keep their types, and no registry has a
\* socket whose handler has ended (ConnectionManager).
THEOREM PushTypeCorrect == Spec => []TypeOK
<1>1. IInv => TypeOK
  BY DEF IInv
<1> QED
  BY <1>1, PushInvariant, PTL

\* send_to_user leaves out no client of its process that has listed the messages.
THEOREM NoPushIsMissed == Spec => []PushLeavesNoGap
<1>1. IInv => PushLeavesNoGap
  BY DEF IInv
<1> QED
  BY <1>1, PushInvariant, PTL

\* Only a request, a fault and time bear on the rate.
LEMMA LimitsStep ==
  ASSUME [Next]_vars
  PROVE  \/ Tick \/ UNCHANGED limits
         \/ \E k \in Actors : Admit(k) \/ Refuse(k) \/ FailOpen(k) \/ EvictKey(k)
<1>1. CASE Time
  BY <1>1 DEF Time
<1>2. ASSUME NEW s \in Sockets, SocketStep(s) PROVE UNCHANGED limits
  BY <1>2 DEF SocketStep, Connect, ListMessages, Vanish, Close
<1>3. ASSUME NEW m \in Messages, SendStep(m)
      PROVE  UNCHANGED limits \/ \E k \in Actors : Admit(k) \/ FailOpen(k)
  BY <1>3 DEF SendStep, BeginSend, CheckSend, Store, FailSend, TakeCopy, PushTo, EndSend
<1>4. ASSUME NEW k \in Actors, RefuseSend(k) PROVE Refuse(k)
  BY <1>4 DEF RefuseSend
<1>5. ASSUME NEW p \in Processes, Kill(p) PROVE UNCHANGED limits
  BY <1>5 DEF Kill
<1>6. CASE UNCHANGED vars
  BY <1>6 DEF vars
<1> QED
  BY <1>1, <1>2, <1>3, <1>4, <1>5, <1>6 DEF Next

LEMMA RateInvariant == Spec => []RateInv
<1>1. Init => RateInv
  BY RateInvInit DEF Init
<1>2. TypeOK /\ RateInv /\ [Next]_vars => RateInv'
  <2> SUFFICES ASSUME TypeOK, RateInv, [Next]_vars PROVE RateInv'
    OBVIOUS
  <2>1. LimitTypeOK
    BY TypeParts
  <2> QED
    BY <2>1, LimitsStep, TickKeeps, RateUnchanged, AdmitKeeps, RefuseKeeps,
       FailOpenKeeps, EvictKeeps
<1> QED
  BY <1>1, <1>2, PushTypeCorrect, PTL DEF Spec

\* rate_limit: while Redis is well no stretch of the window's length lets through
\* more than twice the limit, and nobody is refused who has not had the limit.
THEOREM RateIsHeld == Spec => RateIsKept
<1> DEFINE Step ==
      \A k \in Actors :
        /\ Admit(k) /\ spoilt[k] = 0 => Rate(k)' <= 2 * times
        /\ Refuse(k) => Rate(k) >= times
<1>1. TypeOK /\ RateInv => Step
  <2> SUFFICES ASSUME TypeOK, RateInv, NEW k \in Actors
               PROVE  /\ Admit(k) /\ spoilt[k] = 0 => Rate(k)' <= 2 * times
                      /\ Refuse(k) => Rate(k) >= times
    OBVIOUS
  <2>1. LimitTypeOK
    BY TypeParts
  <2> QED
    BY <2>1, AdmitKeeps, RefuseKeeps
<1> HIDE DEF Step
<1>2. TypeOK /\ RateInv => [Step]_limits
  BY <1>1
<1>3. Spec => [][Step]_limits
  BY <1>2, PushTypeCorrect, RateInvariant, PTL
<1> QED
  BY <1>3 DEF RateIsKept, Step
=============================================================================
