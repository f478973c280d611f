------------------------ MODULE ConversationsProofs ------------------------
(***************************************************************************)
(* Theorems about Conversations, for any number of conversations, messages *)
(* and requests.                                                           *)
(*                                                                         *)
(* Four invariants, one for each promise: who is about to make a direct    *)
(* conversation, what a request that a block accompanies may have reached, *)
(* how late the stamp of a read may be, on the other clock, and what a client *)
(* that pages has been shown and has left.                                 *)
(***************************************************************************)
EXTENDS Conversations, FiniteSetTheorems, WellFoundedInduction, TLAPS

\* TypeOK without the pages, and what a request has in each place.
Types ==
  /\ kind \in [Convs -> {"none", "direct", "group"}]
  /\ blocks \subseteq {p \in Users \X Users : p[1] # p[2]}
  /\ msg \in [Messages -> [state : {"none", "sent", "deleted"}, conv : Convs \cup {Nobody},
                           sender : Users \cup {Nobody}, at : Time]]
  /\ readAt \in [Convs -> [Users -> Time]]
  /\ clock \in 1..MaxClock
  /\ taken \in [Convs -> [Users -> 0..MaxClock]]
  /\ pc \in [Requests -> {"idle", "asked", "checked", "creating", "sending", "writing",
                          "reading", "paging", "paged"}]
  /\ req \in [Requests -> [by : Users \cup {Nobody}, conv : Convs \cup {Nobody}, at : Time]]
  /\ blocked \subseteq Requests
  /\ raced \in BOOLEAN

PlaceInv ==
  /\ \A q \in Requests :
       /\ pc[q] \in {"asked", "checked", "creating"} => req[q].by \in Users
       /\ pc[q] \in {"sending", "writing", "reading"} =>
            /\ req[q].by \in Users /\ req[q].conv \in Convs
            /\ kind[req[q].conv] # "none"
  /\ \A m \in Messages : msg[m].state = "sent" => msg[m].sender \in Users /\ msg[m].conv \in Convs

\* Who is about to make a direct conversation has found none, and there is none yet.
DirectInv ==
  ~raced =>
    /\ Direct = {} \/ \E c \in Convs : Direct = {c}
    /\ \A q \in Requests : pc[q] = "creating" => Direct = {}

\* A block stands as long as it accompanies a request.
BlockInv ==
  /\ blocked # {} => blocks # {}
  /\ \A q \in blocked : pc[q] \in {"asked", "sending", "writing"}
  /\ BlockStops

\* t is at most Ahead later than the time when u last began to mark c read.
Taken(t, c, u) == taken[c][u] # 0 /\ t <= taken[c][u] + Ahead

StampInv ==
  /\ \A c \in Convs, u \in Users :
       taken[c][u] <= clock /\ (readAt[c][u] # 0 => Taken(readAt[c][u], c, u))
  /\ \A q \in Requests : pc[q] = "reading" => Taken(req[q].at, req[q].conv, req[q].by)

IInv == Types /\ PlaceInv /\ DirectInv /\ BlockInv /\ StampInv

---------------------------------------------------------------------------
(* What a step of one request changes.                                     *)

Places == {"idle", "asked", "checked", "creating", "sending", "writing", "reading",
           "paging", "paged"}
Stamped == [by : Users \cup {Nobody}, conv : Convs \cup {Nobody}, at : Time]

LEMMA GotoTypes ==
  ASSUME Types, NEW q \in Requests, NEW x \in Places, Goto(q, x)
  PROVE  /\ pc' \in [Requests -> Places]
         /\ \A p \in Requests : pc'[p] = IF p = q THEN x ELSE pc[p]
BY DEF Types, Goto, Places

LEMMA FinishTypes ==
  ASSUME Types, NEW q \in Requests, Finish(q)
  PROVE  /\ pc' \in [Requests -> Places]
         /\ \A p \in Requests : pc'[p] = IF p = q THEN "idle" ELSE pc[p]
         /\ req' \in [Requests -> Stamped]
         /\ \A p \in Requests : p # q => req'[p] = req[p]
         /\ blocked' = blocked \ {q}
<1>1. NoRequest \in Stamped
  BY BoundsAssumption DEF NoRequest, Stamped, Time
<1> QED
  BY <1>1, GotoTypes DEF Finish, Types, Stamped, Places

LEMMA BeginTypes ==
  ASSUME Types, NEW q \in Requests, NEW u \in Users, NEW c \in Convs \cup {Nobody},
         NEW x \in Places, NEW t \in Time, Begin(q, u, c, x, t)
  PROVE  /\ pc[q] = "idle"
         /\ pc' \in [Requests -> Places]
         /\ \A p \in Requests : pc'[p] = IF p = q THEN x ELSE pc[p]
         /\ req' \in [Requests -> Stamped]
         /\ \A p \in Requests :
              req'[p] = IF p = q THEN [by |-> u, conv |-> c, at |-> t] ELSE req[p]
         /\ blocked' \subseteq blocked \cup {q}
         /\ q \in blocked' => q \in blocked \/ (blocks # {} /\ x \in {"asked", "sending"})
<1>1. [by |-> u, conv |-> c, at |-> t] \in Stamped
  BY DEF Stamped
<1>2. Goto(q, x) /\ req' = [req EXCEPT ![q] = [by |-> u, conv |-> c, at |-> t]]
  BY DEF Begin
<1>3. /\ req' \in [Requests -> Stamped]
      /\ \A p \in Requests :
           req'[p] = IF p = q THEN [by |-> u, conv |-> c, at |-> t] ELSE req[p]
  BY <1>1, <1>2 DEF Types, Stamped
<1>4. /\ blocked' \subseteq blocked \cup {q}
      /\ q \in blocked' => q \in blocked \/ (blocks # {} /\ x \in {"asked", "sending"})
  BY DEF Begin
<1> QED
  BY <1>2, <1>3, <1>4, GotoTypes DEF Begin

---------------------------------------------------------------------------
(* Blocks.                                                                 *)

\* With two users, every block is between them.
LEMMA OneOther ==
  ASSUME NEW u \in Users, NEW v \in Users, NEW w \in Users, u # v
  PROVE  w = u \/ w = v
<1> SUFFICES ASSUME w # u, w # v PROVE FALSE
  OBVIOUS
<1>1. IsFiniteSet({}) /\ Cardinality({}) = 0
  BY FS_EmptySet
<1>2. IsFiniteSet({} \cup {u}) /\ Cardinality({} \cup {u}) = 1
  BY <1>1, FS_AddElement
<1>3. IsFiniteSet({u} \cup {v}) /\ Cardinality({u} \cup {v}) = 2
  <2>1. {} \cup {u} = {u}
    OBVIOUS
  <2> QED
    BY <1>2, <2>1, FS_AddElement
<1>4. Cardinality(({u} \cup {v}) \cup {w}) = 3
  BY <1>3, FS_AddElement
<1>5. ({u} \cup {v}) \cup {w} \in SUBSET Users
  OBVIOUS
<1>6. Cardinality(({u} \cup {v}) \cup {w}) <= 2
  BY <1>5, TwoUsers, FS_Subset
<1> QED
  BY <1>4, <1>6

LEMMA BlockIsBetween ==
  ASSUME Types, blocks # {}, NEW u \in Users
  PROVE  HasBlockBetween(u)
<1>1. PICK v \in Users, w \in Users : <<v, w>> \in blocks /\ v # w
  <2>1. PICK p \in blocks : p \in Users \X Users /\ p[1] # p[2]
    BY DEF Types
  <2>2. p[1] \in Users /\ p[2] \in Users /\ p = <<p[1], p[2]>>
    BY <2>1
  <2> QED
    BY <2>1, <2>2
<1>2. u = v \/ u = w
  BY <1>1, OneOther
<1> QED
  BY <1>1, <1>2 DEF HasBlockBetween

---------------------------------------------------------------------------
(* Stamps.                                                                 *)

LEMMA TimeType ==
  /\ 0 \in Time /\ 1 \in 1..MaxClock
  /\ 1..MaxClock \subseteq Time
  /\ \A t \in 1..MaxClock : 1..t + Ahead \subseteq Time
  /\ Time \subseteq Nat
BY BoundsAssumption DEF Time

LEMMA StampTypes ==
  ASSUME Types, NEW c \in Convs, NEW u \in Users
  PROVE  readAt[c][u] \in Nat /\ taken[c][u] \in Nat
<1>1. readAt[c] \in [Users -> Time] /\ taken[c] \in [Users -> 0..MaxClock]
  BY DEF Types
<1>2. readAt[c][u] \in Time /\ taken[c][u] \in 0..MaxClock
  BY <1>1
<1>3. readAt[c][u] \in Nat
  BY <1>2, TimeType
<1>4. \A n \in 0..MaxClock : n \in Nat
  BY BoundsAssumption
<1> QED
  BY <1>2, <1>3, <1>4

\* Nobody marks anything read.
LEMMA QuietStamps ==
  ASSUME IInv, UNCHANGED <<readAt, taken>>, clock <= clock', clock' \in Nat,
         \A q \in Requests : pc'[q] = "reading" => pc[q] = "reading" /\ req'[q] = req[q]
  PROVE  StampInv'
<1>1. clock \in Nat /\ \A c \in Convs, u \in Users : taken[c][u] \in Nat
  BY DEF IInv, Types
<1>2. \A c \in Convs, u \in Users : taken[c][u] <= clock
  BY DEF IInv, StampInv
<1>3. \A c \in Convs, u \in Users : taken'[c][u] <= clock'
  BY <1>1, <1>2
<1>4. \A c \in Convs, u \in Users : readAt'[c][u] # 0 => Taken(readAt[c][u], c, u)'
  BY DEF IInv, StampInv, Taken
<1>5. \A q \in Requests :
        pc'[q] = "reading" => Taken(req[q].at, req[q].conv, req[q].by)'
  BY DEF IInv, StampInv, Taken
<1> QED
  BY <1>3, <1>4, <1>5 DEF StampInv

\* Nor does time go on.
LEMMA StillStamps ==
  ASSUME IInv, UNCHANGED <<readAt, taken, clock>>,
         \A q \in Requests : pc'[q] = "reading" => pc[q] = "reading" /\ req'[q] = req[q]
  PROVE  StampInv'
<1>1. clock \in Nat
  BY DEF IInv, Types
<1> QED
  BY <1>1, QuietStamps

---------------------------------------------------------------------------
(* Each action preserves the invariant.                                    *)

\* No conversation is made, and none but those that found none are about to be.
LEMMA QuietDirect ==
  ASSUME IInv, UNCHANGED <<kind, raced>>,
         \A q \in Requests : pc'[q] = "creating" => pc[q] = "creating" \/ Direct = {}
  PROVE  DirectInv'
BY DEF IInv, DirectInv, Direct

LEMMA EndStep ==
  ASSUME IInv, NEW q \in Requests, End(q)
  PROVE  IInv'
<1>1. /\ Finish(q)
      /\ UNCHANGED <<kind, blocks, msg, readAt, clock, raced, taken>>
  BY DEF End, stored
<1>2. Types
  BY DEF IInv
<1>3. /\ pc' \in [Requests -> Places]
      /\ \A p \in Requests : pc'[p] = IF p = q THEN "idle" ELSE pc[p]
      /\ req' \in [Requests -> Stamped]
      /\ \A p \in Requests : p # q => req'[p] = req[p]
      /\ blocked' = blocked \ {q}
  BY <1>1, <1>2, FinishTypes
<1>4. Types'
  BY <1>1, <1>2, <1>3 DEF Types, Places, Stamped
<1>5. PlaceInv'
  BY <1>1, <1>3 DEF IInv, PlaceInv
<1>6. DirectInv'
  BY <1>1, <1>3, QuietDirect
<1>7. BlockInv'
  BY <1>1, <1>2, <1>3 DEF IInv, BlockInv, BlockStops, Types
<1>8. StampInv'
  BY <1>1, <1>3, StillStamps
<1> QED
  BY <1>4, <1>5, <1>6, <1>7, <1>8 DEF IInv

\* A request that begins is accompanied only by a block that is there.
LEMMA BeginBlocks ==
  ASSUME IInv, NEW q \in Requests, NEW u \in Users, NEW c \in Convs \cup {Nobody},
         NEW x \in {"asked", "sending", "reading"}, NEW t \in Time, Begin(q, u, c, x, t),
         UNCHANGED <<kind, blocks>>
  PROVE  BlockInv'
<1>1. Types /\ x \in Places
  BY DEF IInv, Places
<1>2. /\ pc[q] = "idle"
      /\ \A p \in Requests : pc'[p] = IF p = q THEN x ELSE pc[p]
      /\ \A p \in Requests : p # q => req'[p] = req[p]
      /\ blocked' \subseteq blocked \cup {q}
      /\ q \in blocked' => q \in blocked \/ (blocks # {} /\ x \in {"asked", "sending"})
  BY <1>1, BeginTypes
<1>3. q \notin blocked
  BY <1>2 DEF IInv, BlockInv
<1>4. \A p \in blocked' : p \in Requests /\ blocks' # {}
  BY <1>2, <1>3 DEF IInv, BlockInv, Types
<1>5. \A p \in blocked' \ {q} :
        /\ pc'[p] \in {"asked", "sending", "writing"}
        /\ pc'[p] = "writing" => kind'[req'[p].conv] = "group"
  BY <1>2, <1>4 DEF IInv, BlockInv, BlockStops
<1>6. q \in blocked' => pc'[q] \in {"asked", "sending"}
  BY <1>2, <1>3
<1> QED
  BY <1>4, <1>5, <1>6 DEF BlockInv, BlockStops

LEMMA AskToOpenStep ==
  ASSUME IInv, NEW q \in Requests, NEW u \in Users, AskToOpen(q, u)
  PROVE  IInv'
<1>1. /\ Begin(q, u, Nobody, "asked", 0)
      /\ UNCHANGED <<kind, blocks, msg, readAt, clock, raced, taken>>
  BY DEF AskToOpen, stored
<1>2. Types /\ 0 \in Time /\ "asked" \in Places
  BY BoundsAssumption DEF IInv, Time, Places
<1>3. /\ pc[q] = "idle"
      /\ pc' \in [Requests -> Places]
      /\ \A p \in Requests : pc'[p] = IF p = q THEN "asked" ELSE pc[p]
      /\ req' \in [Requests -> Stamped]
      /\ \A p \in Requests :
           req'[p] = IF p = q THEN [by |-> u, conv |-> Nobody, at |-> 0] ELSE req[p]
      /\ blocked' \subseteq blocked \cup {q}
      /\ q \in blocked' => q \in blocked \/ blocks # {}
  BY <1>1, <1>2, BeginTypes
<1>4. Types'
  BY <1>1, <1>2, <1>3 DEF Types, Places, Stamped
<1>5. PlaceInv'
  BY <1>1, <1>3 DEF IInv, PlaceInv
<1>6. DirectInv'
  BY <1>1, <1>3, QuietDirect
<1>7. BlockInv'
  BY <1>1, <1>2, BeginBlocks
<1>8. StampInv'
  BY <1>1, <1>3, StillStamps
<1> QED
  BY <1>4, <1>5, <1>6, <1>7, <1>8 DEF IInv

\* A request goes on to place x: nothing else changes.
LEMMA GoOn ==
  ASSUME IInv, NEW q \in Requests, NEW x \in Places, Goto(q, x),
         pc[q] = "sending" <=> x = "writing", x \notin {"sending", "reading"},
         UNCHANGED <<kind, blocks, msg, readAt, clock, req, blocked, raced, taken>>
  PROVE  /\ Types' /\ StampInv'
         /\ \A p \in Requests : pc'[p] = IF p = q THEN x ELSE pc[p]
<1>1. Types
  BY DEF IInv
<1>2. /\ pc' \in [Requests -> Places]
      /\ \A p \in Requests : pc'[p] = IF p = q THEN x ELSE pc[p]
  BY <1>1, GotoTypes
<1>3. Types'
  BY <1>1, <1>2 DEF Types, Places
<1>4. StampInv'
  BY <1>2, StillStamps
<1> QED
  BY <1>2, <1>3, <1>4

LEMMA CheckOpenStep ==
  ASSUME IInv, NEW q \in Requests, CheckOpen(q)
  PROVE  IInv'
<1>1. /\ pc[q] = "asked" /\ ~HasBlockBetween(req[q].by) /\ Goto(q, "checked")
      /\ UNCHANGED <<kind, blocks, msg, readAt, clock, req, blocked, raced, taken>>
  BY DEF CheckOpen, stored
<1>2. /\ Types' /\ StampInv'
      /\ \A p \in Requests : pc'[p] = IF p = q THEN "checked" ELSE pc[p]
  BY <1>1, GoOn DEF Places
<1>3. q \notin blocked
  BY <1>1, BlockIsBetween DEF IInv, PlaceInv, BlockInv
<1>4. PlaceInv'
  BY <1>1, <1>2 DEF IInv, PlaceInv
<1>5. DirectInv'
  BY <1>1, <1>2, QuietDirect
<1>6. BlockInv'
  <2>1. \A p \in blocked : p \in Requests /\ pc'[p] = pc[p]
    BY <1>2, <1>3 DEF IInv, Types
  <2>2. BlockInv
    BY DEF IInv
  <2> QED
    BY <1>1, <2>1, <2>2 DEF BlockInv, BlockStops
<1> QED
  BY <1>2, <1>4, <1>5, <1>6 DEF IInv

LEMMA LookUpStep ==
  ASSUME IInv, NEW q \in Requests, LookUp(q)
  PROVE  IInv'
<1>1. CASE Direct = {} /\ Goto(q, "creating") /\ UNCHANGED <<req, blocked>>
  <2>1. /\ pc[q] = "checked"
        /\ UNCHANGED <<kind, blocks, msg, readAt, clock, req, blocked, raced, taken>>
    BY <1>1 DEF LookUp, stored
  <2>2. /\ Types' /\ StampInv'
        /\ \A p \in Requests : pc'[p] = IF p = q THEN "creating" ELSE pc[p]
    BY <1>1, <2>1, GoOn DEF Places
  <2>3. q \notin blocked
    BY <2>1 DEF IInv, BlockInv
  <2>4. PlaceInv'
    BY <2>1, <2>2 DEF IInv, PlaceInv
  <2>5. DirectInv'
    BY <1>1, <2>1, <2>2, QuietDirect
  <2>6. BlockInv'
    BY <2>1, <2>2, <2>3 DEF IInv, BlockInv, BlockStops, Types
  <2> QED
    BY <2>2, <2>4, <2>5, <2>6 DEF IInv
<1>2. CASE Finish(q)
  <2>1. UNCHANGED <<kind, blocks, msg, readAt, clock, raced, taken>>
    BY DEF LookUp, stored
  <2>2. Types
    BY DEF IInv
  <2>3. /\ pc' \in [Requests -> Places]
        /\ \A p \in Requests : pc'[p] = IF p = q THEN "idle" ELSE pc[p]
        /\ req' \in [Requests -> Stamped]
        /\ \A p \in Requests : p # q => req'[p] = req[p]
        /\ blocked' = blocked \ {q}
    BY <1>2, <2>2, FinishTypes
  <2>4. Types'
    BY <2>1, <2>2, <2>3 DEF Types, Places, Stamped
  <2>5. PlaceInv'
    BY <2>1, <2>3 DEF IInv, PlaceInv
  <2>6. DirectInv'
    BY <2>1, <2>3, QuietDirect
  <2>7. BlockInv'
    BY <2>1, <2>2, <2>3 DEF IInv, BlockInv, BlockStops, Types
  <2>8. StampInv'
    BY <2>1, <2>3, StillStamps
  <2> QED
    BY <2>4, <2>5, <2>6, <2>7, <2>8 DEF IInv
<1> QED
  BY <1>1, <1>2 DEF LookUp

LEMMA CreateDirectStep ==
  ASSUME IInv, NEW q \in Requests, NEW c \in Convs, CreateDirect(q, c)
  PROVE  IInv'
<1>1. /\ pc[q] = "creating" /\ kind[c] = "none" /\ Finish(q)
      /\ kind' = [kind EXCEPT ![c] = "direct"]
      /\ raced' = (raced \/ \E p \in Requests \ {q} : pc[p] = "creating")
      /\ UNCHANGED <<blocks, msg, readAt, clock, taken>>
  BY DEF CreateDirect
<1>2. Types
  BY DEF IInv
<1>3. /\ pc' \in [Requests -> Places]
      /\ \A p \in Requests : pc'[p] = IF p = q THEN "idle" ELSE pc[p]
      /\ req' \in [Requests -> Stamped]
      /\ \A p \in Requests : p # q => req'[p] = req[p]
      /\ blocked' = blocked \ {q}
  BY <1>1, <1>2, FinishTypes
<1>4. /\ kind' \in [Convs -> {"none", "direct", "group"}]
      /\ \A d \in Convs : kind'[d] = IF d = c THEN "direct" ELSE kind[d]
  BY <1>1, <1>2 DEF Types
<1>5. raced' \in BOOLEAN
  BY <1>1
<1>6. Types'
  BY <1>1, <1>2, <1>3, <1>4, <1>5 DEF Types, Places, Stamped
<1>7. PlaceInv'
  BY <1>1, <1>3, <1>4 DEF IInv, PlaceInv
<1>8. DirectInv'
  <2> SUFFICES ASSUME ~raced'
               PROVE  /\ Direct' = {c}
                      /\ \A p \in Requests : pc'[p] # "creating"
    BY DEF DirectInv
  <2>1. ~raced /\ \A p \in Requests \ {q} : pc[p] # "creating"
    BY <1>1
  <2>2. Direct = {}
    BY <1>1, <2>1 DEF IInv, DirectInv
  <2>3. Direct' = {c}
    BY <1>4, <2>2 DEF Direct
  <2> QED
    BY <1>3, <2>1, <2>3
<1>9. BlockInv'
  <2>1. \A p \in blocked' : p \in blocked /\ p # q /\ p \in Requests
    BY <1>2, <1>3 DEF Types
  <2>2. \A p \in blocked' : pc'[p] = "writing" => req'[p].conv # c /\ req'[p].conv \in Convs
    BY <1>1, <1>3, <2>1 DEF IInv, PlaceInv
  <2> QED
    BY <1>1, <1>3, <1>4, <2>1, <2>2 DEF IInv, BlockInv, BlockStops
<1>10. StampInv'
  BY <1>1, <1>3, StillStamps
<1> QED
  BY <1>6, <1>7, <1>8, <1>9, <1>10 DEF IInv

LEMMA CreateGroupStep ==
  ASSUME IInv, NEW c \in Convs, CreateGroup(c)
  PROVE  IInv'
<1>1. /\ kind[c] = "none" /\ kind' = [kind EXCEPT ![c] = "group"]
      /\ UNCHANGED <<blocks, msg, readAt, clock, pc, req, blocked, raced, taken>>
  BY DEF CreateGroup
<1>2. Types
  BY DEF IInv
<1>3. /\ kind' \in [Convs -> {"none", "direct", "group"}]
      /\ \A d \in Convs : kind'[d] = IF d = c THEN "group" ELSE kind[d]
  BY <1>1, <1>2 DEF Types
<1>4. Types'
  BY <1>1, <1>2, <1>3 DEF Types
<1>5. PlaceInv'
  BY <1>1, <1>3 DEF IInv, PlaceInv
<1>6. DirectInv'
  <2>1. Direct' = Direct
    BY <1>1, <1>3 DEF Direct
  <2> QED
    BY <1>1, <2>1 DEF IInv, DirectInv
<1>7. BlockInv'
  <2>1. \A p \in blocked : p \in Requests
    BY <1>2 DEF Types
  <2>2. \A p \in blocked : pc[p] = "writing" => req[p].conv \in Convs
    BY <2>1 DEF IInv, PlaceInv
  <2> QED
    BY <1>1, <1>3, <2>1, <2>2 DEF IInv, BlockInv, BlockStops
<1>8. StampInv'
  BY <1>1, StillStamps
<1> QED
  BY <1>4, <1>5, <1>6, <1>7, <1>8 DEF IInv

LEMMA BlockStep ==
  ASSUME IInv, NEW u \in Users, NEW v \in Users, Block(u, v) \/ Unblock(u, v)
  PROVE  IInv'
<1>1. UNCHANGED <<kind, msg, readAt, clock, pc, req, raced, taken>>
  BY DEF Block, Unblock
<1>2. Types
  BY DEF IInv
<1>3. /\ blocks' \subseteq {p \in Users \X Users : p[1] # p[2]}
      /\ blocked' \subseteq blocked
      /\ blocked' # {} => blocks' # {}
  <2>1. CASE Block(u, v)
    <3>1. u # v /\ blocks' = blocks \cup {<<u, v>>} /\ blocked' = blocked
      BY <2>1 DEF Block
    <3>2. <<u, v>> \in {p \in Users \X Users : p[1] # p[2]} /\ <<u, v>> \in blocks'
      BY <3>1
    <3> QED
      BY <1>2, <3>1, <3>2 DEF Types
  <2>2. CASE Unblock(u, v)
    <3>1. /\ blocks' \subseteq blocks
          /\ blocked' = IF blocks' = {} THEN {} ELSE blocked
      BY <2>2 DEF Unblock
    <3> QED
      BY <1>2, <3>1 DEF Types
  <2> QED
    BY <2>1, <2>2
<1>4. Types'
  BY <1>1, <1>2, <1>3 DEF Types
<1>5. PlaceInv'
  BY <1>1 DEF IInv, PlaceInv
<1>6. DirectInv'
  BY <1>1, QuietDirect
<1>7. BlockInv'
  BY <1>1, <1>3 DEF IInv, BlockInv, BlockStops
<1>8. StampInv'
  BY <1>1, StillStamps
<1> QED
  BY <1>4, <1>5, <1>6, <1>7, <1>8 DEF IInv

LEMMA CheckSendStep ==
  ASSUME IInv, NEW q \in Requests, CheckSend(q)
  PROVE  IInv'
<1>1. /\ pc[q] = "sending" /\ Goto(q, "writing")
      /\ kind[req[q].conv] = "direct" => ~HasBlockBetween(req[q].by)
      /\ UNCHANGED <<kind, blocks, msg, readAt, clock, req, blocked, raced, taken>>
  BY DEF CheckSend, stored
<1>2. /\ Types' /\ StampInv'
      /\ \A p \in Requests : pc'[p] = IF p = q THEN "writing" ELSE pc[p]
  BY <1>1, GoOn DEF Places
<1>3. /\ req[q].by \in Users /\ req[q].conv \in Convs
      /\ kind[req[q].conv] \in {"direct", "group"}
  BY <1>1 DEF IInv, PlaceInv, Types
<1>4. q \in blocked => kind[req[q].conv] = "group"
  BY <1>1, <1>3, BlockIsBetween DEF IInv, BlockInv
<1>5. PlaceInv'
  BY <1>1, <1>2 DEF IInv, PlaceInv
<1>6. DirectInv'
  BY <1>1, <1>2, QuietDirect
<1>7. BlockInv'
  BY <1>1, <1>2, <1>4 DEF IInv, BlockInv, BlockStops, Types
<1> QED
  BY <1>2, <1>5, <1>6, <1>7 DEF IInv

LEMMA BeginSendStep ==
  ASSUME IInv, NEW q \in Requests, NEW u \in Users, NEW c \in Convs, BeginSend(q, u, c)
  PROVE  IInv'
<1>1. /\ kind[c] # "none"
      /\ UNCHANGED <<kind, blocks, msg, readAt, raced, taken>>
  BY DEF BeginSend, stored
<1>2. PICK t \in {clock, clock + 1} \cap 1..MaxClock :
        clock' = t /\ Begin(q, u, c, "sending", t)
  BY DEF BeginSend
<1>3. Types /\ "sending" \in Places /\ t \in Time
  BY TimeType DEF IInv, Places
<1>4. /\ pc[q] = "idle"
      /\ pc' \in [Requests -> Places]
      /\ \A p \in Requests : pc'[p] = IF p = q THEN "sending" ELSE pc[p]
      /\ req' \in [Requests -> Stamped]
      /\ \A p \in Requests :
           req'[p] = IF p = q THEN [by |-> u, conv |-> c, at |-> t] ELSE req[p]
      /\ blocked' \subseteq blocked \cup {q}
  BY <1>2, <1>3, BeginTypes
<1>5. t \in Nat /\ clock' \in 1..MaxClock /\ clock <= clock'
  BY <1>2, <1>3 DEF Types
<1>6. Types'
  BY <1>1, <1>2, <1>3, <1>4, <1>5 DEF Types, Places, Stamped
<1>7. PlaceInv'
  BY <1>1, <1>4 DEF IInv, PlaceInv
<1>8. DirectInv'
  BY <1>1, <1>4, QuietDirect
<1>9. BlockInv'
  BY <1>1, <1>2, <1>3, BeginBlocks
<1>10. StampInv'
  BY <1>1, <1>4, <1>5, QuietStamps
<1> QED
  BY <1>6, <1>7, <1>8, <1>9, <1>10 DEF IInv

LEMMA CommitSendStep ==
  ASSUME IInv, NEW q \in Requests, NEW m \in Messages, CommitSend(q, m)
  PROVE  IInv'
<1>1. /\ pc[q] = "writing" /\ msg[m].state = "none" /\ Finish(q)
      /\ msg' = [msg EXCEPT ![m] = [state |-> "sent", conv |-> req[q].conv,
                                    sender |-> req[q].by, at |-> req[q].at]]
      /\ UNCHANGED <<kind, blocks, readAt, clock, raced, taken>>
  BY DEF CommitSend
<1>2. Types
  BY DEF IInv
<1>3. /\ pc' \in [Requests -> Places]
      /\ \A p \in Requests : pc'[p] = IF p = q THEN "idle" ELSE pc[p]
      /\ req' \in [Requests -> Stamped]
      /\ \A p \in Requests : p # q => req'[p] = req[p]
      /\ blocked' = blocked \ {q}
  BY <1>1, <1>2, FinishTypes
<1>4. /\ req[q].by \in Users /\ req[q].conv \in Convs /\ req[q].at \in Time
      /\ kind[req[q].conv] # "none"
  BY <1>1, <1>2 DEF IInv, PlaceInv, Types
<1>5. /\ msg' \in [Messages -> [state : {"none", "sent", "deleted"},
                                conv : Convs \cup {Nobody},
                                sender : Users \cup {Nobody}, at : Time]]
      /\ \A n \in Messages :
           msg'[n] = IF n = m THEN [state |-> "sent", conv |-> req[q].conv,
                                    sender |-> req[q].by, at |-> req[q].at]
                     ELSE msg[n]
  BY <1>1, <1>2, <1>4 DEF Types
<1>6. Types'
  BY <1>1, <1>2, <1>3, <1>5 DEF Types, Places, Stamped
<1>7. PlaceInv'
  BY <1>1, <1>3, <1>4, <1>5 DEF IInv, PlaceInv
<1>8. DirectInv'
  BY <1>1, <1>3, QuietDirect
<1>9. BlockInv'
  BY <1>1, <1>2, <1>3 DEF IInv, BlockInv, BlockStops, Types
<1>10. StampInv'
  BY <1>1, <1>3, StillStamps
<1> QED
  BY <1>6, <1>7, <1>8, <1>9, <1>10 DEF IInv

\* The stamp is of the other clock; what is remembered is the time on this one.
LEMMA TakeReadTimeStep ==
  ASSUME IInv, NEW q \in Requests, NEW u \in Users, NEW c \in Convs, TakeReadTime(q, u, c)
  PROVE  IInv'
<1>1. /\ kind[c] # "none" /\ clock < MaxClock /\ clock' = clock + 1
      /\ taken' = [taken EXCEPT ![c][u] = clock]
      /\ UNCHANGED <<kind, blocks, msg, readAt, raced>>
  BY DEF TakeReadTime, stored
<1>2. Types /\ "reading" \in Places
  BY DEF IInv, Places
<1>3. clock \in 1..MaxClock /\ clock' \in 1..MaxClock
  BY <1>1, <1>2, BoundsAssumption DEF Types
<1>4. PICK t \in 1..clock + Ahead : Begin(q, u, c, "reading", t)
  BY DEF TakeReadTime
<1>5. t \in Time /\ t \in Nat /\ t <= clock + Ahead
  BY <1>3, <1>4, TimeType, BoundsAssumption
<1>6. /\ pc[q] = "idle"
      /\ pc' \in [Requests -> Places]
      /\ \A p \in Requests : pc'[p] = IF p = q THEN "reading" ELSE pc[p]
      /\ req' \in [Requests -> Stamped]
      /\ \A p \in Requests :
           req'[p] = IF p = q THEN [by |-> u, conv |-> c, at |-> t] ELSE req[p]
      /\ blocked' \subseteq blocked \cup {q}
  BY <1>2, <1>4, <1>5, BeginTypes
<1>7. /\ taken' \in [Convs -> [Users -> 0..MaxClock]]
      /\ \A d \in Convs, v \in Users :
           taken'[d][v] = IF d = c /\ v = u THEN clock ELSE taken[d][v]
  <2>1. clock \in 0..MaxClock
    BY <1>3
  <2> QED
    BY <1>1, <1>2, <2>1 DEF Types
<1>8. Types'
  BY <1>1, <1>2, <1>3, <1>6, <1>7 DEF Types, Places, Stamped
<1>9. PlaceInv'
  BY <1>1, <1>6 DEF IInv, PlaceInv
<1>10. DirectInv'
  BY <1>1, <1>6, QuietDirect
<1>11. BlockInv'
  BY <1>1, <1>4, <1>5, BeginBlocks
<1>12. StampInv'
  <2>1. \A d \in Convs, v \in Users : taken[d][v] \in Nat /\ taken[d][v] <= clock
    BY <1>2 DEF Types, IInv, StampInv
  <2>2. \A d \in Convs, v \in Users :
          taken'[d][v] \in Nat /\ taken[d][v] <= taken'[d][v] /\ taken'[d][v] <= clock'
    BY <1>1, <1>3, <1>7, <2>1
  <2>3. ASSUME NEW s \in Nat, NEW d \in Convs, NEW v \in Users, Taken(s, d, v)
        PROVE  taken'[d][v] # 0 /\ s <= taken'[d][v] + Ahead
    BY <2>1, <2>2, <2>3, BoundsAssumption DEF Taken
  <2>4. \A d \in Convs, v \in Users : readAt[d][v] \in Nat
    BY <1>2, StampTypes
  <2>5. \A d \in Convs, v \in Users : readAt'[d][v] # 0 => Taken(readAt[d][v], d, v)'
    BY <1>1, <2>3, <2>4 DEF IInv, StampInv, Taken
  <2>6. ASSUME NEW p \in Requests, pc'[p] = "reading"
        PROVE  Taken(req[p].at, req[p].conv, req[p].by)'
    <3>1. CASE p = q
      BY <1>3, <1>5, <1>6, <1>7, <3>1 DEF Taken
    <3>2. CASE p # q
      <4>1. req'[p] = req[p] /\ pc[p] = "reading"
        BY <1>6, <2>6, <3>2
      <4>2. req[p].at \in Nat /\ req[p].conv \in Convs /\ req[p].by \in Users
        BY <1>2, <4>1, TimeType DEF IInv, PlaceInv, Types
      <4>3. Taken(req[p].at, req[p].conv, req[p].by)
        BY <4>1 DEF IInv, StampInv
      <4> QED
        BY <2>3, <4>1, <4>2, <4>3 DEF Taken
    <3> QED
      BY <3>1, <3>2
  <2> QED
    BY <2>2, <2>5, <2>6 DEF StampInv
<1> QED
  BY <1>8, <1>9, <1>10, <1>11, <1>12 DEF IInv

LEMMA CommitReadStep ==
  ASSUME IInv, NEW q \in Requests, CommitRead(q)
  PROVE  IInv'
<1>1. /\ pc[q] = "reading" /\ Finish(q)
      /\ readAt' = [readAt EXCEPT ![req[q].conv][req[q].by] = req[q].at]
      /\ UNCHANGED <<kind, blocks, msg, clock, raced, taken>>
  BY DEF CommitRead
<1>2. Types
  BY DEF IInv
<1>3. /\ pc' \in [Requests -> Places]
      /\ \A p \in Requests : pc'[p] = IF p = q THEN "idle" ELSE pc[p]
      /\ req' \in [Requests -> Stamped]
      /\ \A p \in Requests : p # q => req'[p] = req[p]
      /\ blocked' = blocked \ {q}
  BY <1>1, <1>2, FinishTypes
<1>4. req[q].by \in Users /\ req[q].conv \in Convs /\ req[q].at \in Time
  BY <1>1, <1>2 DEF IInv, PlaceInv, Types
<1>5. /\ readAt' \in [Convs -> [Users -> Time]]
      /\ \A d \in Convs, v \in Users :
           readAt'[d][v] = IF d = req[q].conv /\ v = req[q].by THEN req[q].at
                           ELSE readAt[d][v]
  BY <1>1, <1>2, <1>4 DEF Types
<1>6. Types'
  BY <1>1, <1>2, <1>3, <1>5 DEF Types, Places, Stamped
<1>7. PlaceInv'
  BY <1>1, <1>3 DEF IInv, PlaceInv
<1>8. DirectInv'
  BY <1>1, <1>3, QuietDirect
<1>9. BlockInv'
  BY <1>1, <1>2, <1>3 DEF IInv, BlockInv, BlockStops, Types
<1>10. StampInv'
  <2>1. Taken(req[q].at, req[q].conv, req[q].by)
    BY <1>1 DEF IInv, StampInv
  <2>2. \A d \in Convs, v \in Users : readAt'[d][v] # 0 => Taken(readAt'[d][v], d, v)
    BY <1>5, <2>1 DEF IInv, StampInv
  <2>3. \A d \in Convs, v \in Users : readAt'[d][v] # 0 => Taken(readAt[d][v], d, v)'
    BY <1>1, <2>2 DEF Taken
  <2>4. \A p \in Requests :
          pc'[p] = "reading" => Taken(req[p].at, req[p].conv, req[p].by)'
    BY <1>1, <1>3 DEF IInv, StampInv, Taken
  <2> QED
    BY <1>1, <2>3, <2>4 DEF IInv, StampInv
<1> QED
  BY <1>6, <1>7, <1>8, <1>9, <1>10 DEF IInv

LEMMA PageStep ==
  ASSUME IInv, NEW q \in Requests,
         NextPage(q) \/ \E c \in Convs : FirstPage(q, c)
  PROVE  IInv'
<1>1. /\ pc[q] \in {"idle", "paging"}
      /\ \E x \in {"paging", "paged"} : Goto(q, x)
      /\ \/ req' = req
         \/ \E c \in Convs : req' = [req EXCEPT ![q] = [NoRequest EXCEPT !.conv = c]]
      /\ UNCHANGED <<kind, blocks, msg, readAt, clock, blocked, raced, taken>>
  <2>1. ASSUME NextPage(q) PROVE <1>1!:
    BY <2>1 DEF NextPage, GetPage, stored
  <2>2. ASSUME NEW c \in Convs, FirstPage(q, c) PROVE <1>1!:
    BY <2>2 DEF FirstPage, GetPage, stored
  <2> QED
    BY <2>1, <2>2
<1>2. PICK x \in {"paging", "paged"} : Goto(q, x)
  BY <1>1
<1>3. Types /\ x \in Places
  BY DEF IInv, Places
<1>4. /\ pc' \in [Requests -> Places]
      /\ \A p \in Requests : pc'[p] = IF p = q THEN x ELSE pc[p]
  BY <1>2, <1>3, GotoTypes
<1>5. req' \in [Requests -> Stamped] /\ \A p \in Requests : p # q => req'[p] = req[p]
  <2>1. CASE req' = req
    BY <1>3, <2>1 DEF Types, Stamped
  <2>2. ASSUME NEW c \in Convs, req' = [req EXCEPT ![q] = [NoRequest EXCEPT !.conv = c]]
        PROVE  <1>5!:
    <3>1. [NoRequest EXCEPT !.conv = c] \in Stamped
      BY BoundsAssumption DEF NoRequest, Stamped, Time
    <3> QED
      BY <1>3, <2>2, <3>1 DEF Types, Stamped
  <2> QED
    BY <1>1, <2>1, <2>2
<1>6. q \notin blocked
  BY <1>1 DEF IInv, BlockInv
<1>7. Types'
  BY <1>1, <1>3, <1>4, <1>5 DEF Types, Places, Stamped
<1>8. PlaceInv'
  BY <1>1, <1>4, <1>5 DEF IInv, PlaceInv
<1>9. DirectInv'
  BY <1>1, <1>4, QuietDirect
<1>10. BlockInv'
  <2>1. \A p \in blocked : p \in Requests /\ p # q
    BY <1>3, <1>6 DEF Types
  <2>2. \A p \in blocked : pc'[p] = pc[p] /\ req'[p] = req[p]
    BY <1>4, <1>5, <2>1
  <2> QED
    BY <1>1, <2>2 DEF IInv, BlockInv, BlockStops
<1>11. StampInv'
  BY <1>1, <1>4, <1>5, StillStamps
<1> QED
  BY <1>7, <1>8, <1>9, <1>10, <1>11 DEF IInv

LEMMA DeleteMessageStep ==
  ASSUME IInv, NEW m \in Messages, DeleteMessage(m)
  PROVE  IInv'
<1>1. /\ msg' = [msg EXCEPT ![m] = [Unsent EXCEPT !.state = "deleted"]]
      /\ UNCHANGED <<kind, blocks, readAt, clock, pc, req, blocked, raced, taken>>
  BY DEF DeleteMessage
<1>2. Types
  BY DEF IInv
<1>3. /\ msg' \in [Messages -> [state : {"none", "sent", "deleted"},
                                conv : Convs \cup {Nobody},
                                sender : Users \cup {Nobody}, at : Time]]
      /\ \A n \in Messages : n # m => msg'[n] = msg[n]
      /\ msg'[m].state = "deleted"
  <2>1. [Unsent EXCEPT !.state = "deleted"]
          = [state |-> "deleted", conv |-> Nobody, sender |-> Nobody, at |-> 0]
    BY DEF Unsent
  <2>2. 0 \in Time
    BY BoundsAssumption DEF Time
  <2> QED
    BY <1>1, <1>2, <2>1, <2>2 DEF Types
<1>4. Types'
  BY <1>1, <1>2, <1>3 DEF Types
<1>5. PlaceInv'
  BY <1>1, <1>3 DEF IInv, PlaceInv
<1>6. DirectInv'
  BY <1>1, QuietDirect
<1>7. BlockInv'
  BY <1>1 DEF IInv, BlockInv, BlockStops
<1>8. StampInv'
  BY <1>1, <1>3, StillStamps
<1> QED
  BY <1>4, <1>5, <1>6, <1>7, <1>8 DEF IInv

---------------------------------------------------------------------------
(* The invariant, and what follows from it.                                *)

LEMMA InvInit ==
  ASSUME Init PROVE IInv
<1>1. Types
  <2>1. 0 \in Time /\ 1 \in 1..MaxClock
    BY TimeType
  <2>2. /\ kind \in [Convs -> {"none", "direct", "group"}]
        /\ pc \in [Requests -> Places]
        /\ clock \in 1..MaxClock
        /\ blocks = {} /\ blocked = {} /\ raced = FALSE
    BY <2>1 DEF Init, Places
  <2>3. /\ msg \in [Messages -> [state : {"none", "sent", "deleted"},
                                 conv : Convs \cup {Nobody},
                                 sender : Users \cup {Nobody}, at : Time]]
        /\ req \in [Requests -> Stamped]
    BY <2>1 DEF Init, Unsent, NoRequest, Stamped
  <2>4. readAt \in [Convs -> [Users -> Time]] /\ taken \in [Convs -> [Users -> 0..MaxClock]]
    BY <2>1, BoundsAssumption DEF Init
  <2> QED
    BY <2>2, <2>3, <2>4 DEF Types, Places, Stamped
<1>2. PlaceInv
  BY DEF Init, PlaceInv, Unsent
<1>3. DirectInv
  BY DEF Init, DirectInv, Direct
<1>4. BlockInv
  BY DEF Init, BlockInv, BlockStops
<1>5. StampInv
  BY DEF Init, StampInv
<1> QED
  BY <1>1, <1>2, <1>3, <1>4, <1>5 DEF IInv

LEMMA InvStep ==
  ASSUME IInv, [Next]_vars PROVE IInv'
<1>1. ASSUME NEW q \in Requests, Request(q) PROVE IInv'
  <2>1. Busy \subseteq Convs /\ Marking \subseteq Users
    BY BusyAssumption
  <2> QED
    BY <1>1, <2>1, EndStep, AskToOpenStep, CheckOpenStep, LookUpStep, CreateDirectStep,
       BeginSendStep, CheckSendStep, CommitSendStep, TakeReadTimeStep, CommitReadStep,
       PageStep DEF Request
<1>2. CASE UNCHANGED vars
  <2>1. UNCHANGED <<kind, blocks, msg, readAt, clock, pc, req, blocked, raced, taken>>
    BY <1>2 DEF vars
  <2>2. Types' /\ PlaceInv' /\ BlockInv'
    BY <2>1 DEF IInv, Types, PlaceInv, BlockInv, BlockStops
  <2>3. DirectInv'
    BY <2>1, QuietDirect
  <2>4. StampInv'
    BY <2>1, StillStamps
  <2> QED
    BY <2>2, <2>3, <2>4 DEF IInv
<1> QED
  BY <1>1, <1>2, BusyAssumption, BlockStep, CreateGroupStep, DeleteMessageStep DEF Next

LEMMA Invariant == Spec => []IInv
<1>1. Init => IInv
  BY InvInit
<1>2. IInv /\ [Next]_vars => IInv'
  BY InvStep
<1> QED
  BY <1>1, <1>2, PTL DEF Spec

\* get_or_create_direct_conversation: two users have one direct conversation, unless
\* two requests found none before either made one.
THEOREM OneDirectConversation == Spec => []OneDirectUnlessRaced
<1>1. IInv => OneDirectUnlessRaced
  <2> SUFFICES ASSUME IInv, ~raced PROVE Cardinality(Direct) <= 1
    BY DEF OneDirectUnlessRaced
  <2>1. IsFiniteSet({}) /\ Cardinality({}) = 0
    BY FS_EmptySet
  <2>2. \A c : Cardinality({c}) = 1
    <3> SUFFICES ASSUME NEW c PROVE Cardinality({c}) = 1
      OBVIOUS
    <3>1. Cardinality({} \cup {c}) = 1
      BY <2>1, FS_AddElement
    <3>2. {} \cup {c} = {c}
      OBVIOUS
    <3> QED
      BY <3>1, <3>2
  <2> QED
    BY <2>1, <2>2 DEF IInv, DirectInv
<1> QED
  BY <1>1, Invariant, PTL

\* has_block_between: a block that stands, in whichever direction, from the beginning
\* of a request on stops it, whatever else is in flight.
THEOREM BlocksStopRequests == Spec => []BlockStops
<1>1. IInv => BlockStops
  BY DEF IInv, BlockInv
<1> QED
  BY <1>1, Invariant, PTL

\* get_unread_counts: if no host of the API is ahead of PostgreSQL by more than Ahead, a
\* message is counted that was begun more than Ahead after its recipient last took a
\* time to mark the conversation read with, however late that host's clock is and in
\* whatever order reads commit; so is any if the conversation was never marked read.
THEOREM UnreadIsCounted == Spec => []UnreadUnlessRead
<1>1. IInv => UnreadUnlessRead
  <2> SUFFICES ASSUME IInv, NEW m \in Messages, NEW u \in Users,
                      msg[m].state = "sent", msg[m].sender # u,
                      \/ taken[msg[m].conv][u] = 0
                      \/ msg[m].at > taken[msg[m].conv][u] + Ahead
               PROVE  m \in Unread(u, msg[m].conv)
    BY DEF UnreadUnlessRead
  <2>1. PICK c \in Convs : c = msg[m].conv
    BY DEF IInv, PlaceInv
  <2>2. readAt[c][u] \in Nat /\ taken[c][u] \in Nat /\ Ahead \in Nat
    BY StampTypes, BoundsAssumption DEF IInv
  <2>3. readAt[c][u] # 0 => Taken(readAt[c][u], c, u)
    BY DEF IInv, StampInv
  <2>4. msg[m].at \in Nat
    BY TimeType DEF IInv, Types
  <2>5. readAt[c][u] = 0 \/ msg[m].at > readAt[c][u]
    BY <2>1, <2>2, <2>3, <2>4 DEF Taken
  <2> QED
    BY <2>1, <2>5 DEF Unread
<1> QED
  BY <1>1, Invariant, PTL

---------------------------------------------------------------------------
(* The least of a set of naturals, from well-foundedness of <.  Of the     *)
(* sizes of subsets, it finds the greatest element of a finite set.        *)

LEMMA MinimalExists ==
  ASSUME NEW R, IsWellFoundedOn(R, Nat), NEW T, T \subseteq Nat, T # {}
  PROVE  \E x \in T : \A y \in T : ~ (<<y, x>> \in R)
BY WFMin

LEMMA LeastByRelation ==
  ASSUME NEW T, T \subseteq Nat, T # {}, NEW R, IsWellFoundedOn(R, Nat),
         \A a, b \in Nat : a < b => <<a, b>> \in R
  PROVE  \E x \in T : \A y \in T : x <= y
<1>1. \E x \in T : \A y \in T : ~ (<<y, x>> \in R)
  BY MinimalExists, Zenon
<1>2. PICK x \in T : \A y \in T : ~ (<<y, x>> \in R)
  BY <1>1
<1>3. \A y \in T : ~(y < x)
  BY <1>2, Zenon
<1>4. \A y \in T : x \in Nat /\ y \in Nat
  OBVIOUS
<1>5. \A y \in T : x <= y
  BY <1>3, <1>4
<1> QED
  BY <1>5

LEMMA LeastNatural ==
  ASSUME NEW T, T \subseteq Nat, T # {}
  PROVE  \E x \in T : \A y \in T : x <= y
<1>1. IsWellFoundedOn(OpToRel(<, Nat), Nat)
  BY NatLessThanWellFounded
<1>2. \A a, b \in Nat : a < b => <<a, b>> \in OpToRel(<, Nat)
  BY DEF OpToRel
<1>3. PICK R : IsWellFoundedOn(R, Nat) /\ \A a, b \in Nat : a < b => <<a, b>> \in R
  BY <1>1, <1>2, Zenon
<1> QED
  BY <1>3, LeastByRelation

\* The order of list_messages.
Older(m, n) == KeyLess(msg[m].at, m, msg[n].at, n)

LEMMA OlderIsOrder ==
  ASSUME Types, NEW m \in Messages, NEW n \in Messages, NEW o \in Messages
  PROVE  /\ ~Older(m, m)
         /\ Older(m, n) => ~Older(n, m)
         /\ Older(m, n) /\ Older(n, o) => Older(m, o)
         /\ m # n => Older(m, n) \/ Older(n, m)
<1>1. \A p \in Messages : msg[p].at \in Nat /\ p \in Nat
  BY MessagesAssumption DEF Types, Time
<1> QED
  BY <1>1 DEF Older, KeyLess

\* Of any messages one is the oldest ...
LEMMA OldestExists ==
  ASSUME Types, NEW P \in SUBSET Messages, P # {}
  PROVE  \E m \in P : \A n \in P \ {m} : Older(m, n)
<1>1. \A p \in Messages : msg[p].at \in Nat /\ p \in Nat
  BY MessagesAssumption DEF Types, Time
<1>2. PICK t \in {msg[p].at : p \in P} : \A u \in {msg[p].at : p \in P} : t <= u
  <2>1. {msg[p].at : p \in P} \subseteq Nat /\ {msg[p].at : p \in P} # {}
    BY <1>1
  <2> QED
    BY <2>1, LeastNatural
<1>3. PICK m \in {p \in P : msg[p].at = t} : \A n \in {p \in P : msg[p].at = t} : m <= n
  <2>1. {p \in P : msg[p].at = t} \subseteq Nat /\ {p \in P : msg[p].at = t} # {}
    BY <1>1, <1>2
  <2> QED
    BY <2>1, LeastNatural
<1>4. \A n \in P \ {m} : Older(m, n)
  <2> SUFFICES ASSUME NEW n \in P \ {m} PROVE KeyLess(msg[m].at, m, msg[n].at, n)
    BY DEF Older
  <2>1. msg[m].at \in Nat /\ msg[n].at \in Nat /\ m \in Nat /\ n \in Nat /\ m # n
    BY <1>1, <1>3
  <2>2. msg[m].at = t /\ t <= msg[n].at
    BY <1>2, <1>3
  <2>3. msg[n].at = t => m <= n
    BY <1>3
  <2> QED
    BY <2>1, <2>2, <2>3 DEF KeyLess
<1> QED
  BY <1>3, <1>4

Newer(R, m) == {n \in R : Older(m, n)}

LEMMA NewerSize ==
  ASSUME NEW R, IsFiniteSet(R), NEW m
  PROVE  /\ IsFiniteSet(Newer(R, m))
         /\ Cardinality(Newer(R, m)) \in Nat
         /\ Cardinality(Newer(R, m)) <= Cardinality(R)
BY FS_Subset, FS_CardinalityType DEF Newer

\* The fewer are newer, the newer a message is.
LEMMA FewerAreNewer ==
  ASSUME Types, NEW R \in SUBSET Messages, IsFiniteSet(R), NEW m \in R, NEW n \in R,
         Older(m, n)
  PROVE  Cardinality(Newer(R, n)) < Cardinality(Newer(R, m))
<1>1. Newer(R, n) \subseteq Newer(R, m)
  BY OlderIsOrder DEF Newer
<1>2. n \in Newer(R, m) /\ n \notin Newer(R, n)
  BY OlderIsOrder DEF Newer
<1>3. IsFiniteSet(Newer(R, m)) /\ IsFiniteSet(Newer(R, n))
  BY NewerSize
<1>4. /\ Cardinality(Newer(R, n)) <= Cardinality(Newer(R, m))
      /\ Cardinality(Newer(R, n)) = Cardinality(Newer(R, m)) => Newer(R, n) = Newer(R, m)
  BY <1>1, <1>3, FS_Subset
<1>5. Cardinality(Newer(R, n)) # Cardinality(Newer(R, m))
  BY <1>2, <1>4
<1>6. Cardinality(Newer(R, n)) \in Nat /\ Cardinality(Newer(R, m)) \in Nat
  BY NewerSize
<1> QED
  BY <1>4, <1>5, <1>6

\* ... and of finitely many one is the newest.
LEMMA NewestExists ==
  ASSUME Types, NEW R \in SUBSET Messages, IsFiniteSet(R), R # {}
  PROVE  \E m \in R : Newer(R, m) = {}
<1>1. /\ {Cardinality(Newer(R, m)) : m \in R} \subseteq Nat
      /\ {Cardinality(Newer(R, m)) : m \in R} # {}
  BY NewerSize
<1>2. PICK k \in {Cardinality(Newer(R, m)) : m \in R} :
        \A l \in {Cardinality(Newer(R, m)) : m \in R} : k <= l
  BY <1>1, LeastNatural
<1>3. PICK m \in R : k = Cardinality(Newer(R, m))
  BY <1>2
<1>4. \A n \in R : ~Older(m, n)
  <2> SUFFICES ASSUME NEW n \in R, Older(m, n) PROVE FALSE
    OBVIOUS
  <2>1. Cardinality(Newer(R, n)) < k
    BY <1>3, FewerAreNewer
  <2>2. k <= Cardinality(Newer(R, n))
    BY <1>2
  <2>3. k \in Nat /\ Cardinality(Newer(R, n)) \in Nat
    BY <1>3, NewerSize
  <2> QED
    BY <2>1, <2>2, <2>3
<1> QED
  BY <1>4 DEF Newer

\* A page is all there is ...
LEMMA LastPage ==
  ASSUME Types, NEW R \in SUBSET Messages, IsFiniteSet(R), ~(Cardinality(R) > PageSize)
  PROVE  Page(R) = R
<1> SUFFICES ASSUME NEW m \in R PROVE Cardinality(Newer(R, m)) < PageSize
  BY DEF Page, Newer, Older
<1>1. Newer(R, m) \subseteq R /\ Newer(R, m) # R
  BY OlderIsOrder DEF Newer
<1>2. /\ Cardinality(Newer(R, m)) <= Cardinality(R)
      /\ Cardinality(Newer(R, m)) # Cardinality(R)
  BY <1>1, FS_Subset
<1>3. Cardinality(Newer(R, m)) \in Nat /\ Cardinality(R) \in Nat /\ PageSize \in Nat
  BY NewerSize, FS_CardinalityType, BoundsAssumption
<1> QED
  BY <1>2, <1>3

OldestOf(P) == CHOOSE m \in P : \A n \in P \ {m} : Older(m, n)

\* ... or is cut at its oldest message: all others of it are newer, the rest is older.
LEMMA PageIsCut ==
  ASSUME Types, NEW R \in SUBSET Messages, IsFiniteSet(R), Cardinality(R) > PageSize
  PROVE  /\ OldestOf(Page(R)) \in Page(R)
         /\ \A n \in Page(R) : ~Older(n, OldestOf(Page(R)))
         /\ \A n \in R \ Page(R) : Older(n, OldestOf(Page(R)))
<1>1. R # {}
  <2>1. Cardinality({}) = 0
    BY FS_EmptySet
  <2> QED
    BY <2>1, BoundsAssumption
<1>2. PICK m \in R : Newer(R, m) = {}
  BY <1>1, NewestExists
<1>3. Page(R) = {n \in R : Cardinality(Newer(R, n)) < PageSize}
  BY DEF Page, Newer, Older
<1>4. m \in Page(R)
  <2>1. Cardinality(Newer(R, m)) = 0
    BY <1>2, FS_EmptySet
  <2> QED
    BY <1>3, <2>1, BoundsAssumption
<1>5. Page(R) \in SUBSET Messages
  BY <1>3
<1>6. \E n \in Page(R) : \A o \in Page(R) \ {n} : Older(n, o)
  BY <1>4, <1>5, OldestExists
<1>7. PICK l \in Page(R) : l = OldestOf(Page(R)) /\ \A o \in Page(R) \ {l} : Older(l, o)
  BY <1>6 DEF OldestOf
<1>8. \A n \in Page(R) : ~Older(n, l)
  BY <1>5, <1>7, OlderIsOrder
<1>9. \A n \in R \ Page(R) : Older(n, l)
  <2> SUFFICES ASSUME NEW n \in R \ Page(R), Older(l, n) PROVE FALSE
    BY <1>5, <1>7, OlderIsOrder
  <2>1. Cardinality(Newer(R, n)) < Cardinality(Newer(R, l))
    BY <1>3, <1>7, FewerAreNewer
  <2>2. Cardinality(Newer(R, l)) < PageSize
    BY <1>3, <1>7
  <2>3. /\ Cardinality(Newer(R, n)) \in Nat /\ Cardinality(Newer(R, l)) \in Nat
        /\ PageSize \in Nat
    BY NewerSize, BoundsAssumption
  <2> QED
    BY <1>3, <2>1, <2>2, <2>3
<1> QED
  BY <1>7, <1>8, <1>9

---------------------------------------------------------------------------
(* Paging.                                                                 *)

Paging(q) == pc[q] \in {"paging", "paged"}

PageState == [at : Time, last : Messages \cup {0}, shown : SUBSET Messages,
              due : SUBSET Messages]

SentAtAll == {m \in Messages : msg[m].state # "none"}

\* What is left after the cursor of q.
Left(q) == Rows(req[q].conv, pages.at, pages.last)

\* One client pages.  Nothing it was shown is left, and what it is due it has been
\* shown or is left.
PagesInv ==
  /\ pages \in PageState
  /\ \A p, q \in Requests : Paging(p) /\ Paging(q) => p = q
  /\ (\A q \in Requests : ~Paging(q)) => pages = NoPages
  /\ IsFiniteSet(SentAtAll)
  /\ pages.shown \subseteq SentAtAll
  /\ \A q \in Requests : pc[q] = "paging" =>
       /\ pages.last # 0
       /\ req[q].conv \in Convs
       /\ Left(q) \cap pages.shown = {}
       /\ pages.due \subseteq pages.shown \cup Left(q)
  /\ \A q \in Requests : pc[q] = "paged" => pages.due \subseteq pages.shown

\* What TypeOK says beyond Types and the pages.
RestOfTypes ==
  /\ \A q \in Requests : pc[q] = "idle" <=> req[q] = NoRequest
  /\ \A m \in Messages : msg[m].state = "sent" => kind[msg[m].conv] # "none"

\* What a page leaves, and what it does not.
LEMMA PageAdvances ==
  ASSUME Types, NEW c \in Convs, NEW t \in Time, NEW l \in Messages \cup {0},
         NEW R, R = Rows(c, t, l), IsFiniteSet(R), Cardinality(R) > PageSize,
         NEW shown, R \cap shown = {}, NEW due, due \subseteq shown \cup R,
         NEW o, o = OldestOf(Page(R))
  PROVE  /\ o \in Messages
         /\ Rows(c, msg[o].at, o) \cap (shown \cup Page(R)) = {}
         /\ due \subseteq (shown \cup Page(R)) \cup Rows(c, msg[o].at, o)
<1>1. R \in SUBSET Messages
  BY DEF Rows
<1>2. /\ o \in Page(R)
      /\ \A n \in Page(R) : ~Older(n, o)
      /\ \A n \in R \ Page(R) : Older(n, o)
  BY <1>1, PageIsCut
<1>3. Page(R) \subseteq R
  BY DEF Page
<1>4. o \in Messages /\ o # 0
  BY <1>1, <1>2, <1>3, MessagesAssumption
<1>5. \A n \in Messages : n \in Rows(c, msg[o].at, o) <=>
        msg[n].state = "sent" /\ msg[n].conv = c /\ Older(n, o)
  BY <1>4 DEF Rows, Older
<1>6. Rows(c, msg[o].at, o) \subseteq R
  <2> SUFFICES ASSUME NEW n \in Messages, n \in Rows(c, msg[o].at, o) PROVE n \in R
    BY DEF Rows
  <2>1. Older(n, o) /\ o \in R
    BY <1>2, <1>3, <1>5
  <2>2. /\ msg[n].at \in Nat /\ msg[o].at \in Nat /\ t \in Nat
        /\ n \in Nat /\ o \in Nat /\ l \in Nat
    BY <1>4, MessagesAssumption DEF Types, Time
  <2>3. l # 0 => KeyLess(msg[o].at, o, t, l)
    BY <2>1 DEF Rows
  <2>4. l # 0 => KeyLess(msg[n].at, n, t, l)
    BY <2>1, <2>2, <2>3 DEF Older, KeyLess
  <2> QED
    BY <1>5, <2>4 DEF Rows
<1>7. \A n \in R : n \in Messages /\ msg[n].state = "sent" /\ msg[n].conv = c
  BY DEF Rows
<1>8. Rows(c, msg[o].at, o) \cap (shown \cup Page(R)) = {}
  BY <1>1, <1>2, <1>3, <1>5, <1>6
<1>9. R \ Page(R) \subseteq Rows(c, msg[o].at, o)
  BY <1>2, <1>5, <1>7
<1> QED
  BY <1>4, <1>8, <1>9

LEMMA GetPageGives ==
  ASSUME Types, pages \in PageState, NEW q \in Requests, NEW c \in Convs,
         NEW due \in SUBSET Messages, GetPage(q, c, due),
         NEW R, R = Rows(c, pages.at, pages.last), IsFiniteSet(R),
         R \cap pages.shown = {}, due \subseteq pages.shown \cup R
  PROVE  /\ pages' \in PageState
         /\ pages'.shown \subseteq pages.shown \cup R
         /\ \/ /\ Goto(q, "paging")
               /\ pages'.last # 0
               /\ Rows(c, pages'.at, pages'.last) \cap pages'.shown = {}
               /\ pages'.due \subseteq pages'.shown \cup Rows(c, pages'.at, pages'.last)
            \/ /\ Goto(q, "paged")
               /\ pages'.due \subseteq pages'.shown
<1>1. R \in SUBSET Messages /\ Page(R) \subseteq R
  BY DEF Rows, Page
<1>2. 0 \in Time /\ \A m \in Messages : msg[m].at \in Time /\ m # 0
  BY BoundsAssumption, MessagesAssumption DEF Types, Time
<1>3. pages.at \in Time /\ pages.last \in Messages \cup {0} /\ pages.shown \in SUBSET Messages
  BY DEF PageState
<1>4. CASE Cardinality(R) > PageSize
  <2>1. PICK o : o = OldestOf(Page(R))
    OBVIOUS
  <2>2. /\ Goto(q, "paging")
        /\ pages' = [at |-> msg[o].at, last |-> o, shown |-> pages.shown \cup Page(R),
                     due |-> due]
    BY <1>4, <2>1 DEF GetPage, OldestOf, Older
  <2>3. /\ o \in Messages
        /\ Rows(c, msg[o].at, o) \cap (pages.shown \cup Page(R)) = {}
        /\ due \subseteq (pages.shown \cup Page(R)) \cup Rows(c, msg[o].at, o)
    <3>1. PICK t \in Time, l \in Messages \cup {0}, shown \in SUBSET Messages :
            t = pages.at /\ l = pages.last /\ shown = pages.shown
      BY <1>3
    <3>2. R = Rows(c, t, l) /\ R \cap shown = {} /\ due \subseteq shown \cup R
      BY <3>1
    <3>3. /\ o \in Messages
          /\ Rows(c, msg[o].at, o) \cap (shown \cup Page(R)) = {}
          /\ due \subseteq (shown \cup Page(R)) \cup Rows(c, msg[o].at, o)
      BY <1>4, <2>1, <3>2, PageAdvances
    <3> QED
      BY <3>1, <3>3
  <2>4. pages' \in PageState
    BY <1>1, <1>2, <1>3, <2>2, <2>3 DEF PageState
  <2> QED
    BY <1>1, <1>2, <2>2, <2>3, <2>4
<1>5. CASE ~(Cardinality(R) > PageSize)
  <2>1. /\ Goto(q, "paged")
        /\ pages' = [at |-> 0, last |-> 0, shown |-> pages.shown \cup Page(R), due |-> due]
    BY <1>5 DEF GetPage
  <2>2. Page(R) = R
    BY <1>1, <1>5, LastPage
  <2>3. pages' \in PageState
    BY <1>1, <1>2, <1>3, <2>1 DEF PageState
  <2> QED
    BY <2>1, <2>2, <2>3
<1> QED
  BY <1>4, <1>5

\* A step that leaves the pages, whoever has them and what they can hold alone.
QuietRequests ==
  \A p \in Requests :
    \/ pc'[p] = pc[p] /\ req'[p] = req[p]
    \/ /\ ~Paging(p) /\ pc'[p] \notin {"paging", "paged"}
       /\ pc'[p] = "idle" <=> req'[p] = NoRequest

Quiet ==
  /\ UNCHANGED pages
  /\ QuietRequests
  /\ \A m \in Messages : msg[m].state # "none" => msg'[m] = msg[m]
  /\ \E n : \A m \in Messages : m # n => msg'[m] = msg[m]
  /\ \A m \in Messages : msg'[m].state = "sent" =>
       msg'[m] = msg[m] \/ (msg'[m].conv \in Convs /\ kind[msg'[m].conv] # "none")
  /\ \A c \in Convs : kind[c] # "none" => kind'[c] # "none"

LEMMA QuietKeepsPages ==
  ASSUME Types, PagesInv, Quiet
  PROVE  PagesInv'
<1>1. /\ pages' = pages
      /\ \A p \in Requests : pc'[p] \in {"paging", "paged"} \/ Paging(p) =>
           pc'[p] = pc[p] /\ req'[p] = req[p]
      /\ \A m \in Messages : msg[m].state # "none" => msg'[m] = msg[m]
  BY DEF Quiet, QuietRequests, Paging
<1>2. IsFiniteSet(SentAtAll')
  <2>1. PICK n : \A m \in Messages : m # n => msg'[m] = msg[m]
    BY DEF Quiet
  <2>2. SentAtAll' \subseteq SentAtAll \cup {n}
    BY <2>1 DEF SentAtAll
  <2>3. IsFiniteSet(SentAtAll \cup {n})
    BY FS_AddElement DEF PagesInv
  <2> QED
    BY <2>2, <2>3, FS_Subset
<1>3. pages.shown \subseteq SentAtAll'
  BY <1>1 DEF PagesInv, SentAtAll
<1>4. ASSUME NEW q \in Requests, pc'[q] = "paging"
      PROVE  /\ pages.last # 0
             /\ req'[q].conv \in Convs
             /\ Left(q)' \cap pages.shown = {}
             /\ pages.due \subseteq pages.shown \cup Left(q)'
  <2>1. pc[q] = "paging" /\ req'[q] = req[q]
    BY <1>1, <1>4
  <2>2. /\ pages.last # 0 /\ req[q].conv \in Convs /\ Left(q) \cap pages.shown = {}
        /\ pages.due \subseteq pages.shown \cup Left(q)
    BY <2>1 DEF PagesInv
  <2>3. Left(q) \subseteq Left(q)'
    BY <1>1, <2>1 DEF Left, Rows
  <2>4. \A m \in SentAtAll : m \in Left(q)' => m \in Left(q)
    BY <1>1, <2>1 DEF Left, Rows, SentAtAll
  <2>5. pages.shown \subseteq SentAtAll
    BY DEF PagesInv
  <2> QED
    BY <2>1, <2>2, <2>3, <2>4, <2>5
<1>5. \A q \in Requests : pc'[q] = "paged" => pages.due \subseteq pages.shown
  BY <1>1 DEF PagesInv
<1>6. \A p, q \in Requests : Paging(p)' /\ Paging(q)' => p = q
  BY <1>1 DEF PagesInv, Paging
<1>7. (\A q \in Requests : ~Paging(q)') => pages = NoPages
  BY <1>1 DEF PagesInv, Paging
<1>8. pages' \in PageState'
  BY <1>1 DEF PagesInv, PageState
<1> QED
  BY <1>1, <1>2, <1>3, <1>4, <1>5, <1>6, <1>7, <1>8 DEF PagesInv

LEMMA QuietKeepsTypes ==
  ASSUME PlaceInv, RestOfTypes, Quiet
  PROVE  RestOfTypes'
<1>1. \A q \in Requests : pc'[q] = "idle" <=> req'[q] = NoRequest
  BY DEF RestOfTypes, Quiet, QuietRequests
<1>2. \A m \in Messages : msg'[m].state = "sent" => kind'[msg'[m].conv] # "none"
  BY DEF PlaceInv, RestOfTypes, Quiet
<1> QED
  BY <1>1, <1>2 DEF RestOfTypes

LEMMA FinishIsQuiet ==
  ASSUME Types, NEW q \in Requests, Finish(q), pc[q] \notin {"paging", "paged"}
  PROVE  QuietRequests
BY DEF Types, Finish, Goto, QuietRequests, Paging

LEMMA GotoIsQuiet ==
  ASSUME Types, RestOfTypes, NEW q \in Requests,
         NEW x \in Places \ {"idle", "paging", "paged"}, Goto(q, x), UNCHANGED req,
         pc[q] \notin {"idle", "paging", "paged"}
  PROVE  QuietRequests
BY DEF Types, RestOfTypes, Goto, QuietRequests, Paging, Places

LEMMA BeginIsQuiet ==
  ASSUME Types, NEW q \in Requests, NEW u \in Users, NEW c \in Convs \cup {Nobody},
         NEW x \in Places \ {"idle", "paging", "paged"}, NEW t \in Time,
         Begin(q, u, c, x, t)
  PROVE  QuietRequests
<1>1. /\ pc[q] = "idle"
      /\ \A p \in Requests : pc'[p] = IF p = q THEN x ELSE pc[p]
      /\ \A p \in Requests :
           req'[p] = IF p = q THEN [by |-> u, conv |-> c, at |-> t] ELSE req[p]
  BY BeginTypes
<1>2. [by |-> u, conv |-> c, at |-> t] # NoRequest
  BY NamesAssumption DEF NoRequest
<1> QED
  BY <1>1, <1>2 DEF QuietRequests, Paging

\* The requests that do not page.
LEMMA OpeningIsQuiet ==
  ASSUME Types, RestOfTypes, NEW q \in Requests,
         \/ \E u \in Users : AskToOpen(q, u)
         \/ CheckOpen(q)
         \/ LookUp(q)
         \/ \E c \in Convs : CreateDirect(q, c)
  PROVE  Quiet
<1>1. ASSUME NEW u \in Users, AskToOpen(q, u) PROVE Quiet
  <2>1. /\ Begin(q, u, Nobody, "asked", 0)
        /\ UNCHANGED <<kind, msg, pages>>
    BY <1>1 DEF AskToOpen, stored
  <2>2. 0 \in Time /\ "asked" \in Places \ {"idle", "paging", "paged"}
    BY BoundsAssumption DEF Time, Places
  <2> QED
    BY <2>1, <2>2, BeginIsQuiet DEF Quiet, RestOfTypes
<1>2. CASE CheckOpen(q)
  <2>1. /\ pc[q] = "asked" /\ Goto(q, "checked")
        /\ UNCHANGED <<kind, msg, req, pages>>
    BY <1>2 DEF CheckOpen, stored
  <2>2. "checked" \in Places \ {"idle", "paging", "paged"}
    BY DEF Places
  <2> QED
    BY <2>1, <2>2, GotoIsQuiet DEF Quiet, RestOfTypes
<1>3. CASE LookUp(q)
  <2>1. /\ pc[q] = "checked"
        /\ (Goto(q, "creating") /\ UNCHANGED req) \/ Finish(q)
        /\ UNCHANGED <<kind, msg, pages>>
    BY <1>3 DEF LookUp, stored
  <2>2. "creating" \in Places \ {"idle", "paging", "paged"}
    BY DEF Places
  <2> QED
    BY <2>1, <2>2, GotoIsQuiet, FinishIsQuiet DEF Quiet, RestOfTypes
<1>4. ASSUME NEW c \in Convs, CreateDirect(q, c) PROVE Quiet
  <2>1. /\ pc[q] = "creating" /\ Finish(q)
        /\ kind' = [kind EXCEPT ![c] = "direct"]
        /\ UNCHANGED <<msg, pages>>
    BY <1>4 DEF CreateDirect
  <2>2. \A d \in Convs : kind[d] # "none" => kind'[d] # "none"
    BY <2>1 DEF Types
  <2> QED
    BY <2>1, <2>2, FinishIsQuiet DEF Quiet, RestOfTypes
<1> QED
  BY <1>1, <1>2, <1>3, <1>4

LEMMA SendingIsQuiet ==
  ASSUME Types, PlaceInv, RestOfTypes, NEW q \in Requests,
         \/ \E u \in Users, c \in Busy : BeginSend(q, u, c)
         \/ CheckSend(q)
         \/ \E m \in Messages : CommitSend(q, m)
  PROVE  Quiet
<1>1. ASSUME NEW u \in Users, NEW c \in Busy, BeginSend(q, u, c) PROVE Quiet
  <2>1. /\ \E t \in Time : Begin(q, u, c, "sending", t)
        /\ UNCHANGED <<kind, msg, pages>>
    BY <1>1, TimeType DEF BeginSend, stored
  <2>2. c \in Convs /\ "sending" \in Places \ {"idle", "paging", "paged"}
    BY BusyAssumption DEF Places
  <2> QED
    BY <2>1, <2>2, BeginIsQuiet DEF Quiet, RestOfTypes
<1>2. CASE CheckSend(q)
  <2>1. /\ pc[q] = "sending" /\ Goto(q, "writing")
        /\ UNCHANGED <<kind, msg, req, pages>>
    BY <1>2 DEF CheckSend, stored
  <2>2. "writing" \in Places \ {"idle", "paging", "paged"}
    BY DEF Places
  <2> QED
    BY <2>1, <2>2, GotoIsQuiet DEF Quiet, RestOfTypes
<1>3. ASSUME NEW m \in Messages, CommitSend(q, m) PROVE Quiet
  <2>1. /\ pc[q] = "writing" /\ Finish(q) /\ msg[m].state = "none"
        /\ msg' = [msg EXCEPT ![m] = [state |-> "sent", conv |-> req[q].conv,
                                      sender |-> req[q].by, at |-> req[q].at]]
        /\ UNCHANGED <<kind, pages>>
    BY <1>3 DEF CommitSend
  <2>2. /\ \A n \in Messages : n # m => msg'[n] = msg[n]
        /\ msg'[m].conv = req[q].conv
    BY <2>1 DEF Types
  <2>3. msg'[m].conv \in Convs /\ kind[msg'[m].conv] # "none"
    BY <2>1, <2>2 DEF PlaceInv
  <2>4. QuietRequests
    BY <2>1, FinishIsQuiet
  <2>5. \A n \in Messages : msg[n].state # "none" => msg'[n] = msg[n]
    BY <2>1, <2>2
  <2>6. \A n \in Messages : msg'[n].state = "sent" =>
          msg'[n] = msg[n] \/ (msg'[n].conv \in Convs /\ kind[msg'[n].conv] # "none")
    BY <2>2, <2>3
  <2> QED
    BY <2>1, <2>2, <2>4, <2>5, <2>6 DEF Quiet, RestOfTypes
<1> QED
  BY <1>1, <1>2, <1>3

LEMMA ReadingIsQuiet ==
  ASSUME Types, RestOfTypes, NEW q \in Requests,
         \/ \E u \in Marking, c \in Busy : TakeReadTime(q, u, c)
         \/ CommitRead(q)
  PROVE  Quiet
<1>1. ASSUME NEW u \in Marking, NEW c \in Busy, TakeReadTime(q, u, c) PROVE Quiet
  <2>1. PICK t \in 1..clock + Ahead : /\ Begin(q, u, c, "reading", t)
                                     /\ UNCHANGED <<kind, msg, pages>>
    BY <1>1 DEF TakeReadTime, stored
  <2>2. /\ u \in Users /\ c \in Convs /\ t \in Time
        /\ "reading" \in Places \ {"idle", "paging", "paged"}
    BY BusyAssumption, TimeType DEF Types, Places
  <2> QED
    BY <2>1, <2>2, BeginIsQuiet DEF Quiet, RestOfTypes
<1>2. CASE CommitRead(q)
  <2>1. pc[q] = "reading" /\ Finish(q) /\ UNCHANGED <<kind, msg, pages>>
    BY <1>2 DEF CommitRead
  <2> QED
    BY <2>1, FinishIsQuiet DEF Quiet, RestOfTypes
<1> QED
  BY <1>1, <1>2

LEMMA OthersAreQuiet ==
  ASSUME Types, RestOfTypes,
         \/ \E u, v \in Users : Block(u, v) \/ Unblock(u, v)
         \/ \E c \in Busy : CreateGroup(c)
         \/ UNCHANGED vars
  PROVE  Quiet
<1>1. UNCHANGED <<msg, pc, req, pages>>
  BY DEF Block, Unblock, CreateGroup, vars
<1>2. \A c \in Convs : kind[c] # "none" => kind'[c] # "none"
  BY DEF Types, Block, Unblock, CreateGroup, vars
<1> QED
  BY <1>1, <1>2 DEF Quiet, QuietRequests, RestOfTypes

LEMMA RowsAreFinite ==
  ASSUME PagesInv, NEW c, NEW t, NEW l
  PROVE  IsFiniteSet(Rows(c, t, l)) /\ Rows(c, t, l) \in SUBSET Messages
<1>1. Rows(c, t, l) \subseteq SentAtAll
  BY DEF Rows, SentAtAll
<1> QED
  BY <1>1, FS_Subset DEF PagesInv, SentAtAll

\* q, the only one that pages, gets a page of c.
LEMMA PageKeepsPages ==
  ASSUME Types, PagesInv, NEW q \in Requests, NEW c \in Convs,
         NEW due \in SUBSET Messages, GetPage(q, c, due),
         \A p \in Requests \ {q} : ~Paging(p),
         Rows(c, pages.at, pages.last) \cap pages.shown = {},
         due \subseteq pages.shown \cup Rows(c, pages.at, pages.last),
         req'[q].conv = c, UNCHANGED msg
  PROVE  PagesInv'
<1>1. PICK R : R = Rows(c, pages.at, pages.last)
  OBVIOUS
<1>2. IsFiniteSet(R) /\ R \in SUBSET Messages
  BY <1>1, RowsAreFinite
<1>3. /\ pages' \in PageState
      /\ pages'.shown \subseteq pages.shown \cup R
      /\ \/ /\ Goto(q, "paging")
            /\ pages'.last # 0
            /\ Rows(c, pages'.at, pages'.last) \cap pages'.shown = {}
            /\ pages'.due \subseteq pages'.shown \cup Rows(c, pages'.at, pages'.last)
         \/ /\ Goto(q, "paged")
            /\ pages'.due \subseteq pages'.shown
  BY <1>1, <1>2, GetPageGives DEF PagesInv
<1>4. PICK x \in {"paging", "paged"} :
        /\ Goto(q, x)
        /\ x = "paging" =>
             /\ pages'.last # 0
             /\ Rows(c, pages'.at, pages'.last) \cap pages'.shown = {}
             /\ pages'.due \subseteq pages'.shown \cup Rows(c, pages'.at, pages'.last)
        /\ x = "paged" => pages'.due \subseteq pages'.shown
  BY <1>3
<1>5. \A p \in Requests : pc'[p] = IF p = q THEN x ELSE pc[p]
  BY <1>4, GotoTypes DEF Places
<1>6. \A p \in Requests : Paging(p)' <=> p = q
  BY <1>5 DEF Paging
<1>7. SentAtAll' = SentAtAll /\ pages.shown \subseteq SentAtAll /\ R \subseteq SentAtAll
  BY <1>1 DEF PagesInv, SentAtAll, Rows
<1>8. ASSUME NEW p \in Requests, pc'[p] = "paging"
      PROVE  /\ pages'.last # 0
             /\ req'[p].conv \in Convs
             /\ Left(p)' \cap pages'.shown = {}
             /\ pages'.due \subseteq pages'.shown \cup Left(p)'
  <2>1. p = q /\ x = "paging"
    BY <1>5, <1>6, <1>8 DEF Paging
  <2>2. Left(p)' = Rows(c, pages'.at, pages'.last)
    BY <2>1 DEF Left, Rows
  <2> QED
    BY <1>4, <2>1, <2>2
<1>9. \A p \in Requests : pc'[p] = "paged" => pages'.due \subseteq pages'.shown
  BY <1>4, <1>5, <1>6 DEF Paging
<1>10. (\A p \in Requests : ~Paging(p)') => pages' = NoPages
  BY <1>6
<1>11. \A o, p \in Requests : Paging(o)' /\ Paging(p)' => o = p
  BY <1>6
<1>12. IsFiniteSet(SentAtAll') /\ pages'.shown \subseteq SentAtAll'
  BY <1>3, <1>7 DEF PagesInv
<1> QED
  BY <1>3, <1>8, <1>9, <1>10, <1>11, <1>12 DEF PagesInv, PageState

LEMMA PagingStep ==
  ASSUME Types, PagesInv, RestOfTypes, NEW q \in Requests,
         NextPage(q) \/ \E c \in Busy : FirstPage(q, c)
  PROVE  PagesInv' /\ RestOfTypes'
<1>1. CASE NextPage(q)
  <2>1. /\ pc[q] = "paging" /\ GetPage(q, req[q].conv, pages.due)
        /\ UNCHANGED <<kind, msg, req>>
    BY <1>1 DEF NextPage, stored
  <2>2. PICK c \in Convs, due \in SUBSET Messages : c = req[q].conv /\ due = pages.due
    BY <2>1 DEF PagesInv, PageState
  <2>3. /\ Rows(c, pages.at, pages.last) \cap pages.shown = {}
        /\ due \subseteq pages.shown \cup Rows(c, pages.at, pages.last)
    BY <2>1, <2>2 DEF PagesInv, Left
  <2>4. \A p \in Requests \ {q} : ~Paging(p)
    BY <2>1 DEF PagesInv, Paging
  <2>5. GetPage(q, c, due) /\ req'[q].conv = c
    BY <2>1, <2>2
  <2>6. PagesInv'
    BY <2>1, <2>3, <2>4, <2>5, PageKeepsPages
  <2>7. \E x \in Places \ {"idle"} : Goto(q, x)
    BY <2>5 DEF GetPage, Places
  <2>8. RestOfTypes'
    BY <2>1, <2>7 DEF Types, RestOfTypes, Goto
  <2> QED
    BY <2>6, <2>8
<1>2. ASSUME NEW c \in Busy, FirstPage(q, c) PROVE PagesInv' /\ RestOfTypes'
  <2>1. /\ pc[q] = "idle" /\ \A p \in Requests : ~Paging(p)
        /\ GetPage(q, c, Rows(c, 0, 0))
        /\ req' = [req EXCEPT ![q] = [NoRequest EXCEPT !.conv = c]]
        /\ UNCHANGED <<kind, msg>>
    BY <1>2 DEF FirstPage, stored, Paging
  <2>2. PICK due \in SUBSET Messages : due = Rows(c, 0, 0)
    BY RowsAreFinite
  <2>3. pages.at = 0 /\ pages.last = 0 /\ pages.shown = {}
    BY <2>1 DEF PagesInv, NoPages
  <2>4. c \in Convs /\ c # Nobody
    BY BusyAssumption, NamesAssumption
  <2>5. req'[q] = [by |-> Nobody, conv |-> c, at |-> 0]
    BY <2>1 DEF Types, NoRequest
  <2>6. GetPage(q, c, due) /\ req'[q].conv = c
    BY <2>1, <2>2, <2>5
  <2>7. PagesInv'
    BY <2>1, <2>2, <2>3, <2>4, <2>6, PageKeepsPages
  <2>8. \E x \in Places \ {"idle"} : Goto(q, x)
    BY <2>6 DEF GetPage, Places
  <2>9. req'[q] # NoRequest
    BY <2>4, <2>5 DEF NoRequest
  <2>10. RestOfTypes'
    BY <2>1, <2>8, <2>9 DEF Types, RestOfTypes, Goto
  <2> QED
    BY <2>7, <2>10
<1> QED
  BY <1>1, <1>2

LEMMA EndKeepsPages ==
  ASSUME Types, PlaceInv, PagesInv, RestOfTypes, NEW q \in Requests, End(q)
  PROVE  PagesInv' /\ RestOfTypes'
<1>1. /\ Finish(q)
      /\ UNCHANGED <<kind, msg>>
      /\ pages' = IF Paging(q) THEN NoPages ELSE pages
  BY DEF End, stored, Paging
<1>2. CASE ~Paging(q)
  <2>1. QuietRequests
    BY <1>1, <1>2, FinishIsQuiet DEF Paging
  <2>2. Quiet
    BY <1>1, <1>2, <2>1 DEF Quiet, RestOfTypes
  <2> QED
    BY <2>2, QuietKeepsPages, QuietKeepsTypes
<1>3. CASE Paging(q)
  <2>1. /\ \A p \in Requests : pc'[p] = IF p = q THEN "idle" ELSE pc[p]
        /\ \A p \in Requests : req'[p] = IF p = q THEN NoRequest ELSE req[p]
    BY <1>1 DEF Types, Finish, Goto
  <2>2. \A p \in Requests : ~Paging(p)'
    BY <1>3, <2>1 DEF PagesInv, Paging
  <2>3. NoPages \in PageState
    BY BoundsAssumption DEF NoPages, PageState, Time
  <2>4. SentAtAll' = SentAtAll
    BY <1>1 DEF SentAtAll
  <2>5. PagesInv'
    BY <1>1, <1>3, <2>2, <2>3, <2>4 DEF PagesInv, NoPages, Paging, PageState
  <2>6. RestOfTypes'
    BY <1>1, <2>1 DEF RestOfTypes
  <2> QED
    BY <2>5, <2>6
<1> QED
  BY <1>2, <1>3

LEMMA DeletionKeepsPages ==
  ASSUME Types, PagesInv, RestOfTypes, NEW m \in Messages, DeleteMessage(m)
  PROVE  PagesInv' /\ RestOfTypes'
<1>1. /\ msg[m].state = "sent"
      /\ msg' = [msg EXCEPT ![m] = [Unsent EXCEPT !.state = "deleted"]]
      /\ pages' = [pages EXCEPT !.due = @ \ {m}]
      /\ UNCHANGED <<kind, pc, req>>
  BY DEF DeleteMessage
<1>2. /\ \A n \in Messages : n # m => msg'[n] = msg[n]
      /\ msg'[m].state = "deleted"
  BY <1>1 DEF Types, Unsent
<1>3. /\ pages' \in PageState
      /\ pages'.at = pages.at /\ pages'.last = pages.last /\ pages'.shown = pages.shown
      /\ pages'.due = pages.due \ {m}
  BY <1>1 DEF PagesInv, PageState
<1>4. SentAtAll' = SentAtAll
  BY <1>1, <1>2 DEF SentAtAll
<1>5. \A q \in Requests : Left(q)' = Left(q) \ {m}
  BY <1>1, <1>2, <1>3 DEF Left, Rows
<1>6. (\A q \in Requests : ~Paging(q)) => pages' = NoPages
  <2>1. pages = NoPages => pages' = NoPages
    BY <1>1 DEF NoPages
  <2> QED
    BY <2>1 DEF PagesInv
<1>7. \A q \in Requests : Paging(q)' <=> Paging(q)
  BY <1>1 DEF Paging
<1>8. PagesInv'
  BY <1>1, <1>3, <1>4, <1>5, <1>6, <1>7 DEF PagesInv, PageState
<1>9. RestOfTypes'
  BY <1>1, <1>2 DEF RestOfTypes
<1> QED
  BY <1>8, <1>9

LEMMA PagingInit ==
  ASSUME Init PROVE PagesInv /\ RestOfTypes
<1>1. NoPages \in PageState
  BY BoundsAssumption DEF NoPages, PageState, Time
<1>2. SentAtAll = {}
  BY DEF Init, SentAtAll, Unsent
<1> QED
  BY <1>1, <1>2, FS_EmptySet
     DEF Init, PagesInv, RestOfTypes, NoPages, Paging, Unsent, NoRequest

LEMMA PagingInvStep ==
  ASSUME IInv, PagesInv, RestOfTypes, [Next]_vars PROVE PagesInv' /\ RestOfTypes'
<1> USE DEF IInv
<1>1. Quiet => PagesInv' /\ RestOfTypes'
  BY QuietKeepsPages, QuietKeepsTypes
<1>2. ASSUME NEW q \in Requests, Request(q) PROVE PagesInv' /\ RestOfTypes'
  BY <1>1, <1>2, EndKeepsPages, PagingStep, OpeningIsQuiet, SendingIsQuiet, ReadingIsQuiet
     DEF Request
<1> QED
  BY <1>1, <1>2, OthersAreQuiet, DeletionKeepsPages DEF Next

LEMMA PagingInvariant == Spec => [](IInv /\ PagesInv /\ RestOfTypes)
<1>1. Init => PagesInv /\ RestOfTypes
  BY PagingInit
<1>2. (PagesInv /\ RestOfTypes) /\ IInv /\ [Next]_vars => (PagesInv /\ RestOfTypes)'
  BY PagingInvStep
<1> QED
  BY <1>1, <1>2, Invariant, PTL DEF Spec

\* The types of everything requests, blocks, messages and pages keep, that a request
\* at rest is about nothing and that what is sent is in a conversation there is.
THEOREM ConversationsTypeCorrect == Spec => []TypeOK
<1>1. IInv /\ PagesInv /\ RestOfTypes => TypeOK
  BY DEF IInv, Types, PagesInv, PageState, RestOfTypes, TypeOK
<1> QED
  BY <1>1, PagingInvariant, PTL

\* list_messages: a client that pages to the end has seen every message that was
\* there all along, none of them twice, whatever is sent or deleted meanwhile.
THEOREM PagesAreComplete == Spec => []PagingIsComplete
<1>1. PagesInv => PagingIsComplete
  BY DEF PagesInv, PagingIsComplete, Left
<1> QED
  BY <1>1, PagingInvariant, PTL
=============================================================================
