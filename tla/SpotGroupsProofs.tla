-------------------------- MODULE SpotGroupsProofs --------------------------
(***************************************************************************)
(* Theorems about SpotGroups, for any number of users, requests and links. *)
(*                                                                         *)
(* Nothing is locked, so the invariant follows each request: what it is    *)
(* about and where it can be, which of its conditions it has met, and what *)
(* it still leaves behind when it writes.                                  *)
(***************************************************************************)
EXTENDS SpotGroups, FiniteSetTheorems, TLAPS

\* The parts of TypeOK.
Places == {"idle", "new", "registered", "begun", "open", "authorised", "counting",
           "writing", "joined"}
Req == [op : ops \cup {"none"}, by : Users \cup {Staff, Nobody},
        target : Users \cup Spots \cup {Nobody}, inv : Invites \cup {Nobody}]
Link == [status : {"none", "pending", "accepted"}, old : BOOLEAN,
         inviter : Users \cup {Nobody}, role : Roles \cup {"none"}]

AccountsOK ==
  /\ ops \subseteq AllOps
  /\ signed \subseteq Users
  /\ referred \in [Users -> signed \cup {Nobody}]
  /\ \A u \in Users \ signed : role[u] = "none" /\ referred[u] = Nobody

GroupOK ==
  /\ life \in {"unborn", "live", "deleted"}
  /\ visibility \in Visibilities
  /\ role \in [Users -> Roles \cup {"none"}]
  /\ pins \subseteq Spots
  /\ invite \in [Invites -> Link]
  /\ life # "live" =>
       role = [u \in Users |-> "none"] /\ pins = {} /\ invite = [i \in Invites |-> NoInvite]

HistoryOK ==
  /\ raced \in BOOLEAN
  /\ joined \in [Invites -> SUBSET Users]
  /\ shared \subseteq Invites

RequestsOK ==
  /\ pc \in [Requests -> Places]
  /\ req \in [Requests -> Req]
  /\ loaded \in [Requests -> Roles \cup Users \cup {"none"}]
  /\ seen \in [Requests -> SUBSET Conditions]

\* What a request is about, and where its operation can be.
Shape(q) ==
  LET r == req[q]
  IN  /\ pc[q] = "idle" <=> r.op = "none"
      /\ r.op \in InviteOps => r.by \in Users /\ r.target = r.by /\ r.inv \in Invites
      /\ r.op \in MemberOps \cup {"add"} => r.target \in signed
      /\ r.op \in {"pin", "unpin"} => r.target \in Spots
      /\ r.op \in {"issue", "accept"} => r.by \in signed
      /\ pc[q] \in {"new", "registered"} => r.op = "signup"
      /\ pc[q] \in {"open", "joined"} => r.op \in InviteOps
      /\ pc[q] = "counting" => r.op \in {"demote", "remove"}
      /\ pc[q] = "writing" => r.op \in MemberOps \cup InviteOps \cup {"add"}
      /\ r.op = "signup" /\ pc[q] # "new" => r.by \in signed
      /\ r.op = "signup" /\ pc[q] \notin {"new", "registered"} => loaded[q] \in signed

ShapeInv == \A q \in Requests : Shape(q)

\* The conditions that q has checked by now.
Due(q, c) ==
  \/ c = "rank" /\ pc[q] \in {"authorised", "counting", "writing"}
  \/ c = "open" /\ pc[q] \in {"open", "authorised", "counting", "writing"}
  \/ c = "open" /\ pc[q] = "begun" /\ req[q].op \notin InviteOps
  \/ c = "pending" /\ pc[q] \in {"begun", "open", "authorised", "writing"}
  \/ c = "fresh" /\ pc[q] \in {"open", "authorised", "writing"}
  \/ c = "inviter" /\ pc[q] \in {"authorised", "writing"}
  \/ c \in {"spare", "absent"} /\ pc[q] = "writing"

SeenInv == \A q \in Requests : \A c \in Asks(q) : Due(q, c) => c \in seen[q]

\* As long as nobody was overtaken, whoever is about to write leaves an owner.
OwnerInv ==
  ~raced /\ life = "live" =>
    /\ Owners # {}
    /\ \A q \in Requests :
         pc[q] = "writing" /\ req[q].op \in {"demote", "remove"} =>
           Owners \ {req[q].target} # {}

\* Before the group is there, nobody does anything with it.
BirthInv ==
  life = "unborn" =>
    /\ \A q \in Requests : pc[q] \in {"idle", "new", "registered"}
    /\ \A i \in Invites : joined[i] = {}

Has(q, i) ==
  /\ req[q].op \in InviteOps /\ req[q].inv = i
  /\ pc[q] \notin {"idle", "new", "registered"}

Unused(i) == joined[i] = {} /\ \A q \in Requests : ~Has(q, i)

\* One user came in by i, and is about to close the link or nobody has it.
UsedOnce(i) ==
  /\ \E u \in Users : joined[i] = {u}
  /\ \/ \E q \in Requests : pc[q] = "joined" /\ req[q].inv = i
     \/ invite[i].status # "pending" /\ \A q \in Requests : ~Has(q, i)

LinkInv ==
  \A i \in Invites :
    /\ invite[i].status # "none" => invite[i].inviter \in signed
    /\ life = "live" /\ invite[i].status = "none" => Unused(i)
    /\ i \notin shared /\ joined[i] # {} => UsedOnce(i)

IInv ==
  /\ AccountsOK /\ GroupOK /\ HistoryOK /\ RequestsOK
  /\ ShapeInv /\ SeenInv /\ OwnerInv /\ BirthInv /\ LinkInv

---------------------------------------------------------------------------
(* Reading what a step has written.                                        *)

LEMMA Replaced ==
  ASSUME NEW S, NEW T, NEW f \in [S -> T], NEW a \in S, NEW v \in T
  PROVE  /\ [f EXCEPT ![a] = v] \in [S -> T]
         /\ \A b \in S : [f EXCEPT ![a] = v][b] = IF b = a THEN v ELSE f[b]
OBVIOUS

LEMMA GotoTypes ==
  ASSUME RequestsOK, NEW q \in Requests, NEW x \in Places, Goto(q, x)
  PROVE  /\ pc' \in [Requests -> Places]
         /\ \A p \in Requests : pc'[p] = IF p = q THEN x ELSE pc[p]
BY Replaced DEF RequestsOK, Goto

LEMMA NoRequestIsOne == NoRequest \in Req
BY DEF NoRequest, Req

LEMMA FinishTypes ==
  ASSUME RequestsOK, NEW q \in Requests, Finish(q)
  PROVE  /\ pc' \in [Requests -> Places]
         /\ req' \in [Requests -> Req]
         /\ loaded' \in [Requests -> Roles \cup Users \cup {"none"}]
         /\ \A p \in Requests : /\ pc'[p] = IF p = q THEN "idle" ELSE pc[p]
                                /\ req'[p] = IF p = q THEN NoRequest ELSE req[p]
                                /\ loaded'[p] = IF p = q THEN "none" ELSE loaded[p]
<1>1. /\ Goto(q, "idle")
      /\ req' = [req EXCEPT ![q] = NoRequest]
      /\ loaded' = [loaded EXCEPT ![q] = "none"]
  BY DEF Finish
<1>2. "idle" \in Places
  BY DEF Places
<1>3. /\ req' \in [Requests -> Req]
      /\ \A p \in Requests : req'[p] = IF p = q THEN NoRequest ELSE req[p]
  BY <1>1, NoRequestIsOne, Replaced DEF RequestsOK
<1>4. /\ loaded' \in [Requests -> Roles \cup Users \cup {"none"}]
      /\ \A p \in Requests : loaded'[p] = IF p = q THEN "none" ELSE loaded[p]
  BY <1>1, Replaced DEF RequestsOK
<1> QED
  BY <1>1, <1>2, <1>3, <1>4, GotoTypes

\* Owners, to be counted.
LEMMA TwoOwners ==
  ASSUME NEW u, Cardinality(Owners) > 1
  PROVE  Owners # {u} /\ Owners # {} /\ Owners \ {u} # {}
<1>1. IsFiniteSet({}) /\ Cardinality({}) = 0
  BY FS_EmptySet
<1>2. Cardinality({} \cup {u}) = 1
  BY <1>1, FS_AddElement
<1>3. {} \cup {u} = {u}
  OBVIOUS
<1> QED
  BY <1>1, <1>2, <1>3

---------------------------------------------------------------------------
(* What the requests have seen.                                            *)

LEMMA ObserveTypes ==
  ASSUME RequestsOK, Observe
  PROVE  /\ seen' \in [Requests -> SUBSET Conditions]
         /\ \A p \in Requests : pc'[p] # "idle" =>
              seen'[p] = seen[p] \cup {c \in Asks(p)' : Met(p, c)'}
<1>1. \A p \in Requests : seen[p] \in SUBSET Conditions
  BY DEF RequestsOK
<1>2. \A p \in Requests : {c \in Asks(p)' : Met(p, c)'} \in SUBSET Conditions
  BY DEF Asks
<1>3. \A p \in Requests :
        (IF pc'[p] = "idle" THEN {} ELSE seen[p] \cup {c \in Asks(p)' : Met(p, c)'})
          \in SUBSET Conditions
  BY <1>1, <1>2
<1>4. seen' = [p \in Requests |->
                 IF pc'[p] = "idle" THEN {}
                 ELSE seen[p] \cup {c \in Asks(p)' : Met(p, c)'}]
  BY DEF Observe
<1> QED
  BY <1>3, <1>4

\* A request that stands still asks what it has asked.
LEMMA AsksStay ==
  ASSUME NEW p, pc'[p] = pc[p], req'[p] = req[p]
  PROVE  Asks(p)' = Asks(p) /\ \A c : Due(p, c)' <=> Due(p, c)
BY DEF Asks, Due

LEMMA SeenStep ==
  ASSUME RequestsOK, SeenInv, Observe, NEW q \in Requests,
         \A p \in Requests \ {q} : pc'[p] = pc[p] /\ req'[p] = req[p],
         \A c \in Asks(q)' : Due(q, c)' => (c \in Asks(q) /\ Due(q, c)) \/ Met(q, c)'
  PROVE  SeenInv'
<1> SUFFICES ASSUME NEW p \in Requests, NEW c \in Asks(p)', Due(p, c)'
             PROVE  c \in seen'[p]
  BY DEF SeenInv
<1>1. pc'[p] # "idle"
  BY DEF Due
<1>2. seen'[p] = seen[p] \cup {d \in Asks(p)' : Met(p, d)'}
  BY <1>1, ObserveTypes
<1>3. CASE p = q
  BY <1>2, <1>3 DEF SeenInv
<1>4. CASE p # q
  <2>1. c \in Asks(p) /\ Due(p, c)
    BY <1>4, AsksStay
  <2> QED
    BY <1>2, <2>1 DEF SeenInv
<1> QED
  BY <1>3, <1>4

---------------------------------------------------------------------------
(* Steps on the way: q goes on to place x, and only reads.                 *)

LEMMA Walk ==
  ASSUME IInv, NEW q \in Requests, NEW x \in Places \ {"idle", "joined"}, Goto(q, x), Observe,
         pc[q] # "joined",
         req' \in [Requests -> Req], loaded' \in [Requests -> Roles \cup Users \cup {"none"}],
         \A p \in Requests \ {q} : req'[p] = req[p] /\ loaded'[p] = loaded[p],
         signed \subseteq signed', signed' \subseteq Users,
         UNCHANGED <<ops, referred, life, visibility, role, pins, invite, raced, joined, shared>>,
         Shape(q)',
         \A c \in Asks(q)' : Due(q, c)' => (c \in Asks(q) /\ Due(q, c)) \/ Met(q, c)',
         life = "unborn" => x \in {"new", "registered"},
         x = "writing" /\ req'[q].op \in {"demote", "remove"} /\ life = "live" /\ ~raced
           => Owners \ {req'[q].target} # {},
         \A i \in Invites : Has(q, i)' => Has(q, i) \/ invite[i].status = "pending"
  PROVE  IInv'
<1>1. /\ pc' \in [Requests -> Places]
      /\ \A p \in Requests : pc'[p] = IF p = q THEN x ELSE pc[p]
  BY GotoTypes DEF IInv
<1>2. RequestsOK'
  <2>1. Req' = Req
    BY DEF Req
  <2>2. seen' \in [Requests -> SUBSET Conditions]
    BY ObserveTypes DEF IInv
  <2> QED
    BY <1>1, <2>1, <2>2 DEF RequestsOK
<1>3. AccountsOK' /\ HistoryOK'
  BY DEF IInv, AccountsOK, HistoryOK
<1>4. GroupOK'
  BY DEF IInv, GroupOK
<1>5. ShapeInv'
  <2> SUFFICES ASSUME NEW p \in Requests \ {q} PROVE Shape(p)'
    BY DEF ShapeInv
  <2>1. pc'[p] = pc[p] /\ req'[p] = req[p] /\ loaded'[p] = loaded[p] /\ Shape(p)
    BY <1>1 DEF IInv, ShapeInv
  <2> QED
    BY <2>1 DEF Shape
<1>6. SeenInv'
  BY <1>1, SeenStep DEF IInv
<1>7. OwnerInv'
  <2>1. Owners' = Owners
    BY DEF Owners
  <2> QED
    BY <1>1, <2>1 DEF IInv, OwnerInv
<1>8. BirthInv'
  BY <1>1 DEF IInv, BirthInv
<1>9. LinkInv'
  <2>1. \A p \in Requests \ {q}, i \in Invites : Has(p, i)' <=> Has(p, i)
    BY <1>1 DEF Has
  <2>2. \A p \in Requests, i \in Invites :
          Has(p, i)' => Has(p, i) \/ invite[i].status = "pending"
    BY <2>1
  <2>3. \A p \in Requests : pc[p] = "joined" => pc'[p] = "joined" /\ req'[p] = req[p]
    BY <1>1
  <2>4. \A i \in Invites : invite[i].status = "none" /\ Unused(i) => Unused(i)'
    BY <2>2 DEF Unused
  <2>5. \A i \in Invites : UsedOnce(i) => UsedOnce(i)'
    BY <2>2, <2>3 DEF UsedOnce
  <2> QED
    BY <2>4, <2>5 DEF IInv, LinkInv
<1> QED
  BY <1>2, <1>3, <1>4, <1>5, <1>6, <1>7, <1>8, <1>9 DEF IInv

\* What a request may be about, when it begins.
LEMMA AskedShape ==
  ASSUME IInv, NEW r \in Asked
  PROVE  /\ r \in Req /\ r.op # "none"
         /\ r.op \in InviteOps => r.by \in Users /\ r.target = r.by /\ r.inv \in Invites
         /\ r.op \in MemberOps \cup {"add"} => r.target \in signed
         /\ r.op \in {"pin", "unpin"} => r.target \in Spots
         /\ r.op \in {"issue", "accept"} => r.by \in signed
<1>1. signed \subseteq Users /\ ops \subseteq AllOps /\ "none" \notin AllOps
  BY DEF IInv, AccountsOK, AllOps, MemberOps, InviteOps
<1>2. CASE r \in [op : ops \cap {"update", "delete", "issue"}, by : signed,
                  target : {Nobody}, inv : {Nobody}]
  BY <1>1, <1>2 DEF Req, InviteOps, MemberOps
<1>3. CASE r \in [op : ops \cap {"update", "delete"}, by : {Staff}, target : {Nobody},
                  inv : {Nobody}]
  BY <1>1, <1>3 DEF Req, InviteOps, MemberOps
<1>4. CASE r \in [op : ops \cap ({"add"} \cup MemberOps), by : signed \cup {Staff},
                  target : signed, inv : {Nobody}]
  BY <1>1, <1>4 DEF Req, InviteOps, MemberOps
<1>5. CASE r \in [op : ops \cap {"pin", "unpin"}, by : signed \cup {Staff},
                  target : Spots, inv : {Nobody}]
  BY <1>1, <1>5 DEF Req, InviteOps, MemberOps
<1>6. CASE /\ r \in [op : ops \cap InviteOps, by : Users, target : Users, inv : Invites]
           /\ r.by = r.target /\ (r.op = "signup" <=> r.by \notin signed)
  BY <1>1, <1>6 DEF Req, InviteOps, MemberOps
<1> QED
  BY <1>2, <1>3, <1>4, <1>5, <1>6 DEF Asked

LEMMA BeginStep ==
  ASSUME IInv, NEW q \in Requests, NEW r \in Asked, Begin(q, r)
  PROVE  IInv'
<1> DEFINE x == IF r.op # "accept" /\ r.by = Staff THEN "authorised" ELSE "begun"
<1>1. /\ pc[q] = "idle" /\ r.op # "signup" /\ life = "live"
      /\ r.op = "accept" => invite[r.inv].status = "pending"
      /\ r.op = "issue" \/ (r.op = "add" /\ r.by # Staff) => visibility # "private"
      /\ req' = [req EXCEPT ![q] = r] /\ Goto(q, x) /\ Observe
      /\ UNCHANGED <<ops, signed, referred, life, visibility, role, pins, invite, loaded,
                     raced, joined, shared>>
  BY DEF Begin, accounts, group
<1>2. x \in {"authorised", "begun"} /\ (x = "authorised" => r.by = Staff)
  OBVIOUS
<1>3. x = "begun" => r.op = "accept" \/ r.by # Staff
  OBVIOUS
<1> HIDE DEF x
<1>4. /\ r \in Req /\ r.op # "none"
      /\ r.op \in InviteOps => r.by \in Users /\ r.target = r.by /\ r.inv \in Invites
      /\ r.op \in MemberOps \cup {"add"} => r.target \in signed
      /\ r.op \in {"pin", "unpin"} => r.target \in Spots
      /\ r.op \in {"issue", "accept"} => r.by \in signed
  BY AskedShape
<1>5. /\ req' \in [Requests -> Req]
      /\ \A p \in Requests : req'[p] = IF p = q THEN r ELSE req[p]
  BY <1>1, <1>4, Replaced DEF IInv, RequestsOK
<1>6. pc'[q] = x /\ signed \subseteq Users
  BY <1>1, <1>2, GotoTypes DEF IInv, Places, AccountsOK
<1>7. Shape(q)'
  BY <1>1, <1>2, <1>4, <1>5, <1>6 DEF Shape, InviteOps
<1>8. ASSUME NEW c \in Asks(q)', Due(q, c)' PROVE Met(q, c)'
  <2>1. r.op \in InviteOps => r.op = "accept" /\ x = "begun"
    BY <1>1, <1>2, <1>4, UsersAssumption DEF InviteOps
  <2>2. \/ c = "open" /\ r.op \in {"issue", "add"}
        \/ c = "pending" /\ r.op = "accept"
    BY <1>2, <1>4, <1>5, <1>6, <1>8, <2>1, UsersAssumption DEF Asks, Due, InviteOps
  <2>3. CASE c = "open" /\ r.op \in {"issue", "add"}
    <3>1. r.op = "issue" \/ r.by # Staff
      BY <1>5, <1>8, <2>3 DEF Asks, InviteOps
    <3>2. visibility' # "private"
      BY <1>1, <2>3, <3>1
    <3> QED
      BY <2>3, <3>2 DEF Met
  <2>4. CASE c = "pending" /\ r.op = "accept"
    BY <1>1, <1>5, <2>4 DEF Met
  <2> QED
    BY <2>2, <2>3, <2>4
<1>9. \A i \in Invites : Has(q, i)' => invite[i].status = "pending"
  BY <1>1, <1>5 DEF Has, InviteOps
<1>10. /\ x \in Places \ {"idle", "joined"} /\ x # "writing"
       /\ loaded' \in [Requests -> Roles \cup Users \cup {"none"}]
  BY <1>1, <1>2 DEF Places, IInv, RequestsOK
<1> QED
  BY <1>1, <1>5, <1>6, <1>7, <1>8, <1>9, <1>10, Walk

LEMMA BeginSignUpStep ==
  ASSUME IInv, NEW q \in Requests, NEW r \in Asked, BeginSignUp(q, r)
  PROVE  IInv'
<1>1. /\ pc[q] = "idle" /\ r.op = "signup"
      /\ req' = [req EXCEPT ![q] = r] /\ Goto(q, "new") /\ Observe
      /\ UNCHANGED <<ops, signed, referred, life, visibility, role, pins, invite, loaded,
                     raced, joined, shared>>
  BY DEF BeginSignUp, accounts, group
<1>2. r \in Req /\ r.by \in Users /\ r.target = r.by /\ r.inv \in Invites
  BY <1>1, AskedShape DEF InviteOps
<1>3. /\ req' \in [Requests -> Req]
      /\ \A p \in Requests : req'[p] = IF p = q THEN r ELSE req[p]
  BY <1>1, <1>2, Replaced DEF IInv, RequestsOK
<1>4. "new" \in Places \ {"idle", "joined"}
  BY DEF Places
<1>5. pc'[q] = "new" /\ signed \subseteq Users
  BY <1>1, <1>4, GotoTypes DEF IInv, AccountsOK
<1>6. Shape(q)'
  BY <1>1, <1>2, <1>3, <1>5 DEF Shape, InviteOps, MemberOps
<1>7. \A c : ~Due(q, c)'
  BY <1>5 DEF Due
<1>8. \A i : ~Has(q, i)'
  BY <1>5 DEF Has
<1>9. loaded' \in [Requests -> Roles \cup Users \cup {"none"}]
  BY <1>1 DEF IInv, RequestsOK
<1> QED
  BY <1>1, <1>3, <1>4, <1>5, <1>6, <1>7, <1>8, <1>9, Walk

\* What q is about stays the same.
LEMMA GoOn ==
  ASSUME IInv, NEW q \in Requests, NEW x \in Places \ {"idle", "joined"}, Goto(q, x), Observe,
         pc[q] \notin {"idle", "new", "registered", "joined"},
         UNCHANGED <<ops, signed, referred, life, visibility, role, pins, invite, req, loaded,
                     raced, joined, shared>>,
         x \notin {"new", "registered"},
         x = "open" => req[q].op \in InviteOps,
         x = "counting" => req[q].op \in {"demote", "remove"},
         x = "writing" => req[q].op \in MemberOps \cup InviteOps \cup {"add"},
         \A c \in Asks(q) : Due(q, c)' => Due(q, c) \/ Met(q, c)',
         x = "writing" /\ req[q].op \in {"demote", "remove"} /\ life = "live" /\ ~raced
           => Owners \ {req[q].target} # {}
  PROVE  IInv'
<1>1. pc'[q] = x /\ Shape(q)
  BY GotoTypes DEF IInv, ShapeInv
<1>2. Shape(q)'
  BY <1>1 DEF Shape
<1>3. Asks(q)' = Asks(q)
  BY DEF Asks
<1>4. \A i : Has(q, i)' => Has(q, i)
  BY DEF Has
<1>5. life # "unborn"
  BY DEF IInv, BirthInv
<1>6. /\ signed \subseteq Users /\ req' \in [Requests -> Req]
      /\ loaded' \in [Requests -> Roles \cup Users \cup {"none"}]
  BY DEF IInv, AccountsOK, RequestsOK
<1> QED
  BY <1>2, <1>3, <1>4, <1>5, <1>6, Walk

LEMMA AuthoriseStep ==
  ASSUME IInv, NEW q \in Requests, Authorise(q)
  PROVE  IInv'
<1>1. /\ pc[q] = "begun" /\ req[q].op \notin InviteOps /\ Ranked(q)
      /\ Goto(q, "authorised") /\ Observe
      /\ UNCHANGED <<ops, signed, referred, life, visibility, role, pins, invite, req, loaded,
                     raced, joined, shared>>
  BY DEF Authorise, accounts, group
<1>2. "authorised" \in Places \ {"idle", "joined"}
  BY DEF Places
<1>3. pc'[q] = "authorised"
  BY <1>1, <1>2, GotoTypes DEF IInv
<1>4. Met(q, "rank")'
  BY <1>1 DEF Met, Ranked
<1>5. \A c \in Asks(q) : Due(q, c)' => Due(q, c) \/ Met(q, c)'
  <2> SUFFICES ASSUME NEW c \in Asks(q), Due(q, c)', c # "rank" PROVE Due(q, c)
    BY <1>4
  <2>1. c = "open"
    BY <1>1, <1>3 DEF Asks, Due
  <2> QED
    BY <1>1, <2>1 DEF Due
<1> QED
  BY <1>1, <1>2, <1>5, GoOn

LEMMA CountOwnersStep ==
  ASSUME IInv, NEW q \in Requests, CountOwners(q)
  PROVE  IInv'
<1>1. /\ pc[q] = "counting" /\ Cardinality(Owners) > 1
      /\ Goto(q, "writing") /\ Observe
      /\ UNCHANGED <<ops, signed, referred, life, visibility, role, pins, invite, req, loaded,
                     raced, joined, shared>>
  BY DEF CountOwners, accounts, group
<1>2. "writing" \in Places \ {"idle", "joined"}
  BY DEF Places
<1>3. pc'[q] = "writing" /\ req[q].op \in {"demote", "remove"}
  BY <1>1, <1>2, GotoTypes DEF IInv, ShapeInv, Shape
<1>4. Owners # {req[q].target} /\ Owners \ {req[q].target} # {}
  BY <1>1, TwoOwners
<1>5. Met(q, "spare")'
  BY <1>1, <1>4 DEF Met, Owners
<1>6. \A c \in Asks(q) : Due(q, c)' => Due(q, c) \/ Met(q, c)'
  <2> SUFFICES ASSUME NEW c \in Asks(q), c # "spare" PROVE Due(q, c)
    BY <1>5
  <2>1. c = "rank"
    BY <1>3 DEF Asks, InviteOps
  <2> QED
    BY <1>1, <2>1 DEF Due
<1> QED
  BY <1>1, <1>2, <1>3, <1>4, <1>6, GoOn DEF MemberOps

LEMMA CheckAbsentStep ==
  ASSUME IInv, NEW q \in Requests, CheckAbsent(q)
  PROVE  IInv'
<1>1. /\ pc[q] = "authorised" /\ req[q].op \in {"add"} \cup InviteOps
      /\ role[req[q].target] = "none"
      /\ Goto(q, "writing") /\ Observe
      /\ UNCHANGED <<ops, signed, referred, life, visibility, role, pins, invite, req, loaded,
                     raced, joined, shared>>
  BY DEF CheckAbsent, accounts, group
<1>2. "writing" \in Places \ {"idle", "joined"}
  BY DEF Places
<1>3. Met(q, "absent")'
  BY <1>1 DEF Met
<1>4. \A c \in Asks(q) : Due(q, c)' => Due(q, c) \/ Met(q, c)'
  <2> SUFFICES ASSUME NEW c \in Asks(q), c # "absent" PROVE Due(q, c)
    BY <1>3
  <2>1. c \in {"rank", "open", "pending", "fresh", "inviter"}
    BY <1>1 DEF Asks, InviteOps, Conditions
  <2> QED
    BY <1>1, <2>1 DEF Due
<1> QED
  BY <1>1, <1>2, <1>4, GoOn DEF InviteOps

LEMMA CheckGroupStep ==
  ASSUME IInv, NEW q \in Requests, CheckGroup(q)
  PROVE  IInv'
<1>1. /\ pc[q] = "begun" /\ req[q].op \in InviteOps
      /\ ~invite[req[q].inv].old /\ visibility # "private"
      /\ Goto(q, "open") /\ Observe
      /\ UNCHANGED <<ops, signed, referred, life, visibility, role, pins, invite, req, loaded,
                     raced, joined, shared>>
  BY DEF CheckGroup, accounts, group
<1>2. "open" \in Places \ {"idle", "joined"}
  BY DEF Places
<1>3. pc'[q] = "open"
  BY <1>1, <1>2, GotoTypes DEF IInv
<1>4. Met(q, "open")' /\ Met(q, "fresh")'
  BY <1>1 DEF Met
<1>5. \A c \in Asks(q) : Due(q, c)' => Due(q, c) \/ Met(q, c)'
  <2> SUFFICES ASSUME NEW c \in Asks(q), Due(q, c)', c \notin {"open", "fresh"} PROVE Due(q, c)
    BY <1>4
  <2>1. c = "pending"
    BY <1>3 DEF Due
  <2> QED
    BY <1>1, <2>1 DEF Due
<1> QED
  BY <1>1, <1>2, <1>5, GoOn

LEMMA CheckInviterStep ==
  ASSUME IInv, NEW q \in Requests, CheckInviter(q)
  PROVE  IInv'
<1>1. /\ pc[q] = "open" /\ invite[req[q].inv].inviter \in Owners
      /\ Goto(q, "authorised") /\ Observe
      /\ UNCHANGED <<ops, signed, referred, life, visibility, role, pins, invite, req, loaded,
                     raced, joined, shared>>
  BY DEF CheckInviter, accounts, group
<1>2. "authorised" \in Places \ {"idle", "joined"}
  BY DEF Places
<1>3. pc'[q] = "authorised" /\ req[q].op \in InviteOps
  BY <1>1, <1>2, GotoTypes DEF IInv, ShapeInv, Shape
<1>4. Met(q, "inviter")'
  BY <1>1 DEF Met, Owners
<1>5. \A c \in Asks(q) : Due(q, c)' => Due(q, c) \/ Met(q, c)'
  <2> SUFFICES ASSUME NEW c \in Asks(q), Due(q, c)', c # "inviter" PROVE Due(q, c)
    BY <1>4
  <2>1. c # "rank"
    BY <1>3 DEF Asks
  <2>2. c \in {"open", "pending", "fresh"}
    BY <1>3, <2>1 DEF Due
  <2> QED
    BY <1>1, <2>2 DEF Due
<1> QED
  BY <1>1, <1>2, <1>5, GoOn

\* Whoever is not an owner, as loaded, leaves the owners there are.
LEMMA LoadTargetStep ==
  ASSUME IInv, NEW q \in Requests, LoadTarget(q)
  PROVE  IInv'
<1> DEFINE x == IF loaded'[q] = "owner" /\ req[q].op # "promote" THEN "counting" ELSE "writing"
<1>1. /\ pc[q] = "authorised" /\ req[q].op \in MemberOps
      /\ Goto(q, x) /\ Observe
      /\ UNCHANGED <<ops, signed, referred, life, visibility, role, pins, invite, req,
                     raced, joined, shared>>
  BY DEF LoadTarget, accounts, group
<1>2. /\ x \in {"counting", "writing"}
      /\ x = "counting" => req[q].op # "promote"
      /\ x = "writing" => req[q].op = "promote" \/ loaded'[q] # "owner"
  OBVIOUS
<1> HIDE DEF x
<1>3. req[q].target \in signed /\ signed \subseteq Users /\ Shape(q)
  BY <1>1 DEF IInv, ShapeInv, Shape, AccountsOK
<1>4. PICK l \in Roles \cup {"none"} :
        /\ loaded' = [loaded EXCEPT ![q] = l]
        /\ l # "owner" => role[req[q].target] = l
  <2>1. CASE req[q].target = req[q].by /\ loaded' = [loaded EXCEPT ![q] = "owner"]
    BY <2>1, RolesAssumption
  <2>2. CASE loaded' = [loaded EXCEPT ![q] = role[req[q].target]]
    <3>1. role[req[q].target] \in Roles \cup {"none"}
      BY <1>3 DEF IInv, GroupOK
    <3> QED
      BY <2>2, <3>1
  <2> QED
    BY <2>1, <2>2 DEF LoadTarget
<1>5. /\ loaded' \in [Requests -> Roles \cup Users \cup {"none"}]
      /\ \A p \in Requests : loaded'[p] = IF p = q THEN l ELSE loaded[p]
  <2>1. loaded \in [Requests -> Roles \cup Users \cup {"none"}]
    BY DEF IInv, RequestsOK
  <2> QED
    BY <1>4, <2>1, Replaced
<1>6. x \in Places \ {"idle", "joined"}
  BY <1>2 DEF Places
<1>7. pc'[q] = x /\ req \in [Requests -> Req]
  BY <1>1, <1>6, GotoTypes DEF IInv, RequestsOK
<1>8. Shape(q)'
  BY <1>1, <1>2, <1>3, <1>7 DEF Shape, MemberOps, InviteOps
<1>9. x = "writing" /\ req[q].op # "promote" => req[q].target \notin Owners
  BY <1>2, <1>4, <1>5 DEF Owners
<1>10. \A c \in Asks(q)' : Due(q, c)' => (c \in Asks(q) /\ Due(q, c)) \/ Met(q, c)'
  <2> SUFFICES ASSUME NEW c \in Asks(q)', Due(q, c)'
               PROVE  (c \in Asks(q) /\ Due(q, c)) \/ Met(q, c)'
    OBVIOUS
  <2>1. c \in Asks(q)
    BY <1>1 DEF Asks
  <2>2. c = "rank" \/ (c = "spare" /\ req[q].op # "promote")
    BY <1>1, <2>1 DEF Asks, MemberOps, InviteOps
  <2>3. CASE c = "rank"
    BY <1>1, <2>1, <2>3 DEF Due
  <2>4. CASE c = "spare" /\ req[q].op # "promote"
    <3>1. x = "writing"
      BY <1>7, <2>4 DEF Due
    <3>2. Owners # {req[q].target}
      BY <1>9, <2>4, <3>1
    <3> QED
      BY <1>1, <2>4, <3>2 DEF Met, Owners
  <2> QED
    BY <2>2, <2>3, <2>4
<1>11. x = "writing" /\ req'[q].op \in {"demote", "remove"} /\ life = "live" /\ ~raced
         => Owners \ {req'[q].target} # {}
  <2> SUFFICES ASSUME x = "writing", req[q].op # "promote", life = "live", ~raced
               PROVE  Owners \ {req[q].target} # {}
    BY <1>1
  <2>1. Owners # {}
    BY DEF IInv, OwnerInv
  <2> QED
    BY <1>9, <2>1
<1>12. life # "unborn" /\ \A i : ~Has(q, i)'
  BY <1>1 DEF IInv, BirthInv, Has, MemberOps, InviteOps
<1> QED
  BY <1>1, <1>3, <1>5, <1>6, <1>7, <1>8, <1>10, <1>11, <1>12, Walk

LEMMA RegisterStep ==
  ASSUME IInv, NEW q \in Requests, Register(q)
  PROVE  IInv'
<1>1. /\ pc[q] = "new" /\ signed' = signed \cup {req[q].by}
      /\ Goto(q, "registered") /\ Observe
      /\ UNCHANGED <<ops, referred, life, visibility, role, pins, invite, req, loaded,
                     raced, joined, shared>>
  BY DEF Register, group
<1>2. "registered" \in Places \ {"idle", "joined"}
  BY DEF Places
<1>3. /\ pc'[q] = "registered" /\ Shape(q)
      /\ req \in [Requests -> Req] /\ loaded \in [Requests -> Roles \cup Users \cup {"none"}]
  BY <1>1, <1>2, GotoTypes DEF IInv, ShapeInv, RequestsOK
<1>4. req[q].op = "signup" /\ req[q].by \in Users
  BY <1>1, <1>3 DEF Shape, InviteOps
<1>5. signed \subseteq signed' /\ signed' \subseteq Users /\ req[q].by \in signed'
  BY <1>1, <1>4 DEF IInv, AccountsOK
<1>6. Shape(q)'
  BY <1>1, <1>3, <1>4, <1>5 DEF Shape, InviteOps, MemberOps
<1>7. (\A c : ~Due(q, c)') /\ \A i : ~Has(q, i)'
  BY <1>3 DEF Due, Has
<1> QED
  BY <1>1, <1>2, <1>3, <1>5, <1>6, <1>7, Walk

LEMMA LoadInviteStep ==
  ASSUME IInv, NEW q \in Requests, LoadInvite(q)
  PROVE  IInv'
<1>1. /\ pc[q] = "registered" /\ invite[req[q].inv].status = "pending"
      /\ loaded' = [loaded EXCEPT ![q] = invite[req[q].inv].inviter]
      /\ Goto(q, "begun") /\ Observe
      /\ UNCHANGED <<ops, signed, referred, life, visibility, role, pins, invite, req,
                     raced, joined, shared>>
  BY DEF LoadInvite, accounts, group
<1>2. "begun" \in Places \ {"idle", "joined"}
  BY DEF Places
<1>3. /\ pc'[q] = "begun" /\ Shape(q)
      /\ req \in [Requests -> Req] /\ loaded \in [Requests -> Roles \cup Users \cup {"none"}]
      /\ signed \subseteq Users
  BY <1>1, <1>2, GotoTypes DEF IInv, ShapeInv, RequestsOK, AccountsOK
<1>4. req[q].op = "signup" /\ req[q].by \in Users /\ req[q].inv \in Invites
  BY <1>1, <1>3 DEF Shape, InviteOps
<1>5. invite[req[q].inv].inviter \in signed
  BY <1>1, <1>4 DEF IInv, LinkInv
<1>6. /\ loaded' \in [Requests -> Roles \cup Users \cup {"none"}]
      /\ \A p \in Requests :
           loaded'[p] = IF p = q THEN invite[req[q].inv].inviter ELSE loaded[p]
  <2>1. invite[req[q].inv].inviter \in Roles \cup Users \cup {"none"}
    BY <1>3, <1>5
  <2> QED
    BY <1>1, <1>3, <2>1, Replaced
<1>7. Shape(q)'
  BY <1>1, <1>3, <1>4, <1>5, <1>6 DEF Shape, InviteOps, MemberOps
<1>8. \A c : Due(q, c)' => Met(q, c)'
  <2> SUFFICES ASSUME NEW c, Due(q, c)' PROVE Met(q, c)'
    OBVIOUS
  <2>1. c = "pending"
    BY <1>1, <1>3, <1>4 DEF Due, InviteOps
  <2> QED
    BY <1>1, <2>1 DEF Met
<1>9. \A i \in Invites : Has(q, i)' => invite[i].status = "pending"
  BY <1>1 DEF Has
<1>10. life # "unborn"
  <2> SUFFICES ASSUME life = "unborn" PROVE FALSE
    OBVIOUS
  <2>1. invite[req[q].inv] = NoInvite
    BY <1>4 DEF IInv, GroupOK
  <2> QED
    BY <1>1, <2>1 DEF NoInvite
<1> QED
  BY <1>1, <1>2, <1>3, <1>6, <1>7, <1>8, <1>9, <1>10, Walk

---------------------------------------------------------------------------
(* Last steps: q writes what it is about, and is done.                     *)

\* Links that lose holders only, and those that have come in by them.
LEMMA QuietLinks ==
  ASSUME IInv, UNCHANGED <<signed, joined>>, shared \subseteq shared',
         \A q \in Requests, i \in Invites : Has(q, i)' => Has(q, i),
         \A q \in Requests : pc[q] = "joined" =>
           (pc'[q] = "joined" /\ req'[q] = req[q]) \/ req[q].inv \in shared',
         life' = "live" => life = "live",
         \A i \in Invites :
           /\ invite'[i].status # "none" => /\ invite[i].status # "none"
                                            /\ invite'[i].inviter = invite[i].inviter
           /\ invite'[i].status = "pending" => invite[i].status = "pending"
           /\ life' = "live" /\ invite'[i].status = "none" => invite[i].status = "none"
  PROVE  LinkInv'
<1> SUFFICES ASSUME NEW i \in Invites
             PROVE  /\ invite'[i].status # "none" => invite'[i].inviter \in signed'
                    /\ life' = "live" /\ invite'[i].status = "none" => Unused(i)'
                    /\ i \notin shared' /\ joined'[i] # {} => UsedOnce(i)'
  BY DEF LinkInv
<1>1. invite'[i].status # "none" => invite'[i].inviter \in signed'
  BY DEF IInv, LinkInv
<1>2. life' = "live" /\ invite'[i].status = "none" => Unused(i)'
  BY DEF IInv, LinkInv, Unused
<1>3. i \notin shared' /\ joined'[i] # {} => UsedOnce(i)'
  <2> SUFFICES ASSUME i \notin shared', joined[i] # {} PROVE UsedOnce(i)'
    OBVIOUS
  <2>1. UsedOnce(i)
    BY DEF IInv, LinkInv
  <2> QED
    BY <2>1 DEF UsedOnce
<1> QED
  BY <1>1, <1>2, <1>3

LEMMA QuietOwners ==
  ASSUME IInv, raced' = raced, life' = "live" => life = "live", Owners \subseteq Owners',
         \A p \in Requests : pc'[p] = "writing" => pc[p] = "writing" /\ req'[p] = req[p]
  PROVE  OwnerInv'
<1> SUFFICES ASSUME ~raced, life = "live"
             PROVE  /\ Owners' # {}
                    /\ \A p \in Requests :
                         pc'[p] = "writing" /\ req'[p].op \in {"demote", "remove"} =>
                           Owners' \ {req'[p].target} # {}
  BY DEF OwnerInv
<1>1. /\ Owners # {}
      /\ \A p \in Requests :
           pc[p] = "writing" /\ req[p].op \in {"demote", "remove"} =>
             Owners \ {req[p].target} # {}
  BY DEF IInv, OwnerInv
<1> QED
  BY <1>1

\* What the end of a request comes to, whatever it writes.
LEMMA Ends ==
  ASSUME IInv, NEW q \in Requests, Finish(q), Observe, UNCHANGED <<ops, signed>>
  PROVE  /\ RequestsOK' /\ ShapeInv' /\ SeenInv'
         /\ \A p \in Requests : pc'[p] = IF p = q THEN "idle" ELSE pc[p]
         /\ \A p \in Requests \ {q} : req'[p] = req[p] /\ loaded'[p] = loaded[p]
         /\ \A p \in Requests, i \in Invites : Has(p, i)' <=> p # q /\ Has(p, i)
<1>1. /\ pc' \in [Requests -> Places]
      /\ req' \in [Requests -> Req]
      /\ loaded' \in [Requests -> Roles \cup Users \cup {"none"}]
      /\ \A p \in Requests : /\ pc'[p] = IF p = q THEN "idle" ELSE pc[p]
                             /\ req'[p] = IF p = q THEN NoRequest ELSE req[p]
                             /\ loaded'[p] = IF p = q THEN "none" ELSE loaded[p]
  BY FinishTypes DEF IInv
<1>2. RequestsOK'
  <2>1. Req' = Req
    BY DEF Req
  <2>2. seen' \in [Requests -> SUBSET Conditions]
    BY ObserveTypes DEF IInv
  <2> QED
    BY <1>1, <2>1, <2>2 DEF RequestsOK
<1>3. ShapeInv'
  <2> SUFFICES ASSUME NEW p \in Requests PROVE Shape(p)'
    BY DEF ShapeInv
  <2>1. CASE p = q
    BY <1>1, <2>1 DEF Shape, NoRequest, InviteOps, MemberOps
  <2>2. CASE p # q
    <3>1. pc'[p] = pc[p] /\ req'[p] = req[p] /\ loaded'[p] = loaded[p] /\ Shape(p)
      BY <1>1, <2>2 DEF IInv, ShapeInv
    <3> QED
      BY <3>1 DEF Shape
  <2> QED
    BY <2>1, <2>2
<1>4. SeenInv'
  <2>1. \A c : ~Due(q, c)'
    BY <1>1 DEF Due
  <2> QED
    BY <1>1, <2>1, SeenStep DEF IInv
<1>5. \A p \in Requests, i \in Invites : Has(p, i)' <=> p # q /\ Has(p, i)
  BY <1>1 DEF Has
<1> QED
  BY <1>1, <1>2, <1>3, <1>4, <1>5

\* The links and who came by them stay as they are.
LEMMA EndsQuietly ==
  ASSUME IInv, NEW q \in Requests, Finish(q), Observe, pc[q] # "joined",
         UNCHANGED <<ops, signed, life, invite, joined, shared>>, raced' \in BOOLEAN
  PROVE  /\ HistoryOK' /\ RequestsOK' /\ ShapeInv' /\ SeenInv' /\ BirthInv' /\ LinkInv'
         /\ \A p \in Requests : pc'[p] = IF p = q THEN "idle" ELSE pc[p]
         /\ \A p \in Requests \ {q} : req'[p] = req[p]
<1>1. /\ RequestsOK' /\ ShapeInv' /\ SeenInv'
      /\ \A p \in Requests : pc'[p] = IF p = q THEN "idle" ELSE pc[p]
      /\ \A p \in Requests \ {q} : req'[p] = req[p]
      /\ \A p \in Requests, i \in Invites : Has(p, i)' => Has(p, i)
  BY Ends
<1>2. HistoryOK'
  BY DEF IInv, HistoryOK
<1>3. BirthInv'
  BY <1>1 DEF IInv, BirthInv
<1>4. LinkInv'
  <2>1. \A p \in Requests : pc[p] = "joined" => pc'[p] = "joined" /\ req'[p] = req[p]
    BY <1>1
  <2> QED
    BY <1>1, <2>1, QuietLinks
<1> QED
  BY <1>1, <1>2, <1>3, <1>4

LEMMA EndStep ==
  ASSUME IInv, NEW q \in Requests, End(q)
  PROVE  IInv'
<1>1. /\ Finish(q) /\ Observe /\ pc[q] # "idle"
      /\ shared' = IF pc[q] = "joined" THEN shared \cup {req[q].inv} ELSE shared
      /\ UNCHANGED <<ops, signed, referred, life, visibility, role, pins, invite, raced, joined>>
  BY DEF End, accounts, group
<1>2. /\ RequestsOK' /\ ShapeInv' /\ SeenInv'
      /\ \A p \in Requests : pc'[p] = IF p = q THEN "idle" ELSE pc[p]
      /\ \A p \in Requests \ {q} : req'[p] = req[p]
      /\ \A p \in Requests, i \in Invites : Has(p, i)' => Has(p, i)
  BY <1>1, Ends
<1>3. AccountsOK' /\ GroupOK'
  BY <1>1 DEF IInv, AccountsOK, GroupOK
<1>4. HistoryOK'
  <2>1. pc[q] = "joined" => req[q].inv \in Invites
    BY DEF IInv, ShapeInv, Shape
  <2> QED
    BY <1>1, <2>1 DEF IInv, HistoryOK
<1>5. OwnerInv'
  <2>1. Owners' = Owners
    BY <1>1 DEF Owners
  <2> QED
    BY <1>1, <1>2, <2>1, QuietOwners
<1>6. BirthInv'
  BY <1>1, <1>2 DEF IInv, BirthInv
<1>7. LinkInv'
  <2>1. \A p \in Requests : pc[p] = "joined" =>
          (pc'[p] = "joined" /\ req'[p] = req[p]) \/ req[p].inv \in shared'
    BY <1>1, <1>2
  <2> QED
    BY <1>1, <1>2, <2>1, QuietLinks
<1> QED
  BY <1>2, <1>3, <1>4, <1>5, <1>6, <1>7 DEF IInv

\* A role is written over that of a member: if it takes an owner away, another
\* request that counted on her makes the step a race.
LEMMA SetRoleStep ==
  ASSUME IInv, NEW q \in Requests, pc[q] = "writing", Finish(q), Observe,
         NEW r \in Roles \cup {"none"}, SetRole(q, req[q].target, r),
         req[q].op \in MemberOps, r # "owner" => req[q].op \in {"demote", "remove"},
         r # "none" => role[req[q].target] # "none",
         UNCHANGED <<ops, signed, referred, life, visibility, pins, invite, joined, shared>>
  PROVE  IInv'
<1> DEFINE u == req[q].target
<1>1. u \in signed /\ signed \subseteq Users
  BY DEF IInv, AccountsOK, ShapeInv, Shape
<1> HIDE DEF u
<1>2. /\ role' = [role EXCEPT ![u] = r]
      /\ raced' = (raced \/ (u \in Owners /\ r # "owner" /\ Undecided(q)))
      /\ r # "none" => role[u] # "none"
  BY DEF SetRole, u
<1>3. /\ role' \in [Users -> Roles \cup {"none"}]
      /\ \A v \in Users : role'[v] = IF v = u THEN r ELSE role[v]
  BY <1>1, <1>2, Replaced DEF IInv, GroupOK
<1>4. raced' \in BOOLEAN
  BY <1>2
<1>5. /\ HistoryOK' /\ RequestsOK' /\ ShapeInv' /\ SeenInv' /\ BirthInv' /\ LinkInv'
      /\ \A p \in Requests : pc'[p] = IF p = q THEN "idle" ELSE pc[p]
      /\ \A p \in Requests \ {q} : req'[p] = req[p]
  BY <1>4, EndsQuietly
<1>6. AccountsOK'
  BY <1>1, <1>3 DEF IInv, AccountsOK
<1>7. GroupOK'
  <2>1. CASE life = "live"
    BY <1>3, <2>1 DEF IInv, GroupOK
  <2>2. CASE life # "live"
    <3>1. role = [v \in Users |-> "none"]
      BY <2>2 DEF IInv, GroupOK
    <3>2. r = "none"
      BY <1>1, <1>2, <3>1
    <3>3. \A v \in Users : role'[v] = "none"
      BY <1>3, <3>1, <3>2
    <3>4. role' = [v \in Users |-> "none"]
      BY <1>3, <3>3
    <3> QED
      BY <1>3, <2>2, <3>4 DEF IInv, GroupOK
  <2> QED
    BY <2>1, <2>2
<1>8. OwnerInv'
  <2> SUFFICES ASSUME ~raced', life = "live"
               PROVE  /\ Owners' # {}
                      /\ \A p \in Requests :
                           pc'[p] = "writing" /\ req'[p].op \in {"demote", "remove"} =>
                             Owners' \ {req'[p].target} # {}
    BY DEF OwnerInv
  <2>1. ~raced /\ (u \in Owners /\ r # "owner" => ~Undecided(q))
    BY <1>2
  <2>2. /\ Owners # {}
        /\ \A p \in Requests :
             pc[p] = "writing" /\ req[p].op \in {"demote", "remove"} =>
               Owners \ {req[p].target} # {}
    BY <2>1 DEF IInv, OwnerInv
  <2>3. Owners \ {u} \subseteq Owners' /\ (u \in Owners => r = "owner" \/ u \notin Owners')
    BY <1>1, <1>3 DEF Owners
  <2>4. CASE r = "owner" \/ u \notin Owners
    <3>1. Owners \subseteq Owners'
      BY <1>1, <1>3, <2>4 DEF Owners
    <3> QED
      BY <1>5, <2>2, <3>1
  <2>5. CASE r # "owner" /\ u \in Owners
    <3>1. \A p \in Requests \ {q} : ~(pc[p] = "writing" /\ req[p].op \in {"demote", "remove"})
      BY <2>1, <2>5 DEF Undecided
    <3>2. Owners \ {u} # {}
      BY <2>2, <2>5 DEF u
    <3> QED
      BY <1>5, <2>3, <3>1, <3>2
  <2> QED
    BY <2>4, <2>5
<1> QED
  BY <1>5, <1>6, <1>7, <1>8 DEF IInv

LEMMA UpdateRoleStep ==
  ASSUME IInv, NEW q \in Requests, NEW r \in Roles, UpdateRole(q, r)
  PROVE  IInv'
<1>1. /\ pc[q] = "writing" /\ Finish(q) /\ Observe
      /\ req[q].op = IF r = "owner" THEN "promote" ELSE "demote"
      /\ UNCHANGED <<ops, signed, referred, life, visibility, pins, invite, joined, shared>>
  BY DEF UpdateRole, accounts
<1>2. CASE UNCHANGED <<role, raced>>
  <2>1. /\ HistoryOK' /\ RequestsOK' /\ ShapeInv' /\ SeenInv' /\ BirthInv' /\ LinkInv'
        /\ \A p \in Requests : pc'[p] = IF p = q THEN "idle" ELSE pc[p]
        /\ \A p \in Requests \ {q} : req'[p] = req[p]
    BY <1>1, <1>2, EndsQuietly DEF IInv, HistoryOK
  <2>2. AccountsOK' /\ GroupOK'
    BY <1>1, <1>2 DEF IInv, AccountsOK, GroupOK
  <2>3. Owners' = Owners
    BY <1>2 DEF Owners
  <2>4. OwnerInv'
    BY <1>1, <1>2, <2>1, <2>3, QuietOwners
  <2> QED
    BY <2>1, <2>2, <2>4 DEF IInv
<1>3. CASE role[req[q].target] # "none" /\ SetRole(q, req[q].target, r)
  <2>1. req[q].op \in MemberOps /\ (r # "owner" => req[q].op \in {"demote", "remove"})
    BY <1>1 DEF MemberOps
  <2> QED
    BY <1>1, <1>3, <2>1, SetRoleStep
<1> QED
  BY <1>2, <1>3 DEF UpdateRole

LEMMA RemoveMemberStep ==
  ASSUME IInv, NEW q \in Requests, RemoveMember(q)
  PROVE  IInv'
<1>1. /\ pc[q] = "writing" /\ Finish(q) /\ Observe /\ req[q].op = "remove"
      /\ SetRole(q, req[q].target, "none")
      /\ UNCHANGED <<ops, signed, referred, life, visibility, pins, invite, joined, shared>>
  BY DEF RemoveMember, accounts
<1>2. req[q].op \in MemberOps
  BY <1>1 DEF MemberOps
<1> QED
  BY <1>1, <1>2, SetRoleStep

\* Somebody who was no member becomes one.
LEMMA Joins ==
  ASSUME IInv, NEW u \in signed, NEW r \in Roles \cup {"none"}, role[u] = "none",
         role' = [role EXCEPT ![u] = r], life = "live",
         UNCHANGED <<ops, signed, life, visibility, pins, invite>>
  PROVE  GroupOK' /\ Owners \subseteq Owners' /\ \A v \in Users \ signed : role'[v] = "none"
<1>1. u \in Users
  BY DEF IInv, AccountsOK
<1>2. /\ role' \in [Users -> Roles \cup {"none"}]
      /\ \A v \in Users : role'[v] = IF v = u THEN r ELSE role[v]
  BY <1>1, Replaced DEF IInv, GroupOK
<1> QED
  BY <1>2 DEF IInv, GroupOK, AccountsOK, Owners

LEMMA AddMemberStep ==
  ASSUME IInv, NEW q \in Requests, NEW r \in Roles, AddMember(q, r)
  PROVE  IInv'
<1>1. /\ pc[q] = "writing" /\ Finish(q) /\ Observe /\ req[q].op = "add"
      /\ life = "live" /\ role[req[q].target] = "none"
      /\ role' = [role EXCEPT ![req[q].target] = r]
      /\ UNCHANGED <<ops, signed, referred, life, visibility, pins, invite, raced, joined,
                     shared>>
  BY DEF AddMember, accounts
<1>2. /\ HistoryOK' /\ RequestsOK' /\ ShapeInv' /\ SeenInv' /\ BirthInv' /\ LinkInv'
      /\ \A p \in Requests : pc'[p] = IF p = q THEN "idle" ELSE pc[p]
      /\ \A p \in Requests \ {q} : req'[p] = req[p]
  BY <1>1, EndsQuietly DEF IInv, HistoryOK
<1>3. req[q].target \in signed
  BY <1>1 DEF IInv, ShapeInv, Shape
<1>4. GroupOK' /\ Owners \subseteq Owners' /\ \A v \in Users \ signed : role'[v] = "none"
  BY <1>1, <1>3, Joins
<1>5. AccountsOK'
  BY <1>1, <1>4 DEF IInv, AccountsOK
<1>6. OwnerInv'
  BY <1>1, <1>2, <1>4, QuietOwners
<1> QED
  BY <1>2, <1>4, <1>5, <1>6 DEF IInv

\* Neither a role nor a link is written.
LEMMA GroupStep ==
  ASSUME IInv, NEW q \in Requests, UpdateGroup(q) \/ Pin(q) \/ Unpin(q)
  PROVE  IInv'
<1>1. /\ pc[q] = "authorised" /\ Finish(q) /\ Observe
      /\ visibility' \in Visibilities /\ pins' \subseteq Spots
      /\ life # "live" => pins' = {}
      /\ UNCHANGED <<ops, signed, referred, life, role, invite, raced, joined, shared>>
  <2>1. visibility \in Visibilities /\ pins \subseteq Spots /\ (life # "live" => pins = {})
    BY DEF IInv, GroupOK
  <2>2. CASE UpdateGroup(q)
    BY <2>1, <2>2 DEF UpdateGroup, Ready, accounts
  <2>3. CASE Pin(q)
    <3>1. req[q].op = "pin"
      BY <2>3 DEF Pin, Ready
    <3>2. req[q].target \in Spots
      BY <3>1 DEF IInv, ShapeInv, Shape
    <3> QED
      BY <2>1, <2>3, <3>2 DEF Pin, Ready, accounts
  <2>4. CASE Unpin(q)
    BY <2>1, <2>4 DEF Unpin, Ready, accounts
  <2> QED
    BY <2>2, <2>3, <2>4
<1>2. /\ HistoryOK' /\ RequestsOK' /\ ShapeInv' /\ SeenInv' /\ BirthInv' /\ LinkInv'
      /\ \A p \in Requests : pc'[p] = IF p = q THEN "idle" ELSE pc[p]
      /\ \A p \in Requests \ {q} : req'[p] = req[p]
  BY <1>1, EndsQuietly DEF IInv, HistoryOK
<1>3. AccountsOK' /\ GroupOK'
  BY <1>1 DEF IInv, AccountsOK, GroupOK
<1>4. OwnerInv'
  <2>1. Owners' = Owners
    BY <1>1 DEF Owners
  <2> QED
    BY <1>1, <1>2, <2>1, QuietOwners
<1> QED
  BY <1>2, <1>3, <1>4 DEF IInv

\* With the group go its members and links.
LEMMA DeleteGroupStep ==
  ASSUME IInv, NEW q \in Requests, DeleteGroup(q)
  PROVE  IInv'
<1>1. /\ pc[q] = "authorised" /\ Finish(q) /\ Observe
      /\ life' = "deleted" /\ role' = [u \in Users |-> "none"] /\ pins' = {}
      /\ invite' = [i \in Invites |-> NoInvite]
      /\ UNCHANGED <<ops, signed, referred, visibility, raced, joined, shared>>
  BY DEF DeleteGroup, Ready, accounts
<1>2. /\ RequestsOK' /\ ShapeInv' /\ SeenInv'
      /\ \A p \in Requests : pc'[p] = IF p = q THEN "idle" ELSE pc[p]
      /\ \A p \in Requests \ {q} : req'[p] = req[p]
      /\ \A p \in Requests, i \in Invites : Has(p, i)' => Has(p, i)
  BY <1>1, Ends
<1>3. AccountsOK' /\ HistoryOK' /\ OwnerInv' /\ BirthInv'
  BY <1>1 DEF IInv, AccountsOK, HistoryOK, OwnerInv, BirthInv
<1>4. GroupOK'
  <2>1. NoInvite \in Link
    BY DEF NoInvite, Link
  <2> QED
    BY <1>1, <2>1 DEF IInv, GroupOK
<1>5. LinkInv'
  <2>1. \A p \in Requests : pc[p] = "joined" => pc'[p] = "joined" /\ req'[p] = req[p]
    BY <1>1, <1>2
  <2>2. \A i \in Invites : invite'[i].status = "none"
    BY <1>1 DEF NoInvite
  <2> QED
    BY <1>1, <1>2, <2>1, <2>2, QuietLinks
<1> QED
  BY <1>2, <1>3, <1>4, <1>5 DEF IInv

---------------------------------------------------------------------------
(* Links.                                                                  *)

\* The link of a request is there as long as the group is.
LEMMA HeldLink ==
  ASSUME IInv, NEW q \in Requests, NEW i \in Invites, Has(q, i), life = "live"
  PROVE  invite[i].status # "none" /\ invite[i].inviter \in signed
BY DEF IInv, LinkInv, Unused

LEMMA StatusLink ==
  ASSUME NEW l \in Link, NEW x \in {"pending", "accepted"}
  PROVE  /\ [l EXCEPT !.status = x] \in Link
         /\ [l EXCEPT !.status = x].status = x /\ [l EXCEPT !.status = x].inviter = l.inviter
BY DEF Link

LEMMA OldLink ==
  ASSUME NEW l \in Link
  PROVE  /\ [l EXCEPT !.old = TRUE] \in Link
         /\ [l EXCEPT !.old = TRUE].status = l.status
         /\ [l EXCEPT !.old = TRUE].inviter = l.inviter
BY DEF Link

LEMMA IssueInviteStep ==
  ASSUME IInv, NEW q \in Requests, NEW i \in Invites, NEW r \in Roles, IssueInvite(q, i, r)
  PROVE  IInv'
<1> DEFINE new == [NoInvite EXCEPT !.status = "pending", !.inviter = req[q].by, !.role = r]
<1>1. /\ pc[q] = "authorised" /\ req[q].op = "issue" /\ life = "live" /\ Finish(q) /\ Observe
      /\ invite[i].status = "none" /\ invite' = [invite EXCEPT ![i] = new]
      /\ UNCHANGED <<ops, signed, referred, life, visibility, role, pins, raced, joined,
                     shared>>
  BY DEF IssueInvite, Ready, accounts, group
<1>2. req[q].by \in signed /\ signed \subseteq Users
  BY <1>1 DEF IInv, ShapeInv, Shape, AccountsOK
<1>3. NoInvite \in Link /\ req[q].by \in Users
  BY <1>2 DEF NoInvite, Link
<1>4. new \in Link /\ new.status = "pending" /\ new.inviter \in signed
  <2>1. PICK l \in Link : l = NoInvite
    BY <1>3
  <2>2. new = [l EXCEPT !.status = "pending", !.inviter = req[q].by, !.role = r]
    BY <2>1
  <2> HIDE DEF new
  <2>3. new \in Link /\ new.status = "pending" /\ new.inviter = req[q].by
    BY <1>3, <2>2 DEF Link
  <2> QED
    BY <1>2, <2>3
<1> HIDE DEF new
<1>5. /\ invite' \in [Invites -> Link]
      /\ \A j \in Invites : invite'[j] = IF j = i THEN new ELSE invite[j]
  BY <1>1, <1>4, Replaced DEF IInv, GroupOK
<1>6. /\ RequestsOK' /\ ShapeInv' /\ SeenInv'
      /\ \A p \in Requests : pc'[p] = IF p = q THEN "idle" ELSE pc[p]
      /\ \A p \in Requests \ {q} : req'[p] = req[p]
      /\ \A p \in Requests, j \in Invites : Has(p, j)' => Has(p, j)
  BY <1>1, Ends
<1>7. AccountsOK' /\ HistoryOK' /\ GroupOK'
  BY <1>1, <1>5 DEF IInv, AccountsOK, HistoryOK, GroupOK
<1>8. OwnerInv' /\ BirthInv'
  <2>1. Owners' = Owners
    BY <1>1 DEF Owners
  <2> QED
    BY <1>1, <1>6, <2>1, QuietOwners DEF BirthInv
<1>9. LinkInv'
  <2> SUFFICES ASSUME NEW j \in Invites
               PROVE  /\ invite'[j].status # "none" => invite'[j].inviter \in signed'
                      /\ life' = "live" /\ invite'[j].status = "none" => Unused(j)'
                      /\ j \notin shared' /\ joined'[j] # {} => UsedOnce(j)'
    BY DEF LinkInv
  <2>1. CASE j = i
    <3>1. joined[i] = {}
      BY <1>1 DEF IInv, LinkInv, Unused
    <3> QED
      BY <1>1, <1>4, <1>5, <2>1, <3>1
  <2>2. CASE j # i
    <3>1. invite'[j] = invite[j]
      BY <1>5, <2>2
    <3>2. Unused(j) => Unused(j)'
      BY <1>1, <1>6 DEF Unused
    <3>3. UsedOnce(j) => UsedOnce(j)'
      BY <1>1, <1>6, <3>1 DEF UsedOnce
    <3> QED
      BY <1>1, <3>1, <3>2, <3>3 DEF IInv, LinkInv
  <2> QED
    BY <2>1, <2>2
<1> QED
  BY <1>6, <1>7, <1>8, <1>9 DEF IInv

\* The referrer of a new user is an account.
LEMMA Refers ==
  ASSUME IInv, NEW q \in Requests, Refer(q), pc[q] \notin {"idle", "new", "registered"}
  PROVE  /\ referred' \in [Users -> signed \cup {Nobody}]
         /\ \A u \in Users \ signed : referred'[u] = referred[u]
<1>1. referred \in [Users -> signed \cup {Nobody}]
  BY DEF IInv, AccountsOK
<1>2. CASE req[q].op = "signup"
  <2>1. req[q].by \in Users /\ req[q].by \in signed /\ loaded[q] \in signed
    BY <1>2 DEF IInv, ShapeInv, Shape, InviteOps
  <2>2. /\ referred' \in [Users -> signed \cup {Nobody}]
        /\ \A u \in Users : referred'[u] = IF u = req[q].by THEN loaded[q] ELSE referred[u]
    BY <1>1, <1>2, <2>1, Replaced DEF Refer
  <2> QED
    BY <2>1, <2>2
<1>3. CASE req[q].op # "signup"
  BY <1>1, <1>3 DEF Refer
<1> QED
  BY <1>2, <1>3

LEMMA ReferOnlyStep ==
  ASSUME IInv, NEW q \in Requests, ReferOnly(q)
  PROVE  IInv'
<1>1. /\ pc[q] \in {"begun", "open"} /\ Refer(q) /\ Finish(q) /\ Observe
      /\ UNCHANGED <<ops, signed, life, visibility, role, pins, invite, raced, joined, shared>>
  BY DEF ReferOnly, group
<1>2. /\ HistoryOK' /\ RequestsOK' /\ ShapeInv' /\ SeenInv' /\ BirthInv' /\ LinkInv'
      /\ \A p \in Requests : pc'[p] = IF p = q THEN "idle" ELSE pc[p]
      /\ \A p \in Requests \ {q} : req'[p] = req[p]
  BY <1>1, EndsQuietly DEF IInv, HistoryOK
<1>3. AccountsOK' /\ GroupOK'
  BY <1>1, Refers DEF IInv, AccountsOK, GroupOK
<1>4. OwnerInv'
  <2>1. Owners' = Owners
    BY <1>1 DEF Owners
  <2> QED
    BY <1>1, <1>2, <2>1, QuietOwners
<1> QED
  BY <1>2, <1>3, <1>4 DEF IInv

\* If nobody else has the link, nobody has come in by it.
LEMMA JoinStep ==
  ASSUME IInv, NEW q \in Requests, Join(q)
  PROVE  IInv'
<1>0. PICK i \in Invites, u \in signed : i = req[q].inv /\ u = req[q].by
  <2>1. pc[q] = "writing" /\ req[q].op \in InviteOps /\ Shape(q)
    BY DEF Join, IInv, ShapeInv
  <2> QED
    BY <2>1 DEF Shape, InviteOps
<1>1. /\ pc[q] = "writing" /\ req[q].op \in InviteOps /\ life = "live" /\ role[u] = "none"
      /\ role' = [role EXCEPT ![u] = invite[i].role]
      /\ joined' = [joined EXCEPT ![i] = joined[i] \cup {u}]
      /\ shared' = IF Holders(q) # {} THEN shared \cup {i} ELSE shared
      /\ Refer(q) /\ Goto(q, "joined") /\ Observe
      /\ UNCHANGED <<ops, signed, life, visibility, pins, invite, req, loaded, raced>>
  BY <1>0 DEF Join
<1>3. u \in Users /\ i \in Invites /\ u \in signed
  BY DEF IInv, AccountsOK
<1>4. Has(q, i)
  BY <1>0, <1>1 DEF Has
<1>5. \A p \in Requests \ {q} : pc[p] = "joined" /\ req[p].inv = i => p \in Holders(q)
  BY <1>0 DEF Holders
<1>6. "joined" \in Places
  BY DEF Places
<1>7. /\ pc' \in [Requests -> Places]
      /\ \A p \in Requests : pc'[p] = IF p = q THEN "joined" ELSE pc[p]
  BY <1>1, <1>6, GotoTypes DEF IInv
<1>8. RequestsOK'
  <2>1. Req' = Req
    BY <1>1 DEF Req
  <2>2. seen' \in [Requests -> SUBSET Conditions]
    BY <1>1, ObserveTypes DEF IInv
  <2> QED
    BY <1>1, <1>7, <2>1, <2>2 DEF IInv, RequestsOK
<1>9. ShapeInv'
  <2> SUFFICES ASSUME NEW p \in Requests PROVE Shape(p)'
    BY DEF ShapeInv
  <2>1. Shape(p)
    BY DEF IInv, ShapeInv
  <2> QED
    BY <1>1, <1>7, <2>1 DEF Shape
<1>10. SeenInv'
  <2>1. \A c : ~Due(q, c)'
    BY <1>7 DEF Due
  <2> QED
    BY <1>1, <1>7, <2>1, SeenStep DEF IInv
<1>11. GroupOK' /\ Owners \subseteq Owners' /\ \A v \in Users \ signed : role'[v] = "none"
  <2>1. invite[i].role \in Roles \cup {"none"}
    BY <1>3 DEF IInv, GroupOK, Link
  <2> QED
    BY <1>1, <1>3, <2>1, Joins
<1>12. AccountsOK'
  BY <1>1, <1>11, Refers DEF IInv, AccountsOK
<1>13. /\ joined' \in [Invites -> SUBSET Users]
       /\ \A j \in Invites : joined'[j] = IF j = i THEN joined[i] \cup {u} ELSE joined[j]
  <2>1. joined \in [Invites -> SUBSET Users] /\ joined[i] \cup {u} \in SUBSET Users
    BY <1>3 DEF IInv, HistoryOK
  <2> QED
    BY <1>1, <1>3, <2>1, Replaced
<1>14. HistoryOK'
  BY <1>1, <1>3, <1>13 DEF IInv, HistoryOK
<1>15. OwnerInv' /\ BirthInv'
  BY <1>1, <1>7, <1>11, QuietOwners DEF BirthInv
<1>16. LinkInv'
  <2> SUFFICES ASSUME NEW j \in Invites
               PROVE  /\ invite'[j].status # "none" => invite'[j].inviter \in signed'
                      /\ life' = "live" /\ invite'[j].status = "none" => Unused(j)'
                      /\ j \notin shared' /\ joined'[j] # {} => UsedOnce(j)'
    BY DEF LinkInv
  <2>1. CASE j = i
    <3>1. invite[i].status # "none" /\ invite[i].inviter \in signed
      BY <1>1, <1>3, <1>4, HeldLink
    <3>2. ASSUME i \notin shared' PROVE UsedOnce(i)'
      <4>1. i \notin shared /\ Holders(q) = {}
        BY <1>1, <3>2
      <4>2. joined[i] = {}
        BY <1>1, <1>3, <1>4, <1>5, <4>1 DEF IInv, LinkInv, UsedOnce
      <4>3. joined'[i] = {u}
        BY <1>3, <1>13, <4>2
      <4>4. pc'[q] = "joined" /\ req'[q].inv = i
        BY <1>0, <1>1, <1>7
      <4> QED
        BY <1>3, <4>3, <4>4 DEF UsedOnce
    <3> QED
      BY <1>1, <2>1, <3>1, <3>2
  <2>2. CASE j # i
    <3>1. \A p \in Requests : Has(p, j)' => Has(p, j)
      BY <1>0, <1>1, <1>7, <2>2 DEF Has
    <3>2. invite'[j] = invite[j] /\ joined'[j] = joined[j]
      BY <1>1, <1>13, <2>2
    <3>3. Unused(j) => Unused(j)'
      BY <3>1, <3>2 DEF Unused
    <3>4. UsedOnce(j) => UsedOnce(j)'
      BY <1>1, <1>7, <3>1, <3>2 DEF UsedOnce
    <3> QED
      BY <1>1, <3>2, <3>3, <3>4 DEF IInv, LinkInv
  <2> QED
    BY <2>1, <2>2
<1> QED
  BY <1>8, <1>9, <1>10, <1>11, <1>12, <1>14, <1>15, <1>16 DEF IInv

LEMMA CloseInviteStep ==
  ASSUME IInv, NEW q \in Requests, CloseInvite(q)
  PROVE  IInv'
<1>0. PICK i \in Invites : i = req[q].inv
  <2>1. pc[q] = "joined" /\ Shape(q)
    BY DEF CloseInvite, IInv, ShapeInv
  <2> QED
    BY <2>1 DEF Shape
<1>1. /\ pc[q] = "joined" /\ life = "live" /\ Finish(q) /\ Observe
      /\ invite' = [invite EXCEPT ![i] = [invite[i] EXCEPT !.status = "accepted"]]
      /\ shared' = IF Holders(q) # {} THEN shared \cup {i} ELSE shared
      /\ UNCHANGED <<ops, signed, referred, life, visibility, role, pins, raced, joined>>
  BY <1>0 DEF CloseInvite, accounts, group
<1>2. req[q].op \in InviteOps /\ Has(q, i)
  BY <1>0, <1>1 DEF IInv, ShapeInv, Shape, Has
<1>3. /\ invite' \in [Invites -> Link]
      /\ \A j \in Invites \ {i} : invite'[j] = invite[j]
      /\ invite'[i].status = "accepted" /\ invite'[i].inviter = invite[i].inviter
  <2>1. PICK l \in Link : l = [invite[i] EXCEPT !.status = "accepted"]
                            /\ l.status = "accepted" /\ l.inviter = invite[i].inviter
    BY StatusLink DEF IInv, GroupOK
  <2> QED
    BY <1>1, <2>1, Replaced DEF IInv, GroupOK
<1>4. /\ RequestsOK' /\ ShapeInv' /\ SeenInv'
      /\ \A p \in Requests : pc'[p] = IF p = q THEN "idle" ELSE pc[p]
      /\ \A p \in Requests \ {q} : req'[p] = req[p]
      /\ \A p \in Requests, j \in Invites : Has(p, j)' <=> p # q /\ Has(p, j)
  BY <1>1, Ends
<1>5. AccountsOK' /\ HistoryOK' /\ GroupOK' /\ BirthInv'
  BY <1>1, <1>3 DEF IInv, AccountsOK, HistoryOK, GroupOK, BirthInv
<1>6. OwnerInv'
  <2>1. Owners' = Owners
    BY <1>1 DEF Owners
  <2> QED
    BY <1>1, <1>4, <2>1, QuietOwners
<1>7. LinkInv'
  <2> SUFFICES ASSUME NEW j \in Invites
               PROVE  /\ invite'[j].status # "none" => invite'[j].inviter \in signed'
                      /\ life' = "live" /\ invite'[j].status = "none" => Unused(j)'
                      /\ j \notin shared' /\ joined'[j] # {} => UsedOnce(j)'
    BY DEF LinkInv
  <2>1. CASE j = i
    <3>1. invite[i].inviter \in signed
      BY <1>1, <1>2, HeldLink
    <3>2. ASSUME i \notin shared', joined[i] # {} PROVE UsedOnce(i)'
      <4>1. i \notin shared /\ Holders(q) = {}
        BY <1>1, <3>2
      <4>2. \A p \in Requests : ~Has(p, i)'
        BY <1>0, <1>4, <4>1 DEF Has, Holders
      <4>3. \E u \in Users : joined[i] = {u}
        BY <3>2, <4>1 DEF IInv, LinkInv, UsedOnce
      <4> QED
        BY <1>1, <1>3, <4>2, <4>3 DEF UsedOnce
    <3> QED
      BY <1>1, <1>3, <2>1, <3>1, <3>2
  <2>2. CASE j # i
    <3>1. invite'[j] = invite[j] /\ \A p \in Requests : Has(p, j)' => Has(p, j)
      BY <1>3, <1>4, <2>2
    <3>2. Unused(j) => Unused(j)'
      BY <1>1, <3>1 DEF Unused
    <3>3. UsedOnce(j) => UsedOnce(j)'
      BY <1>0, <1>1, <1>4, <2>2, <3>1 DEF UsedOnce
    <3>4. j \notin shared' => j \notin shared
      BY <1>1
    <3>5. UNCHANGED <<signed, life, joined>>
      BY <1>1
    <3> QED
      BY <3>1, <3>2, <3>3, <3>4, <3>5 DEF IInv, LinkInv
  <2> QED
    BY <2>1, <2>2
<1> QED
  BY <1>4, <1>5, <1>6, <1>7 DEF IInv

---------------------------------------------------------------------------
(* Steps of nobody's request.                                              *)

LEMMA RequestsRest ==
  ASSUME IInv, UNCHANGED <<ops, signed, pc, req, loaded>>, Observe
  PROVE  RequestsOK' /\ ShapeInv' /\ SeenInv'
<1>1. RequestsOK'
  <2>1. Req' = Req
    BY DEF Req
  <2>2. seen' \in [Requests -> SUBSET Conditions]
    BY ObserveTypes DEF IInv
  <2> QED
    BY <2>1, <2>2 DEF IInv, RequestsOK
<1>2. ShapeInv'
  BY DEF IInv, ShapeInv, Shape
<1>3. SeenInv'
  <2> SUFFICES ASSUME NEW q \in Requests PROVE SeenInv'
    BY DEF SeenInv
  <2>1. \A p \in Requests : Asks(p)' = Asks(p) /\ \A c : Due(p, c)' <=> Due(p, c)
    BY AsksStay
  <2> QED
    BY <2>1, SeenStep DEF IInv
<1> QED
  BY <1>1, <1>2, <1>3

LEMMA CreateGroupStep ==
  ASSUME IInv, NEW u \in Users, CreateGroup(u)
  PROVE  IInv'
<1>1. /\ u \in signed /\ life = "unborn" /\ life' = "live" /\ visibility' \in Visibilities
      /\ role' = [role EXCEPT ![u] = "owner"] /\ Observe
      /\ UNCHANGED <<ops, signed, referred, pins, invite, pc, req, loaded, raced, joined,
                     shared>>
  BY DEF CreateGroup, accounts, request
<1>2. RequestsOK' /\ ShapeInv' /\ SeenInv'
  BY <1>1, RequestsRest
<1>3. /\ role' \in [Users -> Roles \cup {"none"}]
      /\ \A v \in Users : role'[v] = IF v = u THEN "owner" ELSE role[v]
  BY <1>1, RolesAssumption, Replaced DEF IInv, GroupOK
<1>4. AccountsOK' /\ HistoryOK' /\ GroupOK' /\ BirthInv'
  BY <1>1, <1>3 DEF IInv, AccountsOK, HistoryOK, GroupOK, BirthInv
<1>5. \A q \in Requests : pc[q] \in {"idle", "new", "registered"}
  BY <1>1 DEF IInv, BirthInv
<1>6. OwnerInv'
  BY <1>1, <1>3, <1>5 DEF OwnerInv, Owners
<1>7. LinkInv'
  <2>1. \A i \in Invites : invite[i] = NoInvite /\ joined[i] = {}
    BY <1>1 DEF IInv, GroupOK, BirthInv
  <2>2. \A i \in Invites, q \in Requests : ~Has(q, i)'
    BY <1>1, <1>5 DEF Has
  <2>3. \A i \in Invites : invite'[i].status = "none" /\ joined'[i] = {}
    BY <1>1, <2>1 DEF NoInvite
  <2> QED
    BY <2>2, <2>3 DEF LinkInv, Unused
<1> QED
  BY <1>2, <1>4, <1>6, <1>7 DEF IInv

LEMMA ExpireInviteStep ==
  ASSUME IInv, NEW i \in Invites, ExpireInvite(i)
  PROVE  IInv'
<1>1. /\ invite[i].status = "pending" /\ Observe
      /\ invite' = [invite EXCEPT ![i] = [invite[i] EXCEPT !.old = TRUE]]
      /\ UNCHANGED <<ops, signed, referred, life, visibility, role, pins, pc, req, loaded,
                     raced, joined, shared>>
  BY DEF ExpireInvite, accounts, group, request
<1>2. /\ invite' \in [Invites -> Link]
      /\ \A j \in Invites : invite'[j].status = invite[j].status
                              /\ invite'[j].inviter = invite[j].inviter
  <2>1. PICK l \in Link : l = [invite[i] EXCEPT !.old = TRUE]
                            /\ l.status = invite[i].status /\ l.inviter = invite[i].inviter
    BY OldLink DEF IInv, GroupOK
  <2>2. /\ invite' \in [Invites -> Link]
        /\ \A j \in Invites : invite'[j] = IF j = i THEN l ELSE invite[j]
    BY <1>1, <2>1, Replaced DEF IInv, GroupOK
  <2> QED
    BY <2>1, <2>2
<1>3. RequestsOK' /\ ShapeInv' /\ SeenInv'
  BY <1>1, RequestsRest
<1>4. life = "live"
  <2>1. life # "live" => invite[i] = NoInvite
    BY DEF IInv, GroupOK
  <2> QED
    BY <1>1, <2>1 DEF NoInvite, IInv, GroupOK
<1>5. AccountsOK' /\ HistoryOK' /\ GroupOK' /\ BirthInv'
  BY <1>1, <1>2, <1>4 DEF IInv, AccountsOK, HistoryOK, GroupOK, BirthInv
<1>6. OwnerInv'
  <2>1. Owners' = Owners
    BY <1>1 DEF Owners
  <2> QED
    BY <1>1, <2>1, QuietOwners
<1>7. LinkInv'
  <2>1. \A q \in Requests, j \in Invites : Has(q, j)' => Has(q, j)
    BY <1>1 DEF Has
  <2> QED
    BY <1>1, <1>2, <2>1, QuietLinks
<1> QED
  BY <1>3, <1>5, <1>6, <1>7 DEF IInv

---------------------------------------------------------------------------
(* The invariant, and what follows from it.                                *)

LEMMA InvInit ==
  ASSUME Init PROVE IInv
<1>1. ops \subseteq AllOps /\ signed \subseteq Users
  BY StartsAssumption DEF Init
<1>2. AccountsOK
  BY <1>1 DEF Init, AccountsOK
<1>3. GroupOK
  <2>1. NoInvite \in Link
    BY DEF NoInvite, Link
  <2> QED
    BY <2>1 DEF Init, GroupOK, Visibilities
<1>4. HistoryOK
  BY DEF Init, HistoryOK
<1>5. RequestsOK
  BY NoRequestIsOne DEF Init, RequestsOK, Places
<1>6. ShapeInv
  BY DEF Init, ShapeInv, Shape, NoRequest, InviteOps, MemberOps
<1>7. SeenInv
  BY DEF Init, SeenInv, Due
<1>8. OwnerInv /\ BirthInv
  BY DEF Init, OwnerInv, BirthInv
<1>9. LinkInv
  BY DEF Init, LinkInv, NoInvite
<1> QED
  BY <1>2, <1>3, <1>4, <1>5, <1>6, <1>7, <1>8, <1>9 DEF IInv

LEMMA InvStep ==
  ASSUME IInv, [Next]_vars PROVE IInv'
<1>1. ASSUME NEW q \in Requests, RequestStep(q) PROVE IInv'
  BY <1>1, BeginStep, BeginSignUpStep, AuthoriseStep, EndStep, LoadTargetStep, CountOwnersStep,
     UpdateRoleStep, RemoveMemberStep, CheckAbsentStep, AddMemberStep, GroupStep,
     DeleteGroupStep, IssueInviteStep, CheckGroupStep, CheckInviterStep, JoinStep,
     CloseInviteStep, RegisterStep, LoadInviteStep, ReferOnlyStep DEF RequestStep
<1>2. CASE UNCHANGED vars
  <2>1. UNCHANGED <<ops, signed, referred, life, visibility, role, pins, invite, pc, req,
                    loaded, seen, raced, joined, shared>>
    BY <1>2 DEF vars
  <2>2. AccountsOK' /\ GroupOK' /\ HistoryOK' /\ BirthInv'
    BY <2>1 DEF IInv, AccountsOK, GroupOK, HistoryOK, BirthInv
  <2>3. RequestsOK' /\ ShapeInv'
    BY <2>1 DEF IInv, RequestsOK, Req, ShapeInv, Shape
  <2>4. SeenInv'
    BY <2>1, AsksStay DEF IInv, SeenInv
  <2>5. OwnerInv'
    <3>1. Owners' = Owners
      BY <2>1 DEF Owners
    <3> QED
      BY <2>1, <3>1, QuietOwners
  <2>6. LinkInv'
    <3>1. \A q \in Requests, j \in Invites : Has(q, j)' => Has(q, j)
      BY <2>1 DEF Has
    <3> QED
      BY <2>1, <3>1, QuietLinks
  <2> QED
    BY <2>2, <2>3, <2>4, <2>5, <2>6 DEF IInv
<1> QED
  BY <1>1, <1>2, CreateGroupStep, ExpireInviteStep DEF Next

LEMMA Invariant == Spec => []IInv
<1>1. Init => IInv
  BY InvInit
<1>2. IInv /\ [Next]_vars => IInv'
  BY InvStep
<1> QED
  BY <1>1, <1>2, PTL DEF Spec

\* The tables of groups, members, links and accounts keep their types, and the rows
\* that hang on a group go with it.
THEOREM GroupsTypeCorrect == Spec => []TypeOK
<1>1. IInv => TypeOK
  BY DEF IInv, AccountsOK, GroupOK, HistoryOK, RequestsOK, TypeOK, Places, Req, Link
<1> QED
  BY <1>1, Invariant, PTL

\* update_member_role and remove_member: a group has an owner, unless one went while
\* another request had already decided to change a member.
THEOREM AnOwnerRemains == Spec => []KeepsAnOwnerUnlessRaced
<1>1. IInv => KeepsAnOwnerUnlessRaced
  BY DEF IInv, OwnerInv, KeepsAnOwnerUnlessRaced, KeepsAnOwner
<1> QED
  BY <1>1, Invariant, PTL

\* require_group_role, is_group_invite_still_valid and the checks of the endpoints:
\* whatever a request is about to write, it has met each of its conditions itself.
THEOREM WritesWereAllowed == Spec => []EffectsWereAllowed
<1>1. IInv => EffectsWereAllowed
  <2> SUFFICES ASSUME IInv, NEW q \in Requests, AboutToWrite(q), NEW c \in Asks(q)
               PROVE  c \in seen[q]
    BY DEF EffectsWereAllowed
  <2>1. Due(q, c)
    <3>1. CASE pc[q] = "writing"
      BY <3>1 DEF Asks, Due, Conditions
    <3>2. CASE /\ pc[q] = "authorised"
               /\ req[q].op \in {"update", "delete", "issue", "pin", "unpin"}
      <4>1. c \in {"rank", "open"}
        BY <3>2 DEF Asks, InviteOps
      <4> QED
        BY <3>2, <4>1 DEF Due
    <3> QED
      BY <3>1, <3>2 DEF AboutToWrite
  <2> QED
    BY <2>1 DEF IInv, SeenInv
<1> QED
  BY <1>1, Invariant, PTL

\* accept_invite and consume_invite_for_signup: a link that two requests never had at
\* a time, and that none left half accepted, lets in one user.
THEOREM LinksAdmitOne == Spec => []OneEntryUnlessShared
<1>1. IInv => OneEntryUnlessShared
  <2> SUFFICES ASSUME IInv, NEW i \in Invites \ shared PROVE Cardinality(joined[i]) <= 1
    BY DEF OneEntryUnlessShared
  <2>1. IsFiniteSet({}) /\ Cardinality({}) = 0
    BY FS_EmptySet
  <2>2. \A u : Cardinality({u}) = 1
    <3> SUFFICES ASSUME NEW u PROVE Cardinality({u}) = 1
      OBVIOUS
    <3>1. Cardinality({} \cup {u}) = 1
      BY <2>1, FS_AddElement
    <3>2. {} \cup {u} = {u}
      OBVIOUS
    <3> QED
      BY <3>1, <3>2
  <2>3. joined[i] = {} \/ \E u \in Users : joined[i] = {u}
    BY DEF IInv, LinkInv, UsedOnce
  <2> QED
    BY <2>1, <2>2, <2>3
<1> QED
  BY <1>1, Invariant, PTL
=============================================================================
