----------------------------- MODULE SpotGroups -----------------------------
(***************************************************************************)
(* A group of spots: its members and their roles, its visibility, its      *)
(* spots and the invite links into it (vivacapi/crud/spot_group.py,        *)
(* crud/invite.py and the endpoints of groups, staff and invites).         *)
(*                                                                         *)
(* A request is a transaction under READ COMMITTED that is cut at every    *)
(* statement: it loads rows, decides in Python, and writes at the end.     *)
(* Nothing is locked, so what it decides upon may be gone when it writes.  *)
(* One group stands for all: no row of two groups meets.                   *)
(*                                                                         *)
(* update_member_role is two operations here: "promote" (to OWNER) and     *)
(* "demote" (to any other role), because only the second one counts.       *)
(* "signup" is a first google_login that carries an invite link.           *)
(***************************************************************************)
EXTENDS Integers, FiniteSets

CONSTANTS
  Users,        \* people with a Google account
  Staff,        \* stands for every MANAGER: no member, may do all but accept
  Requests,     \* requests that can be in flight together
  Invites,      \* invite links that can be issued
  Spots,        \* spots that can be put into the group
  Roles,        \* the roles given out, of those GroupRole has
  Starts,       \* what a behaviour starts from: the operations requested in
                \* it (ops) and who has an account of the app (users)
  Nobody        \* no user

Rank == [none |-> 0, viewer |-> 1, contributor |-> 2, editor |-> 3, owner |-> 4]

MemberOps == {"promote", "demote", "remove"}
InviteOps == {"accept", "signup"}
AllOps == MemberOps \cup InviteOps
            \cup {"update", "delete", "add", "issue", "pin", "unpin"}

ASSUME UsersAssumption == Staff \notin Users /\ Nobody \notin Users /\ Staff # Nobody
ASSUME RolesAssumption == "owner" \in Roles /\ Roles \subseteq DOMAIN Rank \ {"none"}
ASSUME StartsAssumption == Starts \subseteq [ops : SUBSET AllOps, users : SUBSET Users]

Visibilities == {"private", "invite_only", "public"}

\* require_group_role: what an operation asks of a member.
MinRole(op) ==
  CASE op = "pin" -> "contributor"
    [] op \in {"update", "unpin"} -> "editor"
    [] OTHER -> "owner"

VARIABLES
  ops,          \* the operations requested in this behaviour
  signed,       \* users with an account
  referred,     \* referred[u]: who invited u to the app (referred_by_uid)
  life,         \* the group row: "unborn", "live", "deleted"
  visibility,
  role,         \* role[u]: u's membership, "none" without one
  pins,         \* spots in the group
  invite,       \* invite[i]: the link's status, whether past its TTL, inviter, role
  pc, req,      \* each request: see TypeOK
  loaded,       \* the target's role, or a link's inviter, as the request loaded it
  seen,         \* history: which of its conditions held at some time since it began
  raced,        \* history: an owner went while another change was decided
  joined,       \* history: who joined by each link
  shared        \* history: links held by two requests, or left behind by one

group == <<life, visibility, role, pins>>
accounts == <<ops, signed, referred>>
request == <<pc, req, loaded>>
vars == <<ops, signed, referred, life, visibility, role, pins, invite, pc, req, loaded,
          seen, raced, joined, shared>>

Owners == {u \in Users : role[u] = "owner"}

NoRequest == [op |-> "none", by |-> Nobody, target |-> Nobody, inv |-> Nobody]
NoInvite == [status |-> "none", old |-> FALSE, inviter |-> Nobody, role |-> "none"]

Conditions == {"rank", "open", "pending", "fresh", "inviter", "spare", "absent"}

TypeOK ==
  /\ ops \subseteq AllOps
  /\ signed \subseteq Users
  /\ referred \in [Users -> signed \cup {Nobody}]
  /\ \A u \in Users \ signed : role[u] = "none" /\ referred[u] = Nobody
  /\ life \in {"unborn", "live", "deleted"}
  /\ visibility \in Visibilities
  /\ role \in [Users -> Roles \cup {"none"}]
  /\ pins \subseteq Spots
  /\ invite \in [Invites -> [status : {"none", "pending", "accepted"}, old : BOOLEAN,
                             inviter : Users \cup {Nobody},
                             role : Roles \cup {"none"}]]
  /\ pc \in [Requests -> {"idle", "new", "registered", "begun", "open", "authorised",
                          "counting", "writing", "joined"}]
  /\ req \in [Requests -> [op : ops \cup {"none"},
                           by : Users \cup {Staff, Nobody},
                           target : Users \cup Spots \cup {Nobody},
                           inv : Invites \cup {Nobody}]]
  /\ loaded \in [Requests -> Roles \cup Users \cup {"none"}]
  /\ seen \in [Requests -> SUBSET Conditions]
  /\ raced \in BOOLEAN
  /\ joined \in [Invites -> SUBSET Users]
  /\ shared \subseteq Invites
  /\ life # "live" =>           \* the foreign keys' rows go with the group
       role = [u \in Users |-> "none"] /\ pins = {} /\ invite = [i \in Invites |-> NoInvite]

Init ==
  /\ \E start \in Starts : ops = start.ops /\ signed = start.users
  /\ referred = [u \in Users |-> Nobody]
  /\ life = "unborn"
  /\ visibility = "private"
  /\ role = [u \in Users |-> "none"]
  /\ pins = {}
  /\ invite = [i \in Invites |-> NoInvite]
  /\ pc = [q \in Requests |-> "idle"]
  /\ req = [q \in Requests |-> NoRequest]
  /\ loaded = [q \in Requests |-> "none"]
  /\ seen = [q \in Requests |-> {}]
  /\ raced = FALSE
  /\ joined = [i \in Invites |-> {}]
  /\ shared = {}

---------------------------------------------------------------------------
(* Conditions an operation depends on, as they are in the database.        *)

\* The conditions the handler of q's operation checks.
Asks(q) ==
  {c \in Conditions :
     \/ c = "rank" /\ req[q].op \notin InviteOps /\ req[q].by # Staff
     \/ c = "open" /\ req[q].op \in {"issue"} \cup InviteOps
     \/ c = "open" /\ req[q].op = "add" /\ req[q].by # Staff
     \/ c \in {"pending", "fresh", "inviter"} /\ req[q].op \in InviteOps
     \/ c = "spare" /\ req[q].op \in {"demote", "remove"}
     \/ c = "absent" /\ req[q].op \in {"add"} \cup InviteOps}

Ranked(q) == req[q].by \in Users /\ Rank[role[req[q].by]] >= Rank[MinRole(req[q].op)]

Met(q, c) ==
  CASE c = "rank" -> Ranked(q)
    [] c = "open" -> visibility # "private"
    [] c = "pending" -> invite[req[q].inv].status = "pending"
    [] c = "fresh" -> ~invite[req[q].inv].old
    [] c = "inviter" -> invite[req[q].inv].inviter \in Owners
    [] c = "spare" -> Owners # {req[q].target}
    [] c = "absent" -> role[req[q].target] = "none"

\* What each request has seen to hold by the end of a step.
Observe ==
  seen' = [q \in Requests |->
             IF pc'[q] = "idle" THEN {}
             ELSE seen[q] \cup {c \in Asks(q)' : Met(q, c)'}]

---------------------------------------------------------------------------
(* The steps every operation has.                                          *)

Goto(q, place) == pc' = [pc EXCEPT ![q] = place]

Finish(q) ==
  /\ Goto(q, "idle")
  /\ req' = [req EXCEPT ![q] = NoRequest]
  /\ loaded' = [loaded EXCEPT ![q] = "none"]

\* create_group: the group and its first owner in one commit.
CreateGroup(u) ==
  /\ u \in signed
  /\ life = "unborn"
  /\ life' = "live"
  /\ visibility' \in Visibilities
  /\ role' = [role EXCEPT ![u] = "owner"]
  /\ UNCHANGED <<accounts, pins, invite, request, raced, joined, shared>>
  /\ Observe

\* What a request may ask for.  Staff do everything but accept invites; only
\* who has no account signs up.
Asked ==
  [op : ops \cap {"update", "delete", "issue"}, by : signed, target : {Nobody}, inv : {Nobody}]
    \cup [op : ops \cap {"update", "delete"}, by : {Staff}, target : {Nobody}, inv : {Nobody}]
    \cup [op : ops \cap ({"add"} \cup MemberOps), by : signed \cup {Staff}, target : signed,
          inv : {Nobody}]
    \cup [op : ops \cap {"pin", "unpin"}, by : signed \cup {Staff}, target : Spots,
          inv : {Nobody}]
    \cup {r \in [op : ops \cap InviteOps, by : Users, target : Users, inv : Invites] :
            r.by = r.target /\ (r.op = "signup" <=> r.by \notin signed)}

\* The group is loaded (_get_group_or_404) and an issuer or inviter finds it
\* not private; or the invite is loaded and found pending (accept_invite).
Begin(q, r) ==
  /\ pc[q] = "idle"
  /\ r.op # "signup"
  /\ life = "live"
  /\ r.op = "accept" => invite[r.inv].status = "pending"
  /\ r.op = "issue" \/ (r.op = "add" /\ r.by # Staff) => visibility # "private"
  /\ req' = [req EXCEPT ![q] = r]
  /\ Goto(q, IF r.op # "accept" /\ r.by = Staff THEN "authorised" ELSE "begun")
  /\ UNCHANGED <<accounts, group, invite, loaded, raced, joined, shared>>
  /\ Observe

\* require_group_role: the membership of the caller.
Authorise(q) ==
  /\ pc[q] = "begun" /\ req[q].op \notin InviteOps
  /\ Ranked(q)
  /\ Goto(q, "authorised")
  /\ UNCHANGED <<accounts, group, invite, req, loaded, raced, joined, shared>>
  /\ Observe

\* A check fails, a statement fails, or the process dies: the transaction is
\* rolled back.  An accepted member whose link is still pending stays.
End(q) ==
  /\ pc[q] # "idle"
  /\ Finish(q)
  /\ shared' = IF pc[q] = "joined" THEN shared \cup {req[q].inv} ELSE shared
  /\ UNCHANGED <<accounts, group, invite, raced, joined>>
  /\ Observe

---------------------------------------------------------------------------
(* Members.                                                                *)

\* update_member_role and remove_member load the target.  A caller who targets
\* herself gets the row she was authorised by (the session's identity map).
LoadTarget(q) ==
  /\ pc[q] = "authorised" /\ req[q].op \in MemberOps
  /\ \/ req[q].target = req[q].by /\ loaded' = [loaded EXCEPT ![q] = "owner"]
     \/ /\ req[q].target # req[q].by
        /\ role[req[q].target] # "none"
        /\ loaded' = [loaded EXCEPT ![q] = role[req[q].target]]
  /\ Goto(q, IF loaded'[q] = "owner" /\ req[q].op # "promote"
             THEN "counting" ELSE "writing")
  /\ UNCHANGED <<accounts, group, invite, req, raced, joined, shared>>
  /\ Observe

\* Faulty form: the count is not asked for.
CountAnyOwners(q) ==
  /\ pc[q] = "counting"
  /\ Goto(q, "writing")
  /\ UNCHANGED <<accounts, group, invite, req, loaded, raced, joined, shared>>
  /\ Observe

\* _count_owners: the last owner stays.
CountOwners(q) ==
  /\ pc[q] = "counting"
  /\ Cardinality(Owners) > 1
  /\ Goto(q, "writing")
  /\ UNCHANGED <<accounts, group, invite, req, loaded, raced, joined, shared>>
  /\ Observe

\* Another request has decided to change or remove a member and not done it.
Undecided(q) ==
  \E p \in Requests \ {q} : pc[p] = "writing" /\ req[p].op \in {"demote", "remove"}

\* A member's role is committed; an owner lost while another request is about
\* to change a member is remembered.
SetRole(q, u, r) ==
  /\ role' = [role EXCEPT ![u] = r]
  /\ raced' = (raced \/ (u \in Owners /\ r # "owner" /\ Undecided(q)))

\* member.role = role: no UPDATE where the loaded role is the new one, and an
\* error where the row is gone.
UpdateRole(q, r) ==
  /\ pc[q] = "writing"
  /\ req[q].op = IF r = "owner" THEN "promote" ELSE "demote"
  /\ IF r = loaded[q] THEN UNCHANGED <<accounts, role, raced>>
     ELSE role[req[q].target] # "none" /\ SetRole(q, req[q].target, r)
  /\ Finish(q)
  /\ UNCHANGED <<accounts, life, visibility, pins, invite, joined, shared>>
  /\ Observe

\* session.delete(member); nothing happens where the row is gone.
RemoveMember(q) ==
  /\ pc[q] = "writing" /\ req[q].op = "remove"
  /\ SetRole(q, req[q].target, "none")
  /\ Finish(q)
  /\ UNCHANGED <<accounts, life, visibility, pins, invite, joined, shared>>
  /\ Observe

\* add_member: not a member yet.
CheckAbsent(q) ==
  /\ pc[q] = "authorised" /\ req[q].op \in {"add"} \cup InviteOps
  /\ role[req[q].target] = "none"
  /\ Goto(q, "writing")
  /\ UNCHANGED <<accounts, group, invite, req, loaded, raced, joined, shared>>
  /\ Observe

\* INSERT of the membership; the primary key and the foreign key may refuse it.
AddMember(q, r) ==
  /\ pc[q] = "writing" /\ req[q].op = "add"
  /\ life = "live" /\ role[req[q].target] = "none"
  /\ role' = [role EXCEPT ![req[q].target] = r]
  /\ Finish(q)
  /\ UNCHANGED <<accounts, life, visibility, pins, invite, raced, joined, shared>>
  /\ Observe

---------------------------------------------------------------------------
(* The group itself and its spots.                                         *)

\* Operations that check nothing more once they are authorised.
Ready(q, op) == pc[q] = "authorised" /\ req[q].op = op

\* update_group: any visibility (other fields are left out).
UpdateGroup(q) ==
  /\ Ready(q, "update") /\ life = "live"
  /\ visibility' \in Visibilities
  /\ Finish(q)
  /\ UNCHANGED <<accounts, life, role, pins, invite, raced, joined, shared>>
  /\ Observe

\* Faulty form: no ON DELETE CASCADE.
DeleteGroupRow(q) ==
  /\ Ready(q, "delete")
  /\ life' = "deleted"
  /\ Finish(q)
  /\ UNCHANGED <<accounts, visibility, role, pins, invite, raced, joined, shared>>
  /\ Observe

\* delete_group: members, spots and invites go with it (ON DELETE CASCADE).
DeleteGroup(q) ==
  /\ Ready(q, "delete")
  /\ life' = "deleted"
  /\ role' = [u \in Users |-> "none"]
  /\ pins' = {}
  /\ invite' = [i \in Invites |-> NoInvite]
  /\ Finish(q)
  /\ UNCHANGED <<accounts, visibility, raced, joined, shared>>
  /\ Observe

\* add_spot, of a spot that is there to be added.
Pin(q) ==
  /\ Ready(q, "pin") /\ life = "live"
  /\ req[q].target \notin pins
  /\ pins' = pins \cup {req[q].target}
  /\ Finish(q)
  /\ UNCHANGED <<accounts, life, visibility, role, invite, raced, joined, shared>>
  /\ Observe

Unpin(q) ==
  /\ Ready(q, "unpin")
  /\ req[q].target \in pins
  /\ pins' = pins \ {req[q].target}
  /\ Finish(q)
  /\ UNCHANGED <<accounts, life, visibility, role, invite, raced, joined, shared>>
  /\ Observe

---------------------------------------------------------------------------
(* Invite links.                                                           *)

\* create_invite, by an owner of a group that is not private.
IssueInvite(q, i, r) ==
  /\ Ready(q, "issue") /\ life = "live"
  /\ invite[i].status = "none"
  /\ invite' = [invite EXCEPT ![i] =
                  [NoInvite EXCEPT !.status = "pending", !.inviter = req[q].by, !.role = r]]
  /\ Finish(q)
  /\ UNCHANGED <<accounts, group, raced, joined, shared>>
  /\ Observe

\* A link reaches GROUP_INVITE_TTL.
ExpireInvite(i) ==
  /\ invite[i].status = "pending" /\ ~invite[i].old
  /\ invite' = [invite EXCEPT ![i].old = TRUE]
  /\ UNCHANGED <<accounts, group, request, raced, joined, shared>>
  /\ Observe

\* A request has sent u's new referred_by_uid with its first SELECT and not
\* committed: the row of u is locked.
Flushed(u) ==
  \E p \in Requests : /\ pc[p] \in {"open", "authorised", "writing"}
                      /\ req[p].op = "signup" /\ req[p].by = u

\* is_group_invite_still_valid, the link's age and the group ...
CheckGroup(q) ==
  /\ pc[q] = "begun" /\ req[q].op \in InviteOps
  /\ ~Flushed(req[q].by) \/ req[q].op = "accept"
  /\ ~invite[req[q].inv].old
  /\ life = "live" /\ visibility # "private"
  /\ Goto(q, "open")
  /\ UNCHANGED <<accounts, group, invite, req, loaded, raced, joined, shared>>
  /\ Observe

\* Faulty form: whoever issued the link, it is good.
CheckNoInviter(q) ==
  /\ pc[q] = "open"
  /\ Goto(q, "authorised")
  /\ UNCHANGED <<accounts, group, invite, req, loaded, raced, joined, shared>>
  /\ Observe

\* ... and that the inviter is an owner now.
CheckInviter(q) ==
  /\ pc[q] = "open"
  /\ invite[req[q].inv].inviter \in Owners
  /\ Goto(q, "authorised")
  /\ UNCHANGED <<accounts, group, invite, req, loaded, raced, joined, shared>>
  /\ Observe

\* Requests other than q that have loaded the link as pending.
Holders(q) ==
  {p \in Requests \ {q} : pc[p] \notin {"idle", "new", "registered"} /\ req[p].inv = req[q].inv}

\* The inviter of q's link becomes the referrer of a new user.
Refer(q) ==
  referred' = IF req[q].op = "signup"
              THEN [referred EXCEPT ![req[q].by] = loaded[q]] ELSE referred

\* add_member commits the membership, and at a signup the referral set before;
\* the link is still pending.
Join(q) ==
  LET i == req[q].inv
      u == req[q].by
  IN  /\ pc[q] = "writing" /\ req[q].op \in InviteOps
      /\ life = "live" /\ role[u] = "none"
      /\ role' = [role EXCEPT ![u] = invite[i].role]
      /\ joined' = [joined EXCEPT ![i] = @ \cup {u}]
      /\ shared' = IF Holders(q) # {} THEN shared \cup {i} ELSE shared
      /\ Refer(q)
      /\ Goto(q, "joined")
      /\ UNCHANGED <<ops, signed, life, visibility, pins, invite, req, loaded, raced>>
      /\ Observe

\* Faulty form: the status is not changed.
CloseNothing(q) ==
  /\ pc[q] = "joined" /\ life = "live"
  /\ Finish(q)
  /\ UNCHANGED <<accounts, group, invite, raced, joined, shared>>
  /\ Observe

\* The second commit of accept_invite; the row may have gone with the group.
CloseInvite(q) ==
  /\ pc[q] = "joined" /\ life = "live"
  /\ invite' = [invite EXCEPT ![req[q].inv].status = "accepted"]
  /\ shared' = IF Holders(q) # {} THEN shared \cup {req[q].inv} ELSE shared
  /\ Finish(q)
  /\ UNCHANGED <<accounts, group, raced, joined>>
  /\ Observe

---------------------------------------------------------------------------
(* A first login with a link (google_login, consume_invite_for_signup).    *)

\* google_login finds no user of this Google account.
BeginSignUp(q, r) ==
  /\ pc[q] = "idle"
  /\ r.op = "signup"
  /\ req' = [req EXCEPT ![q] = r]
  /\ Goto(q, "new")
  /\ UNCHANGED <<accounts, group, invite, loaded, raced, joined, shared>>
  /\ Observe

\* create_user commits the account, or another login has: IntegrityError, and
\* the user is read again.  Both logins go on as of a new user.
Register(q) ==
  /\ pc[q] = "new"
  /\ signed' = signed \cup {req[q].by}
  /\ Goto(q, "registered")
  /\ UNCHANGED <<ops, referred, group, invite, req, loaded, raced, joined, shared>>
  /\ Observe

\* The link is looked up and pending; otherwise it is ignored (End).
LoadInvite(q) ==
  /\ pc[q] = "registered"
  /\ invite[req[q].inv].status = "pending"
  /\ loaded' = [loaded EXCEPT ![q] = invite[req[q].inv].inviter]
  /\ Goto(q, "begun")
  /\ UNCHANGED <<accounts, group, invite, req, raced, joined, shared>>
  /\ Observe

\* The group part is no longer valid: only the referral is committed.
ReferOnly(q) ==
  /\ req[q].op = "signup"
  /\ \/ /\ pc[q] = "begun" /\ ~Flushed(req[q].by)
        /\ invite[req[q].inv].old \/ visibility = "private" \/ life # "live"
     \/ pc[q] = "open" /\ invite[req[q].inv].inviter \notin Owners
  /\ Refer(q)
  /\ Finish(q)
  /\ UNCHANGED <<ops, signed, group, invite, raced, joined, shared>>
  /\ Observe

---------------------------------------------------------------------------

RequestStep(q) ==
  \/ \E r \in Asked : Begin(q, r)
  \/ Authorise(q)
  \/ End(q)
  \/ LoadTarget(q)
  \/ CountOwners(q)
  \/ \E r \in Roles : UpdateRole(q, r)
  \/ RemoveMember(q)
  \/ CheckAbsent(q)
  \/ \E r \in Roles : AddMember(q, r)
  \/ UpdateGroup(q)
  \/ DeleteGroup(q)
  \/ Pin(q)
  \/ Unpin(q)
  \/ \E i \in Invites, r \in Roles : IssueInvite(q, i, r)
  \/ CheckGroup(q)
  \/ CheckInviter(q)
  \/ Join(q)
  \/ CloseInvite(q)
  \/ \E r \in Asked : BeginSignUp(q, r)
  \/ Register(q)
  \/ LoadInvite(q)
  \/ ReferOnly(q)

Next ==
  \/ \E u \in Users : CreateGroup(u)
  \/ \E q \in Requests : RequestStep(q)
  \/ \E i \in Invites : ExpireInvite(i)

Spec == Init /\ [][Next]_vars

---------------------------------------------------------------------------
(* Properties.                                                             *)

\* The documented safeguard (update_member_role, remove_member): a group keeps
\* at least one owner.
KeepsAnOwner == life = "live" => Owners # {}

\* The safeguard holds unless an owner goes between another request's decision
\* and its commit: counting and writing are the only window.
KeepsAnOwnerUnlessRaced == ~raced => KeepsAnOwner

AboutToWrite(q) ==
  \/ pc[q] = "writing"
  \/ pc[q] = "authorised" /\ req[q].op \in {"update", "delete", "issue", "pin", "unpin"}

\* Whatever a request is about to write, each condition its handler checks has
\* held at some moment of this request: nothing is decided by the time the link
\* was issued or by an earlier request (is_group_invite_still_valid,
\* require_group_role).
EffectsWereAllowed ==
  \A q \in Requests : AboutToWrite(q) => Asks(q) \subseteq seen[q]

\* Without two acceptances of one link at a time, and without one left between
\* its two commits, a link lets in one user.
OneEntryUnlessShared ==
  \A i \in Invites \ shared : Cardinality(joined[i]) <= 1

\* models/invite.py: a link is for one use, once accepted it cannot be reused.
InviteIsOneTime == \A i \in Invites : Cardinality(joined[i]) <= 1
============================================================================
