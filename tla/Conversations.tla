--------------------------- MODULE Conversations ---------------------------
(***************************************************************************)
(* Direct messages of two users: opening a conversation, blocks, sending,  *)
(* reading, deleting and paging through messages (vivacapi/crud/           *)
(* conversation.py, message.py, user_block.py and their endpoints).        *)
(*                                                                         *)
(* Requests are transactions under READ COMMITTED without row locks, cut   *)
(* at every statement that decides.  There are two clocks.  created_at of  *)
(* a message is PostgreSQL's at the start of the sender's transaction      *)
(* (func.now()): messages may have one created_at.  last_read_at is that   *)
(* of the host of the API (datetime.now()), which may be late by anything  *)
(* and ahead of PostgreSQL's by at most Ahead.                             *)
(***************************************************************************)
EXTENDS Integers, FiniteSets

CONSTANTS
  Users,      \* the two users
  Convs,      \* conversations that can be created
  Busy,       \* those whose messages are explored; the others stay empty
  Marking,    \* the users who mark conversations read
  Messages,   \* messages that can be sent, numbered in the order of their uids
  Requests,   \* requests in flight together
  Nobody,     \* no user, no conversation
  PageSize,   \* limit of list_messages
  Ahead,      \* how far a host of the API may be ahead of PostgreSQL
  MaxClock    \* PostgreSQL's time is explored up to this

ASSUME TwoUsers == IsFiniteSet(Users) /\ Cardinality(Users) = 2
ASSUME BusyAssumption == Busy \subseteq Convs /\ Marking \subseteq Users
ASSUME MessagesAssumption == Messages \subseteq Nat \ {0}
ASSUME NamesAssumption == Nobody \notin Users \cup Convs
ASSUME BoundsAssumption ==
  PageSize \in Nat \ {0} /\ MaxClock \in Nat \ {0} /\ Ahead \in Nat

VARIABLES
  kind,      \* kind[c]: "none" before the INSERT, "direct" or "group"
  blocks,    \* <<u, v>>: u has blocked v
  msg,       \* the messages
  readAt,    \* readAt[c][u]: last_read_at, 0 for NULL
  clock,     \* of PostgreSQL
  pc, req,   \* each request: where it stands, who asks, where, and its stamp
  pages,     \* what a client that pages through a conversation has: see TypeOK
  blocked,   \* history: openings and sends during all of which a block was
             \* in place
  raced,     \* history: a conversation was made while another one was decided
  taken      \* history: taken[c][u] is PostgreSQL's time when u last began to mark
             \* c read, 0 if never

stored == <<kind, blocks, msg, readAt>>
vars == <<kind, blocks, msg, readAt, clock, pc, req, pages, blocked, raced, taken>>

Unsent == [state |-> "none", conv |-> Nobody, sender |-> Nobody, at |-> 0]
NoRequest == [by |-> Nobody, conv |-> Nobody, at |-> 0]
NoPages == [at |-> 0, last |-> 0, shown |-> {}, due |-> {}]

Time == 0..MaxClock + Ahead

TypeOK ==
  /\ kind \in [Convs -> {"none", "direct", "group"}]
  /\ blocks \subseteq {p \in Users \X Users : p[1] # p[2]}
  /\ msg \in [Messages -> [state : {"none", "sent", "deleted"}, conv : Convs \cup {Nobody},
                           sender : Users \cup {Nobody}, at : Time]]
  /\ readAt \in [Convs -> [Users -> Time]]
  /\ clock \in 1..MaxClock
  /\ pc \in [Requests -> {"idle", "asked", "checked", "creating", "sending", "writing",
                          "reading", "paging", "paged"}]
  /\ req \in [Requests -> [by : Users \cup {Nobody}, conv : Convs \cup {Nobody}, at : Time]]
  /\ pages \in [at : Time, last : Messages \cup {0},     \* the cursor, <<0, 0>> for none
                shown : SUBSET Messages,                 \* on the pages so far
                due : SUBSET Messages]                   \* there since the first page
  /\ blocked \subseteq Requests
  /\ raced \in BOOLEAN
  /\ taken \in [Convs -> [Users -> 0..MaxClock]]
  /\ \A q \in Requests : pc[q] = "idle" <=> req[q] = NoRequest
  /\ \A m \in Messages : msg[m].state = "sent" => kind[msg[m].conv] # "none"

Init ==
  /\ kind = [c \in Convs |-> "none"]
  /\ blocks = {}
  /\ msg = [m \in Messages |-> Unsent]
  /\ readAt = [c \in Convs |-> [u \in Users |-> 0]]
  /\ clock = 1
  /\ pc = [q \in Requests |-> "idle"]
  /\ req = [q \in Requests |-> NoRequest]
  /\ pages = NoPages
  /\ blocked = {}
  /\ raced = FALSE
  /\ taken = [c \in Convs |-> [u \in Users |-> 0]]

---------------------------------------------------------------------------
(* The steps every request has.                                            *)

Goto(q, place) == pc' = [pc EXCEPT ![q] = place]

\* The request begins and takes its stamp.
Begin(q, u, c, place, stamp) ==
  /\ pc[q] = "idle"
  /\ Goto(q, place)
  /\ req' = [req EXCEPT ![q] = [by |-> u, conv |-> c, at |-> stamp]]
  /\ blocked' = IF blocks # {} /\ place \in {"asked", "sending"} THEN blocked \cup {q}
                ELSE blocked

Finish(q) ==
  /\ Goto(q, "idle")
  /\ req' = [req EXCEPT ![q] = NoRequest]
  /\ blocked' = blocked \ {q}

\* Faulty form: what the request was about outlives it.
EndKeepsRequest(q) ==
  /\ pc[q] # "idle"
  /\ Goto(q, "idle")
  /\ blocked' = blocked \ {q}
  /\ UNCHANGED <<stored, clock, req, pages, raced, taken>>

\* A check or a statement fails, or the process dies: all is rolled back.  Or the
\* client has done with its pages.
End(q) ==
  /\ pc[q] # "idle"
  /\ Finish(q)
  /\ pages' = IF pc[q] \in {"paging", "paged"} THEN NoPages ELSE pages
  /\ UNCHANGED <<stored, clock, raced, taken>>

---------------------------------------------------------------------------
(* Blocks.                                                                 *)

\* block_user, unblock_user: both idempotent.
Block(u, v) ==
  /\ u # v
  /\ blocks' = blocks \cup {<<u, v>>}
  /\ UNCHANGED <<kind, msg, readAt, clock, pc, req, pages, blocked, raced, taken>>

Unblock(u, v) ==
  /\ blocks' = blocks \ {<<u, v>>}
  /\ blocked' = IF blocks' = {} THEN {} ELSE blocked
  /\ UNCHANGED <<kind, msg, readAt, clock, pc, req, pages, raced, taken>>

\* Faulty form: only what u has blocked.
HasBlockBy(u) == \E v \in Users : <<u, v>> \in blocks

\* has_block_between u and the other user, in either direction.
HasBlockBetween(u) == \E v \in Users : <<u, v>> \in blocks \/ <<v, u>> \in blocks

---------------------------------------------------------------------------
(* Opening a conversation.                                                 *)

Direct == {c \in Convs : kind[c] = "direct"}

\* create_conversation of type direct, up to the lookup of the target.
AskToOpen(q, u) ==
  /\ Begin(q, u, Nobody, "asked", 0)
  /\ UNCHANGED <<stored, clock, pages, raced, taken>>

\* get_or_create_direct_conversation: no block in either direction.
CheckOpen(q) ==
  /\ pc[q] = "asked"
  /\ ~HasBlockBetween(req[q].by)
  /\ Goto(q, "checked")
  /\ UNCHANGED <<stored, clock, req, pages, blocked, raced, taken>>

\* Faulty form: the conversation there is goes unnoticed.
LookUpNothing(q) ==
  /\ pc[q] = "checked"
  /\ Goto(q, "creating")
  /\ UNCHANGED <<stored, clock, req, pages, blocked, raced, taken>>

\* The direct conversation of the two: it is returned; with two of them the query
\* raises (scalar_one_or_none); with none, one is to be made.
LookUp(q) ==
  /\ pc[q] = "checked"
  /\ \/ Direct = {} /\ Goto(q, "creating") /\ UNCHANGED <<req, blocked>>
     \/ Direct # {} /\ Finish(q)
  /\ UNCHANGED <<stored, clock, pages, raced, taken>>

\* The conversation and its two participants, in one commit.
CreateDirect(q, c) ==
  /\ pc[q] = "creating"
  /\ kind[c] = "none"
  /\ kind' = [kind EXCEPT ![c] = "direct"]
  /\ raced' = (raced \/ \E p \in Requests \ {q} : pc[p] = "creating")
  /\ Finish(q)
  /\ UNCHANGED <<blocks, msg, readAt, clock, pages, taken>>

\* create_group_conversation: no block is looked at, none is reused.
CreateGroup(c) ==
  /\ kind[c] = "none"
  /\ kind' = [kind EXCEPT ![c] = "group"]
  /\ UNCHANGED <<blocks, msg, readAt, clock, pc, req, pages, blocked, raced, taken>>

---------------------------------------------------------------------------
(* Messages.                                                               *)

\* send_message, up to list_active_participant_uids: the transaction has begun.
BeginSend(q, u, c) ==
  /\ kind[c] # "none"
  /\ \E t \in {clock, clock + 1} \cap 1..MaxClock :
       clock' = t /\ Begin(q, u, c, "sending", t)
  /\ UNCHANGED <<stored, pages, raced, taken>>

\* Only a direct conversation is closed by a block.
CheckSend(q) ==
  /\ pc[q] = "sending"
  /\ kind[req[q].conv] = "direct" => ~HasBlockBetween(req[q].by)
  /\ Goto(q, "writing")
  /\ UNCHANGED <<stored, clock, req, pages, blocked, raced, taken>>

\* create_message.
CommitSend(q, m) ==
  /\ pc[q] = "writing"
  /\ msg[m].state = "none"
  /\ msg' = [msg EXCEPT ![m] = [state |-> "sent", conv |-> req[q].conv,
                                sender |-> req[q].by, at |-> req[q].at]]
  /\ Finish(q)
  /\ UNCHANGED <<kind, blocks, readAt, clock, pages, raced, taken>>

\* delete_message, by its sender: nobody reads the row any more.
DeleteMessage(m) ==
  /\ msg[m].state = "sent"
  /\ msg' = [msg EXCEPT ![m] = [Unsent EXCEPT !.state = "deleted"]]
  /\ pages' = [pages EXCEPT !.due = @ \ {m}]
  /\ UNCHANGED <<kind, blocks, readAt, clock, pc, req, blocked, raced, taken>>

\* mark_conversation_read loads the participant and takes the time of its host.
\* Whatever is sent later has a later time of PostgreSQL, which may be earlier.
TakeReadTime(q, u, c) ==
  /\ kind[c] # "none"
  /\ clock < MaxClock
  /\ clock' = clock + 1
  /\ \E t \in 1..clock + Ahead : Begin(q, u, c, "reading", t)
  /\ taken' = [taken EXCEPT ![c][u] = clock]
  /\ UNCHANGED <<stored, pages, raced>>

\* Faulty form: the time of the commit, PostgreSQL's, and not that of the request.
CommitReadNow(q) ==
  /\ pc[q] = "reading"
  /\ readAt' = [readAt EXCEPT ![req[q].conv][req[q].by] = clock]
  /\ Finish(q)
  /\ UNCHANGED <<kind, blocks, msg, clock, pages, raced, taken>>

\* mark_read: the last one to commit wins.
CommitRead(q) ==
  /\ pc[q] = "reading"
  /\ readAt' = [readAt EXCEPT ![req[q].conv][req[q].by] = req[q].at]
  /\ Finish(q)
  /\ UNCHANGED <<kind, blocks, msg, clock, pages, raced, taken>>

\* get_unread_counts: what it counts for u.
Unread(u, c) ==
  {m \in Messages : /\ msg[m].state = "sent" /\ msg[m].conv = c /\ msg[m].sender # u
                    /\ readAt[c][u] = 0 \/ msg[m].at > readAt[c][u]}

---------------------------------------------------------------------------
(* list_messages: newest first, by (created_at, uid).                      *)

\* <<t, m>> < <<u, n>>, as PostgreSQL compares rows.
KeyLess(t, m, u, n) == t < u \/ (t = u /\ m < n)

\* Faulty form: the cursor is compared by created_at alone.
RowsOlder(c, t, n) ==
  {m \in Messages : /\ msg[m].state = "sent" /\ msg[m].conv = c
                    /\ n = 0 \/ msg[m].at < t}

\* The rows a page is cut from: all, or those before the cursor.
Rows(c, t, n) ==
  {m \in Messages : /\ msg[m].state = "sent" /\ msg[m].conv = c
                    /\ n = 0 \/ KeyLess(msg[m].at, m, t, n)}

\* The newest PageSize of them.
Page(R) ==
  {m \in R : Cardinality({n \in R : KeyLess(msg[m].at, m, msg[n].at, n)}) < PageSize}

\* The client gets a page of c, the first or, with the cursor, the next one.
GetPage(q, c, due) ==
  LET R == Rows(c, pages.at, pages.last)
      P == Page(R)
      last == CHOOSE m \in P : \A n \in P \ {m} : KeyLess(msg[m].at, m, msg[n].at, n)
      more == Cardinality(R) > PageSize
  IN  /\ Goto(q, IF more THEN "paging" ELSE "paged")
      /\ pages' = [at |-> IF more THEN msg[last].at ELSE 0,
                   last |-> IF more THEN last ELSE 0,
                   shown |-> pages.shown \cup P,
                   due |-> due]

\* One client at a time, whose requests follow one another.
FirstPage(q, c) ==
  /\ pc[q] = "idle" /\ kind[c] # "none"
  /\ \A p \in Requests : pc[p] \notin {"paging", "paged"}
  /\ GetPage(q, c, Rows(c, 0, 0))
  /\ req' = [req EXCEPT ![q] = [NoRequest EXCEPT !.conv = c]]
  /\ UNCHANGED <<stored, clock, blocked, raced, taken>>

NextPage(q) ==
  /\ pc[q] = "paging"
  /\ GetPage(q, req[q].conv, pages.due)
  /\ UNCHANGED <<stored, clock, req, blocked, raced, taken>>

---------------------------------------------------------------------------

Request(q) ==
  \/ End(q)
  \/ \E u \in Users : AskToOpen(q, u)
  \/ CheckOpen(q)
  \/ LookUp(q)
  \/ \E c \in Convs : CreateDirect(q, c)
  \/ \E u \in Users, c \in Busy : BeginSend(q, u, c)
  \/ CheckSend(q)
  \/ \E m \in Messages : CommitSend(q, m)
  \/ \E u \in Marking, c \in Busy : TakeReadTime(q, u, c)
  \/ CommitRead(q)
  \/ \E c \in Busy : FirstPage(q, c)
  \/ NextPage(q)

Next ==
  \/ \E q \in Requests : Request(q)
  \/ \E u, v \in Users : Block(u, v) \/ Unblock(u, v)
  \/ \E c \in Busy : CreateGroup(c)
  \/ \E m \in Messages : DeleteMessage(m)

Spec == Init /\ [][Next]_vars

---------------------------------------------------------------------------
(* Properties.                                                             *)

\* get_or_create_direct_conversation reuses the conversation of two users: there
\* is only ever one, unless two requests both found none before either made one.
OneDirectUnlessRaced == ~raced => Cardinality(Direct) <= 1

\* has_block_between: a block that is in place, in whichever direction, from the
\* beginning of a request on lets it neither open a conversation nor send into a
\* direct one, even if the users take turns in blocking each other.
BlockStops ==
  \A q \in blocked :
    /\ pc[q] \notin {"checked", "creating"}
    /\ pc[q] = "writing" => kind[req[q].conv] = "group"

\* get_unread_counts: a message is counted if its recipient has never marked the
\* conversation read, or has not since the message was begun nor less than Ahead
\* before, although created_at is older than the message, the two times are of two
\* clocks and reads may commit in the wrong order.
UnreadUnlessRead ==
  \A m \in Messages, u \in Users :
    /\ msg[m].state = "sent" /\ msg[m].sender # u
    /\ \/ taken[msg[m].conv][u] = 0
       \/ msg[m].at > taken[msg[m].conv][u] + Ahead
    => m \in Unread(u, msg[m].conv)

\* list_messages: whoever pages through a conversation sees no message twice and,
\* at the end, all that were there at the first page and are not deleted, whatever
\* is sent meanwhile and however many messages have one created_at.
PagingIsComplete ==
  \A q \in Requests :
    /\ pc[q] = "paging" => Rows(req[q].conv, pages.at, pages.last) \cap pages.shown = {}
    /\ pc[q] = "paged" => pages.due \subseteq pages.shown
============================================================================
