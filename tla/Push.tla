-------------------------------- MODULE Push --------------------------------
(***************************************************************************)
(* Sending a message and pushing it to open WebSockets (send_message,      *)
(* ws_conversations, core/ws_manager.py), behind the rate limit of         *)
(* sending.                                                                *)
(*                                                                         *)
(* Every server process has a registry of its own.  Its coroutines take    *)
(* turns at each await: the sends of one push, the ends of sockets and     *)
(* other pushes interleave.  Nothing is awaited between accept and the     *)
(* entry into the registry but the start of the handshake.                 *)
(*                                                                         *)
(* One conversation.  Who may send at all (blocks, membership) is in       *)
(* Conversations; here a request may fail.                                 *)
(***************************************************************************)
EXTENDS RateLimit

CONSTANTS
  Users,        \* the participants; Actors are those of them who send
  Processes,    \* server processes (uvicorn workers)
  Sockets,      \* WebSockets clients can open, each one once
  owner,        \* owner[s]: whose socket it is
  Messages,     \* messages that can be sent, each by one request at a time
  Nobody        \* no user, no process

ASSUME UsersAssumption == Actors \subseteq Users
ASSUME OwnerAssumption == owner \in [Sockets -> Users]
ASSUME NamesAssumption == Nobody \notin Users \cup Processes

VARIABLES
  pc, by, at,   \* the request that sends m: its place, sender and process
  todo,         \* participants whose sockets it has still to serve
  copy,         \* sockets left in the list it is going through
  sock, home,   \* each socket's state and process
  registry,     \* registry[p]: the sockets ConnectionManager has
  shown         \* what each client has: of its list of messages and of pushes

sends == <<pc, by, at, todo, copy>>
sockets == <<sock, home, registry, shown>>
vars == <<limits, sends, sockets>>

Stored == {m \in Messages : pc[m] \in {"stored", "done", "lost"}}
Running(s) == sock[s] \in {"open", "listed", "gone"}     \* the handler receives
Heard(s) == sock[s] \in {"open", "listed"}               \* and the client is there

TypeOK ==
  /\ LimitTypeOK
  /\ pc \in [Messages -> {"idle", "begun", "checked", "stored", "done", "lost"}]
  /\ by \in [Messages -> Actors \cup {Nobody}]
  /\ at \in [Messages -> Processes \cup {Nobody}]
  /\ todo \in [Messages -> SUBSET Users]
  /\ copy \in [Messages -> SUBSET Sockets]
  /\ sock \in [Sockets -> {"none", "open", "listed", "gone", "closed"}]
  /\ home \in [Sockets -> Processes \cup {Nobody}]
  /\ registry \in [Processes -> SUBSET Sockets]
  /\ shown \in [Sockets -> SUBSET Messages]
  /\ \A p \in Processes, s \in Sockets :      \* no entry outlives its handler
       /\ s \in registry[p] => Running(s) /\ home[s] = p
       /\ Heard(s) /\ home[s] = p => s \in registry[p]

Init ==
  /\ LimitInit
  /\ pc = [m \in Messages |-> "idle"]
  /\ by = [m \in Messages |-> Nobody]
  /\ at = [m \in Messages |-> Nobody]
  /\ todo = [m \in Messages |-> {}]
  /\ copy = [m \in Messages |-> {}]
  /\ sock = [s \in Sockets |-> "none"]
  /\ home = [s \in Sockets |-> Nobody]
  /\ registry = [p \in Processes |-> {}]
  /\ shown = [s \in Sockets |-> {}]

---------------------------------------------------------------------------
(* Sockets.                                                                *)

\* ws_conversations: the token is good and the user active, the socket is accepted
\* and entered.  A refused one is closed without a trace.
Connect(s, p) ==
  /\ sock[s] = "none"
  /\ sock' = [sock EXCEPT ![s] = "open"]
  /\ home' = [home EXCEPT ![s] = p]
  /\ registry' = [registry EXCEPT ![p] = @ \cup {s}]
  /\ UNCHANGED <<limits, sends, shown>>

\* The client, once connected, lists the messages (by any process).
ListMessages(s) ==
  /\ sock[s] = "open"
  /\ sock' = [sock EXCEPT ![s] = "listed"]
  /\ shown' = [shown EXCEPT ![s] = @ \cup Stored]
  /\ UNCHANGED <<limits, sends, home, registry>>

\* The client closes or loses the connection.
Vanish(s) ==
  /\ Heard(s)
  /\ sock' = [sock EXCEPT ![s] = "gone"]
  /\ UNCHANGED <<limits, sends, home, registry, shown>>

\* Faulty form: the user's entry goes with her first socket that does.
DisconnectUser(s) ==
  registry' = [registry EXCEPT ![home[s]] = {r \in @ : owner[r] # owner[s]}]

\* ConnectionManager.disconnect: may be called twice for a socket.
Disconnect(s) == registry' = [registry EXCEPT ![home[s]] = @ \ {s}]

\* The handler's receive_text raises, and it disconnects.
Close(s) ==
  /\ sock[s] = "gone"
  /\ sock' = [sock EXCEPT ![s] = "closed"]
  /\ Disconnect(s)
  /\ UNCHANGED <<limits, sends, home, shown>>

---------------------------------------------------------------------------
(* send_message.                                                           *)

\* A request passes the rate limit (or Redis fails) before anything is looked at.
BeginSend(m, u, p) ==
  /\ pc[m] = "idle"
  /\ Admit(u) \/ FailOpen(u)
  /\ pc' = [pc EXCEPT ![m] = "begun"]
  /\ by' = [by EXCEPT ![m] = u]
  /\ at' = [at EXCEPT ![m] = p]
  /\ UNCHANGED <<todo, copy, sockets>>

\* A request is refused by the rate limit.
RefuseSend(u) ==
  /\ Refuse(u)
  /\ UNCHANGED <<sends, sockets>>

\* The participants are loaded, and no block is in the way.
CheckSend(m) ==
  /\ pc[m] = "begun"
  /\ pc' = [pc EXCEPT ![m] = "checked"]
  /\ todo' = [todo EXCEPT ![m] = Users \ {by[m]}]
  /\ UNCHANGED <<limits, by, at, copy, sockets>>

\* create_message commits.
Store(m) ==
  /\ pc[m] = "checked"
  /\ pc' = [pc EXCEPT ![m] = "stored"]
  /\ UNCHANGED <<limits, by, at, todo, copy, sockets>>

\* A check or the commit fails: nothing was sent, the client may try again.
FailSend(m) ==
  /\ pc[m] \in {"begun", "checked"}
  /\ pc' = [pc EXCEPT ![m] = "idle"]
  /\ by' = [by EXCEPT ![m] = Nobody]
  /\ at' = [at EXCEPT ![m] = Nobody]
  /\ todo' = [todo EXCEPT ![m] = {}]
  /\ UNCHANGED <<limits, copy, sockets>>

\* Faulty form: pushed before it is committed.
TakeCopyEarly(m, u) ==
  /\ pc[m] \in {"checked", "stored"} /\ u \in todo[m] /\ copy[m] = {}
  /\ todo' = [todo EXCEPT ![m] = @ \ {u}]
  /\ copy' = [copy EXCEPT ![m] = {s \in registry[at[m]] : owner[s] = u}]
  /\ UNCHANGED <<limits, pc, by, at, sockets>>

\* send_to_user turns to the next participant: a copy of her sockets in this process.
TakeCopy(m, u) ==
  /\ pc[m] = "stored" /\ u \in todo[m] /\ copy[m] = {}
  /\ todo' = [todo EXCEPT ![m] = @ \ {u}]
  /\ copy' = [copy EXCEPT ![m] = {s \in registry[at[m]] : owner[s] = u}]
  /\ UNCHANGED <<limits, pc, by, at, sockets>>

\* send_json to one of them.  To a client that has gone it raises, and the socket
\* is disconnected, or the frame is lost; after the end of its handler it raises.
PushTo(m, s) ==
  /\ s \in copy[m]
  /\ copy' = [copy EXCEPT ![m] = @ \ {s}]
  /\ \/ /\ Heard(s)
        /\ shown' = [shown EXCEPT ![s] = @ \cup {m}]
        /\ UNCHANGED registry
     \/ /\ ~Heard(s)
        /\ Disconnect(s) \/ (sock[s] = "gone" /\ UNCHANGED registry)
        /\ UNCHANGED shown
  /\ UNCHANGED <<limits, pc, by, at, todo, sock, home>>

EndSend(m) ==
  /\ pc[m] = "stored" /\ todo[m] = {} /\ copy[m] = {}
  /\ pc' = [pc EXCEPT ![m] = "done"]
  /\ UNCHANGED <<limits, by, at, todo, copy, sockets>>

\* A process dies with its sockets; a stored message stays, its push does not.
Kill(p) ==
  /\ sock' = [s \in Sockets |-> IF home[s] = p THEN "closed" ELSE sock[s]]
  /\ registry' = [registry EXCEPT ![p] = {}]
  /\ pc' = [m \in Messages |-> IF at[m] # p \/ pc[m] = "done" THEN pc[m]
                               ELSE IF pc[m] \in {"stored", "lost"} THEN "lost" ELSE "idle"]
  /\ by' = [m \in Messages |-> IF pc'[m] = "idle" THEN Nobody ELSE by[m]]
  /\ at' = [m \in Messages |-> IF pc'[m] = "idle" THEN Nobody ELSE at[m]]
  /\ todo' = [m \in Messages |-> IF at[m] = p THEN {} ELSE todo[m]]
  /\ copy' = [m \in Messages |-> IF at[m] = p THEN {} ELSE copy[m]]
  /\ UNCHANGED <<limits, home, shown>>

---------------------------------------------------------------------------

Time == (Tick \/ \E k \in Actors : EvictKey(k)) /\ UNCHANGED <<sends, sockets>>

SocketStep(s) ==
  \/ \E p \in Processes : Connect(s, p)
  \/ ListMessages(s)
  \/ Vanish(s)
  \/ Close(s)

SendStep(m) ==
  \/ \E u \in Actors, p \in Processes : BeginSend(m, u, p)
  \/ CheckSend(m)
  \/ Store(m)
  \/ FailSend(m)
  \/ \E u \in Users : TakeCopy(m, u)
  \/ \E s \in Sockets : PushTo(m, s)
  \/ EndSend(m)

Next ==
  \/ Time
  \/ \E s \in Sockets : SocketStep(s)
  \/ \E m \in Messages : SendStep(m)
  \/ \E u \in Actors : RefuseSend(u)
  \/ \E p \in Processes : Kill(p)

Spec == Init /\ [][Next]_vars

---------------------------------------------------------------------------
(* Properties.                                                             *)

\* send_message pushes to those who are online: a client that has listed the
\* messages since it connected misses none of the others' whose push has ended in
\* its process, whatever sockets come and go and fail meanwhile.  (Messages sent by
\* another process are missed: ConnectionManager counts on a single one.)
PushLeavesNoGap ==
  \A s \in Sockets, m \in Messages :
    sock[s] = "listed" /\ pc[m] = "done" /\ at[m] = home[s] /\ by[m] # owner[s]
      => m \in shown[s]
============================================================================
