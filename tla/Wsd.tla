--------------------------------- MODULE Wsd ---------------------------------
(***************************************************************************)
(* The WebSocket daemon api/websockets/wsd: its three threads, their one   *)
(* semaphore, the list of clients, the users list and the write buffers.   *)
(*                                                                         *)
(*   reactor  server.c  accepts, reads, writes and closes the sockets      *)
(*   core     core.c    asks the passport who owns a session               *)
(*   redis    redis_thread.c  broadcasts what the redis channel delivers   *)
(*                                                                         *)
(* A client is named by its socket number, which the kernel reuses after   *)
(* close.  What a peer does (PeerConnect, PeerClose, PeerReset, and the    *)
(* choice of what a visit reads) interleaves with everything; the threads  *)
(* interleave at sem_wait and sem_post.  Data that arrives between select  *)
(* and the visit of its socket cannot be told from data that arrived       *)
(* before select, as no other thread runs in between: what a visit reads   *)
(* is chosen when it is read.  The order of the list cannot be observed    *)
(* either, so the list is the set of its occupied slots.                   *)
(***************************************************************************)
EXTENDS Naturals, Integers, Sequences, FiniteSets, UsersList

CONSTANTS
    Fds,          \* socket numbers the process may hold (ulimit -n)
    FdLimit,      \* server.c:968, 1024: a larger accepted socket restarts the server
    Uids,         \* user ids, positive
    Sessions,     \* session tokens a peer may present
    Owner,        \* the user the passport knows each session by
    NoSession,    \* client_info->user == NULL
    OutMax,       \* MAX_OUTBUFF_SIZE, in messages
    MaxCheck,     \* MAX_SESSIONS_CHECK
    MaxBacklog,   \* bound: connections waiting in the listen queue
    MaxConnects,  \* bound: connections made in a behaviour
    MaxChan,      \* bound: messages in flight through redis
    Relogin,      \* may a peer present a second session on one connection
    Resets,       \* may a connection be reset instead of closed
    PassportFails \* may a request to the passport fail

Nobody == -1      \* user_info.uid before the passport has answered
NoFd == 0
Everyone == 0     \* to.uid of a message for all
Unknown == {0}    \* what a client believes that cannot know who is online

ASSUME WsdAssumption ==
    /\ Fds \subseteq Nat \ {0}
    /\ Uids \subseteq Nat \ {0}
    /\ FdLimit \in Nat
    /\ Owner \in [Sessions -> Uids]
    /\ NoSession \notin Sessions
    /\ {OutMax, MaxCheck, MaxBacklog, MaxConnects, MaxChan} \subseteq Nat
    /\ {Relogin, Resets, PassportFails} \subseteq BOOLEAN

VARIABLES
    status,     \* the process and its listening socket
    sem,        \* who is between sem_wait and sem_post
    todo,       \* slots the running reactor pass has yet to visit
    cur,        \* the slot being visited, or NoFd
    batch,      \* s_core_process_sessions
    clients,    \* occupied slots of the clients list
    ci,         \* the client_info of each, see Client
    out,        \* messages in buffer_write; OutMax + 1 stands for any more
    users,      \* users_json, see UsersList
    view,       \* history: the users a client will believe to be online once
                \* it has read its buffer
    chan,       \* messages published to redis and not yet delivered, by to.uid
    backlog, connects,   \* listen queue, and connections made so far
    lost_fds,   \* sockets bb_make_request never closed
    answer      \* what the buffer of bb_check_session was last filled with

proc == <<status, sem, todo, cur, batch>>
conn == <<clients, ci>>
net  == <<backlog, connects, lost_fds>>
vars == <<proc, conn, out, users, view, chan, net, answer>>

\* client_info with its user_info (session is NoSession while user is NULL);
\* late: crdate + WS_TIMEOUT has passed; peer: the far end of the connection.
Client == [close_it : BOOLEAN, ws_opened : BOOLEAN, late : BOOLEAN,
           session : Sessions \cup {NoSession}, uid : Uids \cup {Nobody},
           peer : {"up", "eof", "reset"}]

\* As accepted; also what a socket without a client is given here.
Fresh == [close_it |-> FALSE, ws_opened |-> FALSE, late |-> FALSE,
          session |-> NoSession, uid |-> Nobody, peer |-> "up"]

TypeOK ==
    /\ status \in {"up", "down", "crashed", "exited"}
    /\ sem \in {"free", "reactor", "core"}
    /\ todo \subseteq Fds /\ cur \in Fds \cup {NoFd} /\ batch \subseteq Fds
    /\ clients \subseteq Fds /\ lost_fds \subseteq Fds
    /\ ci \in [Fds -> Client]
    /\ out \in [Fds -> 0 .. OutMax + 1]
    /\ users \subseteq Uids \X Fds
    /\ view \in [Fds -> (SUBSET Uids) \cup {Unknown}]
    /\ chan \in Seq(Uids \cup {Everyone})
    /\ backlog \in Nat /\ connects \in Nat
    /\ answer \in Uids \cup {0}

Init ==
    /\ status = "up" /\ sem = "free"
    /\ todo = {} /\ cur = NoFd /\ batch = {}
    /\ clients = {} /\ lost_fds = {}
    /\ ci = [f \in Fds |-> Fresh] /\ out = [f \in Fds |-> 0]
    /\ users = {} /\ view = [f \in Fds |-> Unknown]
    /\ chan = <<>> /\ backlog = 0 /\ connects = 0 /\ answer = 0

Running == status \in {"up", "down"}
FreeFds == Fds \ (clients \cup lost_fds)

-----------------------------------------------------------------------------
(* Write buffers and announcements                                         *)

\* Variant: the buffer limit forgotten.
QueuedAlways(n) == n + 1

\* process_client_ws_sendn_frame: a frame is queued only while the buffer is
\* not over its limit.  The few pushes that do not look at the limit (the
\* header, WS_WRONG_MESSAGE) end in the same abstract value, OutMax + 1.
Queued(n) == IF n <= OutMax THEN n + 1 ELSE n

\* Every socket of S is sent one frame.
SentTo(S, q) == [f \in Fds |-> IF f \in S THEN Queued(q[f]) ELSE q[f]]

\* ws_all_clients_send_message: open clients of authenticated users.
Listeners(c) == {f \in clients : ~c[f].close_it /\ c[f].uid # Nobody}

\* What the sockets of S believe once the announcement about u is queued; one
\* whose buffer was over the limit has lost it.
Informed(S, event, u) ==
    [f \in Fds |->
        IF f \notin S \/ view[f] = Unknown THEN view[f]
        ELSE IF out[f] > OutMax THEN Unknown
        ELSE Believed(view[f], event, u)]

\* myredis_publish: the message may be lost on the way.
Publish(to) == \/ chan' = chan
               \/ Len(chan) < MaxChan /\ chan' = Append(chan, to)

-----------------------------------------------------------------------------
(* Peers, the kernel and the clock                                         *)

PeerConnect ==
    /\ status = "up" /\ backlog < MaxBacklog /\ connects < MaxConnects
    /\ backlog' = backlog + 1 /\ connects' = connects + 1
    /\ UNCHANGED <<proc, conn, out, users, view, chan, lost_fds, answer>>

PeerGoes(f, how) ==
    /\ Running /\ f \in clients /\ ci[f].peer = "up"
    /\ ci' = [ci EXCEPT ![f].peer = how]
    /\ UNCHANGED <<proc, clients, out, users, view, chan, net, answer>>

PeerClose(f) == PeerGoes(f, "eof")
PeerReset(f) == Resets /\ PeerGoes(f, "reset")

\* crdate + WS_TIMEOUT passes; looked at only before the handshake.
TimePasses(f) ==
    /\ Running /\ f \in clients /\ ~ci[f].ws_opened /\ ~ci[f].late
    /\ ci' = [ci EXCEPT ![f].late = TRUE]
    /\ UNCHANGED <<proc, clients, out, users, view, chan, net, answer>>

\* Another daemon or a backend publishes on a channel wsd subscribes to.
OthersPublish(to) ==
    /\ Running /\ Len(chan) < MaxChan
    /\ chan' = Append(chan, to)
    /\ UNCHANGED <<proc, conn, out, users, view, net, answer>>

-----------------------------------------------------------------------------
(* Reactor: process_clients, from select to the visits                     *)

Accept(f) ==
    /\ status = "up" /\ sem = "free" /\ backlog > 0
    /\ f \in FreeFds /\ f <= FdLimit
    /\ backlog' = backlog - 1
    /\ clients' = clients \cup {f}
    /\ ci' = [ci EXCEPT ![f] = Fresh]
    /\ out' = [out EXCEPT ![f] = 0]
    /\ view' = [view EXCEPT ![f] = Unknown]
    /\ UNCHANGED <<proc, users, chan, connects, lost_fds, answer>>

\* Variant: the slots are freed without a word to the users list.
CloseClientsUnlisted ==
    /\ clients' = {} /\ ci' = [f \in Fds |-> Fresh]
    /\ out' = [f \in Fds |-> 0] /\ view' = [f \in Fds |-> Unknown]
    /\ status' = "down" /\ backlog' = 0
    /\ UNCHANGED <<sem, todo, cur, batch, users, chan, connects, lost_fds, answer>>

\* close_clients, after which start_server closes the listening socket (the
\* queue is gone) and sleeps.
CloseClients ==
    /\ clients' = {} /\ ci' = [f \in Fds |-> Fresh]
    /\ out' = [f \in Fds |-> 0] /\ view' = [f \in Fds |-> Unknown]
    /\ users' = users \ {<<ci[f].uid, f>> : f \in clients}
    /\ status' = "down" /\ backlog' = 0
    /\ UNCHANGED <<sem, todo, cur, batch, chan, connects, lost_fds, answer>>

\* A socket above FdLimit is refused together with everybody else.
AcceptHigh(f) ==
    /\ status = "up" /\ sem = "free" /\ backlog > 0
    /\ f \in FreeFds /\ f > FdLimit
    /\ CloseClients

SelectFails == status = "up" /\ sem = "free" /\ CloseClients

\* start_server creates a new listening socket, or exits.
Restart ==
    /\ status = "down"
    /\ status' \in {"up", "exited"}
    /\ UNCHANGED <<sem, todo, cur, batch, conn, out, users, view, chan, net, answer>>

\* No new connection: the clients are visited.  Those marked close_it are
\* left out of the sets of select and skipped by the loop.
StartPass ==
    /\ status = "up" /\ sem = "free" /\ backlog = 0
    /\ sem' = "reactor"
    /\ todo' = {f \in clients : ~ci[f].close_it}
    /\ UNCHANGED <<status, cur, batch, conn, out, users, view, chan, net, answer>>

EndPass ==
    /\ status = "up" /\ sem = "reactor" /\ cur = NoFd /\ todo = {}
    /\ sem' = "free"
    /\ UNCHANGED <<status, todo, cur, batch, conn, out, users, view, chan, net, answer>>

\* Variant: no timeout before the handshake.
VisitBeginsPatiently(f) ==
    /\ status = "up" /\ sem = "reactor" /\ cur = NoFd /\ f \in todo
    /\ cur' = f
    /\ \/ out' = out
       \/ ci[f].ws_opened /\ out' = SentTo({f}, out)
    /\ UNCHANGED <<status, sem, todo, batch, conn, users, view, chan, net, answer>>

\* The timeout of the handshake, and the periodic PING.
VisitBegins(f) ==
    /\ status = "up" /\ sem = "reactor" /\ cur = NoFd /\ f \in todo
    /\ cur' = f
    /\ ci' = [ci EXCEPT ![f].close_it = @ \/ (~ci[f].ws_opened /\ ci[f].late)]
    /\ \/ out' = out
       \/ ci[f].ws_opened /\ out' = SentTo({f}, out)
    /\ UNCHANGED <<status, sem, todo, batch, clients, users, view, chan, net, answer>>

-----------------------------------------------------------------------------
(* Reactor: process_client_read of the slot being visited                  *)

Reading(f) == status = "up" /\ cur = f /\ f \in clients /\ ci[f].peer = "up"

\* The header is read once.  What a client past its timeout sends is left out:
\* it is closed at the end of this very visit, whatever it was.
ReadingHeader(f) == Reading(f) /\ ~ci[f].ws_opened /\ ~ci[f].close_it

\* process_client_header, GET /messages/ with a key.
RecvUpgrade(f) ==
    /\ ReadingHeader(f)
    /\ ci' = [ci EXCEPT ![f].ws_opened = TRUE]
    /\ out' = SentTo({f}, SentTo({f}, out))
    /\ UNCHANGED <<proc, clients, users, view, chan, net, answer>>

\* Any other header: an answer (none if there is no GET in it), then close.
RecvOtherHeader(f) ==
    /\ ReadingHeader(f)
    /\ ci' = [ci EXCEPT ![f].close_it = TRUE]
    /\ out' \in {out, SentTo({f}, out)}
    /\ UNCHANGED <<proc, clients, users, view, chan, net, answer>>

ReadingWs(f) == Reading(f) /\ ci[f].ws_opened

\* Variant: the uid of the previous session is kept.
RecvSessionKeepingUid(f, s) ==
    /\ ReadingWs(f)
    /\ Relogin \/ ci[f].session = NoSession
    /\ ci' = [ci EXCEPT ![f].session = s]
    /\ out' = SentTo({f}, out)
    /\ UNCHANGED <<proc, clients, users, view, chan, net, answer>>

\* "session=...": a fresh user_info replaces the old one.  Relogin is the bound
\* on what peers do, not a guard of the code.
RecvSession(f, s) ==
    /\ ReadingWs(f)
    /\ Relogin \/ ci[f].session = NoSession
    /\ ci' = [ci EXCEPT ![f].session = s, ![f].uid = Nobody]
    /\ out' = SentTo({f}, out)
    /\ view' = [view EXCEPT ![f] = Unknown]
    /\ UNCHANGED <<proc, clients, users, chan, net, answer>>

\* Anything else is refused until the passport has answered.
RecvUnauthorized(f) ==
    /\ ReadingWs(f) /\ ci[f].uid = Nobody
    /\ out' = IF ci[f].close_it THEN out ELSE SentTo({f}, out)
    /\ UNCHANGED <<proc, conn, users, view, chan, net, answer>>

ReadingUser(f) == ReadingWs(f) /\ ci[f].uid # Nobody

\* cmd "message": published under the sender's own uid.
RecvMessage(f, to) ==
    /\ ReadingUser(f)
    /\ Publish(to)
    /\ UNCHANGED <<proc, conn, out, users, view, net, answer>>

\* cmd "userslist": the client is told the whole list.
RecvUserslist(f) ==
    /\ ReadingUser(f) /\ ~ci[f].close_it
    /\ out' = SentTo({f}, out)
    /\ view' = [view EXCEPT ![f] = IF out[f] > OutMax THEN Unknown ELSE Online(users)]
    /\ UNCHANGED <<proc, conn, users, chan, net, answer>>

\* Variant: the entry is taken out and not put back.
RecvStatusRemoving(f) ==
    /\ ReadingUser(f)
    /\ users' = RemoveClient(users, ci[f].uid, f)
    /\ Publish(Everyone)
    /\ UNCHANGED <<proc, conn, out, view, net, answer>>

\* cmd "status": the client's entry is replaced and everyone is told by redis.
RecvStatus(f) ==
    /\ ReadingUser(f)
    /\ users' = AddClient(users, ci[f].uid, f)
    /\ Publish(Everyone)
    /\ UNCHANGED <<proc, conn, out, view, net, answer>>

\* The text "ping", or an opcode that is neither text, pong nor close.
RecvPingOrWrong(f) ==
    /\ ReadingWs(f)
    /\ out' = SentTo({f}, out)
    /\ UNCHANGED <<proc, conn, users, view, chan, net, answer>>

\* The closing frame, or the text "close".
RecvClose(f) ==
    /\ ReadingWs(f)
    /\ ci' = [ci EXCEPT ![f].close_it = TRUE]
    /\ UNCHANGED <<proc, clients, out, users, view, chan, net, answer>>

-----------------------------------------------------------------------------
(* Reactor: the end of a visit                                             *)

\* close_client: out of the users list, announced, and out of the slot.
CloseClient(f) ==
    LET u     == ci[f].uid
        left  == RemoveClient(users, u, f)
        rest  == Listeners(ci) \ {f}
        event == Announcement(left, u, f, FALSE)
    IN  /\ clients' = clients \ {f}
        /\ ci' = [ci EXCEPT ![f] = Fresh]
        /\ IF u = Nobody
           THEN /\ users' = users
                /\ out' = [out EXCEPT ![f] = 0]
                /\ view' = [view EXCEPT ![f] = Unknown]
           ELSE /\ users' = left
                /\ out' = [SentTo(rest, out) EXCEPT ![f] = 0]
                /\ view' = [Informed(rest, event, u) EXCEPT ![f] = Unknown]

\* Variant: EOF is taken for "no data yet".
VisitEndsDeaf(f) ==
    /\ status = "up" /\ cur = f
    /\ cur' = NoFd /\ todo' = todo \ {f}
    /\ IF ci[f].close_it
       THEN CloseClient(f)
       ELSE /\ \E n \in 0 .. out[f] : out' = [out EXCEPT ![f] = n]
            /\ UNCHANGED <<conn, users, view>>
    /\ UNCHANGED <<status, sem, batch, chan, net, answer>>

\* EOF or an error of recv; then process_client_write of what is queued, any
\* part of which the kernel may take; then close_client if close_it is set.
VisitEnds(f) ==
    /\ status = "up" /\ cur = f
    /\ cur' = NoFd /\ todo' = todo \ {f}
    /\ IF ci[f].close_it \/ ci[f].peer # "up"
       THEN CloseClient(f)
       ELSE /\ \E n \in 0 .. out[f] : out' = [out EXCEPT ![f] = n]
            /\ UNCHANGED <<conn, users, view>>
    /\ UNCHANGED <<status, sem, batch, chan, net, answer>>

\* If the socket was writable at select, send fails on a reset connection: its -1,
\* as a size_t, is "> 0" and io_buff_get clears SIZE_MAX bytes.
WriteFails(f) ==
    /\ status = "up" /\ cur = f
    /\ ci[f].peer = "reset" /\ out[f] > 0
    /\ status' = "crashed"
    /\ UNCHANGED <<sem, todo, cur, batch, conn, out, users, view, chan, net, answer>>

-----------------------------------------------------------------------------
(* Core: core_process_users and core_process_sessions                      *)

\* Variant: a client marked for closing is looked up again.
PendingThoughMarked == {f \in clients : /\ ci[f].ws_opened
                                        /\ ci[f].session # NoSession /\ ci[f].uid = Nobody}

\* The clients whose session is to be looked up.
Pending == {f \in clients : /\ ~ci[f].close_it /\ ci[f].ws_opened
                            /\ ci[f].session # NoSession /\ ci[f].uid = Nobody}

\* Variant: no sem_wait.
CoreCollectUnlocked ==
    /\ Running /\ sem # "core" /\ Pending # {}
    /\ sem' = "core"
    /\ batch' \in {B \in SUBSET Pending : Cardinality(B) = 1}
    /\ UNCHANGED <<status, todo, cur, conn, out, users, view, chan, net, answer>>

\* core_process_users: up to MaxCheck of the clients to look up.
CoreCollect ==
    /\ Running /\ sem = "free" /\ Pending # {}
    /\ sem' = "core"
    /\ batch' \in {B \in SUBSET Pending :
                     Cardinality(B) = MaxCheck \/ (Cardinality(B) < MaxCheck /\ B = Pending)}
    /\ UNCHANGED <<status, todo, cur, conn, out, users, view, chan, net, answer>>

\* The passport says user u: listed, announced, and told so.
CorePassed(f, u) ==
    LET known == [ci EXCEPT ![f].uid = u]
        added == AddClient(users, u, f)
        event == Announcement(added, u, f, TRUE)
    IN  /\ ci' = known
        /\ users' = added
        /\ out' = SentTo({f}, SentTo(Listeners(known), out))
        /\ view' = Informed(Listeners(known), event, u)

\* Variant: a refused client is not marked.
CoreRefusedUnmarked(f) == UNCHANGED <<ci, users, out, view>>

\* Auth failed: marked, and removed from the users list if it had a uid.
CoreRefused(f) ==
    /\ ci' = [ci EXCEPT ![f].close_it = TRUE]
    /\ users' = IF ci[f].uid = Nobody THEN users ELSE RemoveClient(users, ci[f].uid, f)
    /\ UNCHANGED <<out, view>>

\* bb_check_session, and what core_process_sessions does with the answer u (0:
\* none).  The semaphore is held throughout the request.
CoreCheck(f) ==
    /\ Running /\ sem = "core" /\ f \in batch
    /\ batch' = batch \ {f}
    /\ \E u \in Uids \cup {0} :
        /\ \/ /\ u \in {Owner[ci[f].session], 0}
              /\ answer' = IF PassportFails THEN u ELSE 0  \* else never read again
              /\ UNCHANGED lost_fds
           \/ \* the request failed: what is parsed is whatever the buffer holds
              /\ PassportFails
              /\ u \in {answer, 0} /\ UNCHANGED answer
              /\ \/ UNCHANGED lost_fds
                 \/ \E g \in FreeFds : lost_fds' = lost_fds \cup {g}
        /\ IF u = 0 THEN CoreRefused(f) ELSE CorePassed(f, u)
    /\ UNCHANGED <<status, sem, todo, cur, clients, chan, backlog, connects>>

CoreEnd ==
    /\ Running /\ sem = "core" /\ batch = {}
    /\ sem' = "free"
    /\ UNCHANGED <<status, todo, cur, batch, conn, out, users, view, chan, net, answer>>

-----------------------------------------------------------------------------
(* Redis: myredisOnMessage                                                 *)

\* Variant: to.uid is not looked at.
RedisOnMessageToAll ==
    /\ Running /\ sem = "free" /\ chan # <<>>
    /\ chan' = Tail(chan)
    /\ out' = SentTo(Listeners(ci), out)
    /\ UNCHANGED <<proc, conn, users, view, net, answer>>

\* A message goes to the listeners it is addressed to.
RedisOnMessage ==
    /\ Running /\ sem = "free" /\ chan # <<>>
    /\ chan' = Tail(chan)
    /\ out' = SentTo({f \in Listeners(ci) : Head(chan) \in {Everyone, ci[f].uid}}, out)
    /\ UNCHANGED <<proc, conn, users, view, net, answer>>

-----------------------------------------------------------------------------
Peers ==
    \/ PeerConnect
    \/ \E f \in Fds : PeerClose(f) \/ PeerReset(f) \/ TimePasses(f)
    \/ \E to \in Uids \cup {Everyone} : OthersPublish(to)

Select == SelectFails \/ StartPass \/ \E f \in Fds : Accept(f) \/ AcceptHigh(f)

Recv ==
    \E f \in Fds :
        \/ RecvUpgrade(f) \/ RecvOtherHeader(f)
        \/ \E s \in Sessions : RecvSession(f, s)
        \/ \E to \in Uids \cup {Everyone} : RecvMessage(f, to)
        \/ RecvUnauthorized(f) \/ RecvUserslist(f) \/ RecvStatus(f)
        \/ RecvPingOrWrong(f) \/ RecvClose(f)

Visit == EndPass \/ \E f \in Fds : VisitBegins(f) \/ VisitEnds(f) \/ WriteFails(f)

Core == CoreEnd \/ \E f \in Fds : CoreCheck(f)

\* A process that has crashed or exited stays so.
Gone == ~Running /\ UNCHANGED vars

Next == \/ Peers \/ Select \/ Recv \/ Visit \/ Restart
        \/ CoreCollect \/ Core \/ RedisOnMessage \/ Gone

Spec == Init /\ [][Next]_vars

(* Each thread sleeps after sem_post while the others wait in sem_wait, so  *)
(* a waiting thread gets the semaphore (strong fairness); what a thread     *)
(* has begun it finishes, the passport answers, and clocks advance (weak).  *)
Fairness ==
    /\ SF_vars(Select) /\ SF_vars(CoreCollect) /\ SF_vars(RedisOnMessage)
    /\ WF_vars(Visit) /\ WF_vars(Core) /\ WF_vars(Restart)
    /\ \A f \in Fds : WF_vars(TimePasses(f))

FairSpec == Spec /\ Fairness
-----------------------------------------------------------------------------
(* Properties                                                              *)

\* The users list names exactly the open sockets of authenticated clients:
\* userslist_mng keeps it by hand on login, refusal and close.
UsersListExact == users = {<<ci[f].uid, f>> : f \in {g \in clients : ci[g].uid # Nobody}}

\* No authenticated client is missing from the users list, whatever the peers
\* do: the half of UsersListExact that a second session= does not break.
UsersListComplete == \A f \in clients : ci[f].uid # Nobody => <<ci[f].uid, f>> \in users

\* A client holds the uid of the session it presented last: neither an answer
\* for another session nor the uid of an earlier one sticks to it.
AuthSound == \A f \in clients :
    ci[f].uid # Nobody => ci[f].session # NoSession /\ ci[f].uid = Owner[ci[f].session]

\* A client that has been given the list, and for which no frame has been
\* dropped since, knows who is online from the userslist_changed messages:
\* every login and quit, by any thread, is announced to it once and in order.
ViewAccurate == \A f \in Listeners(ci) : view[f] # Unknown => view[f] = Online(users)

\* The slots a thread has set aside (s_core_process_sessions, the rest of a
\* reactor pass, the slot being visited) are not freed under it, and core never
\* answers a session that another thread has changed.
HeldSlotsLive == /\ batch \subseteq Pending
                 /\ todo \cup ({cur} \ {NoFd}) \subseteq clients

\* A message for one user is queued only on connections whose session the
\* passport knows to be that user's.
PrivateStep == \A f \in Fds :
    /\ chan # <<>> /\ chan' = Tail(chan) /\ Head(chan) # Everyone
    /\ f \in clients /\ out'[f] # out[f]
    => ci[f].session # NoSession /\ Owner[ci[f].session] = Head(chan)

PrivateDelivery == [][PrivateStep]_vars

\* Nothing more is queued for a client that has been marked for closing, and
\* it stays marked until it is closed.
CloseStep == \A f \in clients :
    ci[f].close_it /\ cur # f
        => f \notin clients' \/ (ci'[f].close_it /\ out'[f] = out[f])

CloseIsFinal == [][CloseStep]_vars

\* The process serves nobody any more: it is gone, or it holds no free socket,
\* so that accept fails and every pass ends there while connections wait.
Halted == ~Running \/ (FreeFds = {} /\ backlog > 0)

\* A client that does not finish the handshake is closed by WS_TIMEOUT.
HandshakeTimeout == \A f \in Fds :
    (f \in clients /\ ~ci[f].ws_opened)
        ~> (f \notin clients \/ ci[f].ws_opened \/ Halted)

\* A connection closed by its peer is closed here too, unless core has marked
\* it meanwhile (see RefusedIsClosed).
PeerGoneIsClosed == \A f \in Fds :
    (f \in clients /\ ci[f].peer # "up")
        ~> (f \notin clients \/ (ci[f].close_it /\ cur # f) \/ Halted)

\* Every session presented is looked up, unless its connection ends first.
SessionIsAnswered == \A f \in Fds : (f \in Pending) ~> (f \notin Pending \/ Halted)

\* core.c:57 marks a refused client "Close client" and server.c:1056 is to
\* "Close client if need": a marked client is closed.
RefusedIsClosed == \A f \in Fds :
    (f \in clients /\ ci[f].close_it) ~> (f \notin clients)

\* server.c:1048-1050: a failed write closes the client it failed for; it does
\* not end the process.
WriteFailureIsLocal == status # "crashed"
=============================================================================
