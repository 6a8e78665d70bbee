------------------------------ MODULE WsdProofs ------------------------------
(***************************************************************************)
(* Proofs about Wsd, for every number of sockets, users and sessions: its  *)
(* types, and what each thread may rely on while it has the semaphore      *)
(* (Held); the users list, which names every authenticated client, and the *)
(* views of the clients that listen to its announcements (Listed); and     *)
(* what the daemon owes to a single client: the right uid, its private     *)
(* messages and no other user's, and silence once it is marked for closing.*)
(***************************************************************************)
EXTENDS Wsd, TLAPS

-----------------------------------------------------------------------------
(* What the helpers return                                                 *)

Buffers == [Fds -> 0 .. OutMax + 1]
Views == [Fds -> (SUBSET Uids) \cup {Unknown}]

\* A send keeps every buffer within its limit: one message over it at most.
LEMMA SentToType ==
    ASSUME NEW S, NEW q \in Buffers
    PROVE  SentTo(S, q) \in Buffers
BY WsdAssumption DEF Buffers, SentTo, Queued

\* An announcement about a user leaves every view a set of users, or Unknown.
LEMMA InformedType ==
    ASSUME NEW S, NEW event, NEW u \in Uids, TypeOK
    PROVE  Informed(S, event, u) \in Views
BY DEF TypeOK, Views, Informed, Believed

\* The entries added and removed are pairs of a user and a socket.
LEMMA ListType ==
    ASSUME NEW u \in Uids, NEW f \in Fds, TypeOK
    PROVE  /\ AddClient(users, u, f) \subseteq Uids \X Fds
           /\ RemoveClient(users, u, f) \subseteq Uids \X Fds
BY DEF TypeOK, AddClient, RemoveClient

\* A publication leaves a sequence of addressees in the channel.
LEMMA PublishType ==
    ASSUME NEW to \in Uids \cup {Everyone}, TypeOK, Publish(to)
    PROVE  chan' \in Seq(Uids \cup {Everyone})
<1>1. chan \in Seq(Uids \cup {Everyone})
  BY DEF TypeOK
<1>2. Append(chan, to) \in Seq(Uids \cup {Everyone})
  BY <1>1
<1> QED
  BY <1>1, <1>2 DEF Publish

\* An entry of ci one field of which is given another value of its type.
LEMMA FieldTypes ==
    ASSUME TypeOK, NEW f \in Fds, NEW b \in BOOLEAN, NEW u \in Uids \cup {Nobody},
           NEW how \in {"up", "eof", "reset"}
    PROVE  /\ [ci EXCEPT ![f].close_it = b] \in [Fds -> Client]
           /\ [ci EXCEPT ![f].ws_opened = b] \in [Fds -> Client]
           /\ [ci EXCEPT ![f].late = b] \in [Fds -> Client]
           /\ [ci EXCEPT ![f].uid = u] \in [Fds -> Client]
           /\ [ci EXCEPT ![f].peer = how] \in [Fds -> Client]
<1>1. ci \in [Fds -> Client] /\ ci[f] \in Client
  BY DEF TypeOK
<1>2. [ci[f] EXCEPT !.close_it = b] \in Client
  BY <1>1 DEF Client
<1>3. [ci[f] EXCEPT !.ws_opened = b] \in Client
  BY <1>1 DEF Client
<1>4. [ci[f] EXCEPT !.late = b] \in Client
  BY <1>1 DEF Client
<1>5. [ci[f] EXCEPT !.uid = u] \in Client
  BY <1>1 DEF Client
<1>6. [ci[f] EXCEPT !.peer = how] \in Client
  BY <1>1 DEF Client
<1>7. \A c \in Client : [ci EXCEPT ![f] = c] \in [Fds -> Client]
  BY <1>1
<1> QED
  BY <1>2, <1>3, <1>4, <1>5, <1>6, <1>7

-----------------------------------------------------------------------------
(* Type correctness                                                        *)

LEMMA FreshType == Fresh \in Client
BY DEF Fresh, Client

LEMMA TypeInit == Init => TypeOK
BY WsdAssumption, FreshType DEF Init, TypeOK, NoFd

LEMMA TypePeers == ASSUME TypeOK, Peers PROVE TypeOK'
<1>1. CASE PeerConnect
  BY <1>1 DEF TypeOK, PeerConnect, proc, conn
<1>2. ASSUME NEW f \in Fds, NEW how \in {"eof", "reset"}, PeerGoes(f, how)
      PROVE  TypeOK'
  <2>1. ci' \in [Fds -> Client]
    BY <1>2, FieldTypes DEF PeerGoes
  <2> QED
    BY <1>2, <2>1 DEF TypeOK, PeerGoes, proc, net
<1>3. ASSUME NEW f \in Fds, TimePasses(f) PROVE TypeOK'
  <2>1. ci' \in [Fds -> Client]
    BY <1>3, FieldTypes DEF TimePasses
  <2> QED
    BY <1>3, <2>1 DEF TypeOK, TimePasses, proc, net
<1>4. ASSUME NEW to \in Uids \cup {Everyone}, OthersPublish(to) PROVE TypeOK'
  BY <1>4 DEF TypeOK, OthersPublish, proc, conn, net
<1> QED
  BY <1>1, <1>2, <1>3, <1>4 DEF Peers, PeerClose, PeerReset

LEMMA TypeSelect == ASSUME TypeOK, Select \/ Restart PROVE TypeOK'
<1>1. ASSUME CloseClients PROVE TypeOK'
  BY <1>1, WsdAssumption, FreshType DEF TypeOK, CloseClients
<1>2. CASE StartPass
  BY <1>2 DEF TypeOK, StartPass, conn, net
<1>3. ASSUME NEW f \in Fds, Accept(f) PROVE TypeOK'
  <2>1. backlog' \in Nat
    BY <1>3 DEF TypeOK, Accept
  <2>2. ci' \in [Fds -> Client]
    BY <1>3, FreshType DEF TypeOK, Accept
  <2>3. out' \in [Fds -> 0 .. OutMax + 1]
    <3>1. 0 \in 0 .. OutMax + 1
      BY WsdAssumption
    <3> QED
      BY <1>3, <3>1 DEF TypeOK, Accept
  <2> QED
    BY <1>3, <2>1, <2>2, <2>3 DEF TypeOK, Accept, proc
<1>4. CASE Restart
  BY <1>4 DEF TypeOK, Restart, conn, net
<1> QED
  BY <1>1, <1>2, <1>3, <1>4 DEF Select, SelectFails, AcceptHigh

LEMMA TypeRecv == ASSUME TypeOK, Recv PROVE TypeOK'
<1>1. PICK f \in Fds :
        \/ RecvUpgrade(f) \/ RecvOtherHeader(f)
        \/ \E s \in Sessions : RecvSession(f, s)
        \/ \E to \in Uids \cup {Everyone} : RecvMessage(f, to)
        \/ RecvUnauthorized(f) \/ RecvUserslist(f) \/ RecvStatus(f)
        \/ RecvPingOrWrong(f) \/ RecvClose(f)
  BY DEF Recv
<1>2. SentTo({f}, out) \in Buffers /\ SentTo({f}, SentTo({f}, out)) \in Buffers
  BY SentToType DEF TypeOK, Buffers
<1>3. CASE RecvUpgrade(f)
  <2>1. ci' \in [Fds -> Client]
    BY <1>3, FieldTypes DEF RecvUpgrade
  <2> QED
    BY <1>2, <1>3, <2>1 DEF TypeOK, RecvUpgrade, proc, net, Buffers
<1>4. CASE RecvOtherHeader(f)
  <2>1. ci' \in [Fds -> Client]
    BY <1>4, FieldTypes DEF RecvOtherHeader
  <2> QED
    BY <1>2, <1>4, <2>1 DEF TypeOK, RecvOtherHeader, proc, net, Buffers
<1>5. ASSUME NEW s \in Sessions, RecvSession(f, s) PROVE TypeOK'
  <2>1. ci' \in [Fds -> Client]
    <3> DEFINE c == [ci[f] EXCEPT !.session = s, !.uid = Nobody]
    <3>1. c \in Client
      BY DEF TypeOK, Client
    <3>2. ci' = [ci EXCEPT ![f] = c]
      BY <1>5 DEF RecvSession
    <3> QED
      BY <3>1, <3>2 DEF TypeOK
  <2>2. view' \in Views
    BY <1>5 DEF TypeOK, RecvSession, Views
  <2> QED
    BY <1>2, <1>5, <2>1, <2>2 DEF TypeOK, RecvSession, proc, net, Buffers, Views
<1>6. ASSUME NEW to \in Uids \cup {Everyone}, RecvMessage(f, to) PROVE TypeOK'
  <2>1. chan' \in Seq(Uids \cup {Everyone})
    BY <1>6, PublishType DEF RecvMessage
  <2> QED
    BY <1>6, <2>1 DEF TypeOK, RecvMessage, proc, conn, net
<1>7. CASE RecvUnauthorized(f) \/ RecvPingOrWrong(f)
  BY <1>2, <1>7 DEF TypeOK, RecvUnauthorized, RecvPingOrWrong, proc, conn, net, Buffers
<1>8. CASE RecvUserslist(f)
  <2>1. Online(users) \subseteq Uids
    BY DEF TypeOK, Online
  <2> QED
    BY <1>2, <1>8, <2>1 DEF TypeOK, RecvUserslist, proc, conn, net, Buffers
<1>9. CASE RecvStatus(f)
  <2>1. AddClient(users, ci[f].uid, f) \subseteq Uids \X Fds
    BY <1>9, ListType DEF TypeOK, RecvStatus, ReadingUser, Client
  <2>2. chan' \in Seq(Uids \cup {Everyone})
    BY <1>9, PublishType DEF RecvStatus
  <2> QED
    BY <1>9, <2>1, <2>2 DEF TypeOK, RecvStatus, proc, conn, net
<1>10. CASE RecvClose(f)
  <2>1. ci' \in [Fds -> Client]
    BY <1>10, FieldTypes DEF RecvClose
  <2> QED
    BY <1>10, <2>1 DEF TypeOK, RecvClose, proc, net
<1> QED
  BY <1>1, <1>3, <1>4, <1>5, <1>6, <1>7, <1>8, <1>9, <1>10

LEMMA TypeVisit == ASSUME TypeOK, Visit PROVE TypeOK'
<1>1. CASE EndPass
  BY <1>1 DEF TypeOK, EndPass, conn, net
<1>2. ASSUME NEW f \in Fds, VisitBegins(f) PROVE TypeOK'
  <2>1. SentTo({f}, out) \in Buffers
    BY SentToType DEF TypeOK, Buffers
  <2>2. out' \in Buffers
    BY <1>2, <2>1 DEF TypeOK, VisitBegins, Buffers
  <2>3. ci' \in [Fds -> Client]
    <3> DEFINE b == ci[f].close_it \/ (~ci[f].ws_opened /\ ci[f].late)
    <3>1. b \in BOOLEAN
      OBVIOUS
    <3>2. [ci EXCEPT ![f].close_it = b] \in [Fds -> Client]
      BY <3>1, FieldTypes
    <3>3. ci' = [ci EXCEPT ![f].close_it = b]
      BY <1>2 DEF VisitBegins
    <3> QED
      BY <3>2, <3>3
  <2> QED
    BY <1>2, <2>2, <2>3 DEF TypeOK, VisitBegins, net, Buffers
<1>3. ASSUME NEW f \in Fds, VisitEnds(f) PROVE TypeOK'
  <2>1. todo' \subseteq Fds /\ cur' \in Fds \cup {NoFd} /\ batch' \subseteq Fds
        /\ status' = status /\ sem' = sem
    BY <1>3 DEF TypeOK, VisitEnds
  <2>2. CASE CloseClient(f)
    <3>1. clients' \subseteq Fds /\ ci' \in [Fds -> Client]
      BY <2>2, FreshType DEF TypeOK, CloseClient
    <3>2. CASE ci[f].uid = Nobody
      <4>1. users' = users /\ out' \in Buffers /\ view' \in Views
        <5>1. 0 \in 0 .. OutMax + 1
          BY WsdAssumption
        <5> QED
          BY <2>2, <3>2, <5>1 DEF TypeOK, CloseClient, Buffers, Views
      <4> QED
        BY <1>3, <2>1, <3>1, <4>1 DEF TypeOK, VisitEnds, net, Buffers, Views
    <3>3. CASE ci[f].uid # Nobody
      <4> DEFINE u == ci[f].uid
                 rest == Listeners(ci) \ {f}
                 event == Announcement(RemoveClient(users, u, f), u, f, FALSE)
      <4>1. u \in Uids
        BY <3>3 DEF TypeOK, Client
      <4>2. SentTo(rest, out) \in Buffers
        BY SentToType DEF TypeOK, Buffers
      <4>3. Informed(rest, event, u) \in Views
        BY <4>1, InformedType
      <4>4. users' \subseteq Uids \X Fds
        BY <2>2, <3>3, <4>1, ListType DEF CloseClient
      <4>5. out' = [SentTo(rest, out) EXCEPT ![f] = 0]
            /\ view' = [Informed(rest, event, u) EXCEPT ![f] = Unknown]
        BY <2>2, <3>3 DEF CloseClient
      <4>6. out' \in Buffers
        <5>1. 0 \in 0 .. OutMax + 1
          BY WsdAssumption
        <5> QED
          BY <4>2, <4>5, <5>1 DEF Buffers
      <4>7. view' \in Views
        BY <4>3, <4>5 DEF Views
      <4> QED
        BY <1>3, <2>1, <3>1, <4>4, <4>6, <4>7 DEF TypeOK, VisitEnds, net, Buffers, Views
    <3> QED
      BY <3>2, <3>3
  <2>3. CASE \E n \in 0 .. out[f] : out' = [out EXCEPT ![f] = n]
             /\ UNCHANGED <<conn, users, view>>
    <3>1. PICK n \in 0 .. out[f] : out' = [out EXCEPT ![f] = n]
      BY <2>3
    <3>2. n \in 0 .. OutMax + 1
      BY WsdAssumption DEF TypeOK
    <3> QED
      BY <1>3, <2>1, <2>3, <3>1, <3>2 DEF TypeOK, VisitEnds, conn, net
  <2> QED
    BY <1>3, <2>2, <2>3 DEF VisitEnds
<1>4. ASSUME NEW f \in Fds, WriteFails(f) PROVE TypeOK'
  BY <1>4 DEF TypeOK, WriteFails, conn, net
<1> QED
  BY <1>1, <1>2, <1>3, <1>4 DEF Visit

LEMMA TypeCore == ASSUME TypeOK, CoreCollect \/ Core PROVE TypeOK'
<1>1. CASE CoreCollect
  BY <1>1 DEF TypeOK, CoreCollect, Pending, conn, net
<1>2. CASE CoreEnd
  BY <1>2 DEF TypeOK, CoreEnd, conn, net
<1>3. ASSUME NEW f \in Fds, CoreCheck(f) PROVE TypeOK'
  <2>1. PICK u \in Uids \cup {0} :
          /\ answer' \in {u, 0, answer}
          /\ lost_fds' = lost_fds \/ \E g \in FreeFds : lost_fds' = lost_fds \cup {g}
          /\ IF u = 0 THEN CoreRefused(f) ELSE CorePassed(f, u)
    BY <1>3 DEF CoreCheck
  <2>2. answer' \in Uids \cup {0} /\ lost_fds' \subseteq Fds
    BY <2>1 DEF TypeOK, FreeFds
  <2>3. batch' \subseteq Fds
    BY <1>3 DEF TypeOK, CoreCheck
  <2>4. CASE CoreRefused(f)
    <3>1. users' \subseteq Uids \X Fds
      BY <2>4 DEF TypeOK, CoreRefused, RemoveClient
    <3>2. ci' \in [Fds -> Client]
      BY <2>4, FieldTypes DEF CoreRefused
    <3> QED
      BY <1>3, <2>2, <2>3, <2>4, <3>1, <3>2 DEF TypeOK, CoreCheck, CoreRefused
  <2>5. CASE u \in Uids /\ CorePassed(f, u)
    <3> DEFINE known == [ci EXCEPT ![f].uid = u]
               event == Announcement(AddClient(users, u, f), u, f, TRUE)
    <3>1. ci' \in [Fds -> Client]
      BY <2>5, FieldTypes DEF CorePassed
    <3>2. users' \subseteq Uids \X Fds
      BY <2>5, ListType DEF CorePassed
    <3>3. out' \in Buffers
      BY <2>5, SentToType DEF TypeOK, Buffers, CorePassed
    <3>4. view' \in Views
      BY <2>5, InformedType DEF CorePassed
    <3> QED
      BY <1>3, <2>2, <2>3, <3>1, <3>2, <3>3, <3>4
      DEF TypeOK, CoreCheck, Buffers, Views
  <2> QED
    BY <2>1, <2>4, <2>5
<1> QED
  BY <1>1, <1>2, <1>3 DEF Core

LEMMA TypeRedis == ASSUME TypeOK, RedisOnMessage PROVE TypeOK'
<1>1. out' \in Buffers
  BY SentToType DEF TypeOK, Buffers, RedisOnMessage
<1>2. chan' \in Seq(Uids \cup {Everyone})
  BY DEF TypeOK, RedisOnMessage
<1> QED
  BY <1>1, <1>2 DEF TypeOK, RedisOnMessage, proc, conn, net, Buffers

LEMMA TypeStep == TypeOK /\ [Next]_vars => TypeOK'
<1> SUFFICES ASSUME TypeOK, [Next]_vars PROVE TypeOK'
  OBVIOUS
<1>1. CASE UNCHANGED vars
  BY <1>1 DEF TypeOK, vars, proc, conn, net
<1> QED
  BY <1>1, TypePeers, TypeSelect, TypeRecv, TypeVisit, TypeCore, TypeRedis DEF Next, Gone

\* Every value keeps its type: no thread stores an entry for a client without
\* a uid, and a frame sent to a buffer over its limit is dropped.
THEOREM TypeCorrect == Spec => []TypeOK
BY TypeInit, TypeStep, PTL DEF Spec

-----------------------------------------------------------------------------
(* The semaphore                                                           *)

\* What a thread keeps for itself is empty whenever it has not the semaphore.
Locks ==
    /\ sem = "free" => todo = {} /\ cur = NoFd /\ batch = {}
    /\ sem = "core" => todo = {} /\ cur = NoFd
    /\ sem = "reactor" => batch = {}
    /\ cur # NoFd => cur \in todo

\* A slot still to be visited has not been marked since the pass began.
UnmarkedAhead == \A f \in todo \ {cur} : ~ci[f].close_it

Held == Locks /\ HeldSlotsLive /\ UnmarkedAhead

\* While a slot is visited the reactor has the semaphore.
LEMMA VisitHolds ==
    ASSUME TypeOK, Held, NEW f \in Fds, cur = f
    PROVE  sem = "reactor" /\ batch = {} /\ f \in todo /\ f \in clients
BY WsdAssumption DEF TypeOK, Held, Locks, HeldSlotsLive, NoFd

\* A read changes the slot being visited, and no other.
LEMMA RecvFrame ==
    ASSUME TypeOK, Recv
    PROVE  \E f \in Fds : /\ Reading(f)
                          /\ UNCHANGED <<proc, clients>>
                          /\ \A g \in Fds \ {f} : ci'[g] = ci[g] /\ view'[g] = view[g]
<1>1. PICK f \in Fds :
        \/ RecvUpgrade(f) \/ RecvOtherHeader(f)
        \/ \E s \in Sessions : RecvSession(f, s)
        \/ \E to \in Uids \cup {Everyone} : RecvMessage(f, to)
        \/ RecvUnauthorized(f) \/ RecvUserslist(f) \/ RecvStatus(f)
        \/ RecvPingOrWrong(f) \/ RecvClose(f)
  BY DEF Recv
<1>2. Reading(f)
  BY <1>1 DEF RecvUpgrade, RecvOtherHeader, RecvSession, RecvMessage, RecvUnauthorized,
              RecvUserslist, RecvStatus, RecvPingOrWrong, RecvClose,
              ReadingHeader, ReadingUser, ReadingWs
<1>3. UNCHANGED <<proc, clients>>
  BY <1>1 DEF RecvUpgrade, RecvOtherHeader, RecvSession, RecvMessage, RecvUnauthorized,
              RecvUserslist, RecvStatus, RecvPingOrWrong, RecvClose, conn
<1>4. \A g \in Fds \ {f} : ci'[g] = ci[g]
  BY <1>1 DEF TypeOK, RecvUpgrade, RecvOtherHeader, RecvSession, RecvMessage,
              RecvUnauthorized, RecvUserslist, RecvStatus, RecvPingOrWrong, RecvClose, conn
<1>5. \A g \in Fds \ {f} : view'[g] = view[g]
  BY <1>1 DEF TypeOK, RecvUpgrade, RecvOtherHeader, RecvSession, RecvMessage,
              RecvUnauthorized, RecvUserslist, RecvStatus, RecvPingOrWrong, RecvClose
<1> QED
  BY <1>2, <1>3, <1>4, <1>5

LEMMA HeldInit == Init => Held
BY DEF Init, Held, Locks, HeldSlotsLive, UnmarkedAhead

\* What peers do changes nothing of a slot the threads look at, but that its
\* time has passed or its peer has gone.
LEMMA PeersFrame ==
    ASSUME TypeOK, Peers
    PROVE  /\ UNCHANGED <<proc, clients, out, users, view>>
           /\ \A g \in Fds : /\ ci'[g].close_it = ci[g].close_it
                             /\ ci'[g].ws_opened = ci[g].ws_opened
                             /\ ci'[g].session = ci[g].session /\ ci'[g].uid = ci[g].uid
<1>1. CASE PeerConnect \/ \E to \in Uids \cup {Everyone} : OthersPublish(to)
  BY <1>1 DEF PeerConnect, OthersPublish, conn
<1>2. ASSUME NEW f \in Fds, NEW how \in {"eof", "reset"}, PeerGoes(f, how)
      PROVE  /\ UNCHANGED <<proc, clients, out, users, view>>
             /\ \A g \in Fds : ci'[g] = IF g = f THEN [ci[g] EXCEPT !.peer = how] ELSE ci[g]
  BY <1>2 DEF TypeOK, PeerGoes
<1>3. ASSUME NEW f \in Fds, TimePasses(f)
      PROVE  /\ UNCHANGED <<proc, clients, out, users, view>>
             /\ \A g \in Fds : ci'[g] = IF g = f THEN [ci[g] EXCEPT !.late = TRUE] ELSE ci[g]
  BY <1>3 DEF TypeOK, TimePasses
<1>4. ASSUME NEW f \in Fds, PeerClose(f) \/ PeerReset(f) \/ TimePasses(f)
      PROVE  /\ UNCHANGED <<proc, clients, out, users, view>>
             /\ \A g \in Fds : /\ ci'[g].close_it = ci[g].close_it
                               /\ ci'[g].ws_opened = ci[g].ws_opened
                               /\ ci'[g].session = ci[g].session /\ ci'[g].uid = ci[g].uid
  <2>1. UNCHANGED <<proc, clients, out, users, view>>
    BY <1>2, <1>3, <1>4 DEF PeerClose, PeerReset
  <2>2. ASSUME NEW how \in {"eof", "reset"}, PeerGoes(f, how)
        PROVE  \A g \in Fds : /\ ci'[g].close_it = ci[g].close_it
                              /\ ci'[g].ws_opened = ci[g].ws_opened
                              /\ ci'[g].session = ci[g].session /\ ci'[g].uid = ci[g].uid
    <3>1. \A g \in Fds : ci'[g] = IF g = f THEN [ci[g] EXCEPT !.peer = how] ELSE ci[g]
      BY <1>2, <2>2
    <3> QED
      BY <3>1 DEF TypeOK, Client
  <2>3. CASE TimePasses(f)
    <3>1. \A g \in Fds : ci'[g] = IF g = f THEN [ci[g] EXCEPT !.late = TRUE] ELSE ci[g]
      BY <1>3, <2>3
    <3>2. \A g \in Fds : /\ ci'[g].close_it = ci[g].close_it
                         /\ ci'[g].ws_opened = ci[g].ws_opened
                         /\ ci'[g].session = ci[g].session /\ ci'[g].uid = ci[g].uid
      BY <3>1 DEF TypeOK, Client
    <3> QED
      BY <2>1, <3>2
  <2>4. PeerGoes(f, "eof") \/ PeerGoes(f, "reset") \/ TimePasses(f)
    BY <1>4 DEF PeerClose, PeerReset
  <2> QED
    <3>1. CASE PeerGoes(f, "eof")
      BY <2>1, <2>2, <3>1
    <3>2. CASE PeerGoes(f, "reset")
      BY <2>1, <2>2, <3>2
    <3> QED
      BY <2>1, <2>3, <2>4, <3>1, <3>2
<1> QED
  BY <1>1, <1>4 DEF Peers

LEMMA HeldPeers == ASSUME TypeOK, Held, Peers PROVE Held'
BY PeersFrame DEF TypeOK, Held, Locks, HeldSlotsLive, UnmarkedAhead, Pending, proc

LEMMA HeldSelect == ASSUME TypeOK, Held, Select \/ Restart PROVE Held'
<1>1. ASSUME CloseClients, sem = "free" PROVE Held'
  BY <1>1 DEF Held, Locks, HeldSlotsLive, UnmarkedAhead, CloseClients
<1>2. CASE StartPass
  BY <1>2 DEF Held, Locks, HeldSlotsLive, UnmarkedAhead, StartPass, conn
<1>3. ASSUME NEW f \in Fds, Accept(f) PROVE Held'
  BY <1>3 DEF Held, Locks, HeldSlotsLive, UnmarkedAhead, Accept, proc
<1>4. CASE Restart
  BY <1>4 DEF Held, Locks, HeldSlotsLive, UnmarkedAhead, Pending, Restart, conn
<1> QED
  BY <1>1, <1>2, <1>3, <1>4 DEF Select, SelectFails, AcceptHigh

LEMMA HeldRecv == ASSUME TypeOK, Held, Recv PROVE Held'
<1>1. PICK f \in Fds : /\ Reading(f)
                       /\ UNCHANGED <<proc, clients>>
                       /\ \A g \in Fds \ {f} : ci'[g] = ci[g]
  BY RecvFrame
<1>2. batch = {} /\ cur = f
  BY <1>1, VisitHolds DEF Reading
<1> QED
  BY <1>1, <1>2 DEF TypeOK, Held, Locks, HeldSlotsLive, UnmarkedAhead, proc

LEMMA HeldVisit == ASSUME TypeOK, Held, Visit PROVE Held'
<1>1. CASE EndPass
  BY <1>1 DEF Held, Locks, HeldSlotsLive, UnmarkedAhead, EndPass, conn
<1>2. ASSUME NEW f \in Fds, VisitBegins(f) PROVE Held'
  <2>1. batch' = {} /\ sem' = "reactor" /\ todo' = todo /\ cur' = f /\ clients' = clients
    BY <1>2 DEF Held, Locks, VisitBegins
  <2>2. f \in todo /\ todo \subseteq clients /\ cur = NoFd
    BY <1>2 DEF Held, HeldSlotsLive, VisitBegins
  <2>3. \A g \in Fds \ {f} : ci'[g] = ci[g]
    BY <1>2 DEF TypeOK, VisitBegins
  <2> QED
    BY <2>1, <2>2, <2>3, WsdAssumption
    DEF TypeOK, Held, Locks, HeldSlotsLive, UnmarkedAhead, NoFd
<1>3. ASSUME NEW f \in Fds, VisitEnds(f) PROVE Held'
  <2>1. sem' = "reactor" /\ batch' = {} /\ todo' = todo \ {f} /\ cur' = NoFd /\ cur = f
    BY <1>3, VisitHolds DEF VisitEnds
  <2>2. clients \ {f} \subseteq clients' /\ \A g \in Fds \ {f} : ci'[g] = ci[g]
    BY <1>3 DEF TypeOK, VisitEnds, CloseClient, conn
  <2> QED
    BY <2>1, <2>2 DEF TypeOK, Held, Locks, HeldSlotsLive, UnmarkedAhead, NoFd
<1>4. ASSUME NEW f \in Fds, WriteFails(f) PROVE Held'
  BY <1>4 DEF Held, Locks, HeldSlotsLive, UnmarkedAhead, Pending, WriteFails, conn
<1> QED
  BY <1>1, <1>2, <1>3, <1>4 DEF Visit

LEMMA HeldCore == ASSUME TypeOK, Held, CoreCollect \/ Core \/ RedisOnMessage PROVE Held'
<1>1. CASE CoreCollect
  BY <1>1 DEF Held, Locks, HeldSlotsLive, UnmarkedAhead, Pending, CoreCollect, conn
<1>2. CASE CoreEnd
  BY <1>2 DEF Held, Locks, HeldSlotsLive, UnmarkedAhead, Pending, CoreEnd, conn
<1>3. ASSUME NEW f \in Fds, CoreCheck(f) PROVE Held'
  <2>1. /\ sem' = "core" /\ todo' = {} /\ cur' = NoFd
        /\ batch' = batch \ {f} /\ clients' = clients
    BY <1>3 DEF Held, Locks, CoreCheck
  <2>2. \A g \in Fds \ {f} : ci'[g] = ci[g]
    BY <1>3 DEF TypeOK, CoreCheck, CorePassed, CoreRefused
  <2> QED
    BY <2>1, <2>2 DEF TypeOK, Held, Locks, HeldSlotsLive, UnmarkedAhead, Pending
<1>4. CASE RedisOnMessage
  BY <1>4 DEF Held, Locks, HeldSlotsLive, UnmarkedAhead, Pending, RedisOnMessage, proc, conn
<1> QED
  BY <1>1, <1>2, <1>3, <1>4 DEF Core

LEMMA HeldStep == TypeOK /\ Held /\ [Next]_vars => Held'
<1> SUFFICES ASSUME TypeOK, Held, [Next]_vars PROVE Held'
  OBVIOUS
<1>1. CASE UNCHANGED vars
  BY <1>1 DEF Held, Locks, HeldSlotsLive, UnmarkedAhead, Pending, vars, proc, conn
<1> QED
  BY <1>1, HeldPeers, HeldSelect, HeldRecv, HeldVisit, HeldCore DEF Next, Gone

LEMMA HeldAlways == Spec => [](TypeOK /\ Held)
BY TypeInit, TypeStep, HeldInit, HeldStep, PTL DEF Spec

\* No thread frees or changes the slots another one has set aside: the core's
\* batch waits to be answered, and the reactor's pass meets only open slots.
THEOREM SlotsAreHeld == Spec => []HeldSlotsLive
<1>1. TypeOK /\ Held => HeldSlotsLive
  BY DEF Held
<1> QED
  BY <1>1, HeldAlways, PTL
-----------------------------------------------------------------------------
(* The list and its announcements                                          *)

\* Replacing an entry that is there changes nothing.
LEMMA AddListed ==
    ASSUME NEW L, NEW u, NEW c, <<u, c>> \in L
    PROVE  AddClient(L, u, c) = L
BY DEF AddClient, RemoveClient

LEMMA OnlineAdded ==
    ASSUME NEW L \in SUBSET (Uids \X Fds), NEW u \in Uids, NEW c \in Fds
    PROVE  Online(AddClient(L, u, c)) = Online(L) \cup {u}
<1>1. AddClient(L, u, c) = L \cup {<<u, c>>}
  BY DEF AddClient, RemoveClient
<1>2. Online({<<u, c>>}) = {u}
  BY DEF Online
<1>3. ASSUME NEW A, NEW B PROVE Online(A \cup B) = Online(A) \cup Online(B)
  BY DEF Online
<1> QED
  BY <1>1, <1>2, <1>3

\* A user is online while the list has a client of it.
LEMMA OnlineClients ==
    ASSUME NEW L \in SUBSET (Uids \X Fds), NEW u \in Uids
    PROVE  u \in Online(L) <=> ClientsOf(L, u) # {}
BY DEF Online, ClientsOf

\* Who removes a client and believes the announcement is right about who is
\* online, if it was before.
LEMMA RemovalAnnounced ==
    ASSUME NEW L \in SUBSET (Uids \X Fds), NEW u \in Uids, NEW c \in Fds
    PROVE  LET left == RemoveClient(L, u, c)
           IN  Believed(Online(L), Announcement(left, u, c, FALSE), u) = Online(left)
<1> DEFINE left == RemoveClient(L, u, c)
<1>1. left \in SUBSET (Uids \X Fds)
  BY DEF RemoveClient
<1>2. Online(L) \ {u} = Online(left) \ {u}
  BY DEF Online, RemoveClient
<1>3. Online(left) \subseteq Online(L)
  BY DEF Online, RemoveClient
<1>4. CASE ClientsOf(left, u) = {}
  <2>1. u \notin Online(left)
    BY <1>1, <1>4, OnlineClients
  <2>2. Believed(Online(L), Announcement(left, u, c, FALSE), u) = Online(L) \ {u}
    BY <1>4 DEF Announcement, Believed
  <2> QED
    BY <1>2, <2>1, <2>2
<1>5. CASE ClientsOf(left, u) # {}
  <2>1. u \in Online(left)
    BY <1>1, <1>5, OnlineClients
  <2>2. Believed(Online(L), Announcement(left, u, c, FALSE), u) = Online(L)
    BY <1>5 DEF Announcement, Believed
  <2>3. Online(left) = Online(L)
    BY <1>2, <1>3, <2>1
  <2> QED
    BY <2>2, <2>3
<1> QED
  BY <1>4, <1>5

\* And so is who adds one.
LEMMA AdditionAnnounced ==
    ASSUME NEW L \in SUBSET (Uids \X Fds), NEW u \in Uids, NEW c \in Fds
    PROVE  LET added == AddClient(L, u, c)
           IN  Believed(Online(L), Announcement(added, u, c, TRUE), u) = Online(added)
<1> DEFINE added == AddClient(L, u, c)
<1>1. Online(added) = Online(L) \cup {u}
  BY OnlineAdded
<1>2. added = L \cup {<<u, c>>}
  BY DEF AddClient, RemoveClient
<1>3. c \in ClientsOf(added, u)
  BY <1>2 DEF ClientsOf
<1>4. CASE ClientsOf(added, u) = {c}
  BY <1>1, <1>4 DEF Announcement, Believed
<1>5. CASE ClientsOf(added, u) # {c}
  <2>1. PICK d \in ClientsOf(added, u) : d # c
    BY <1>3, <1>5
  <2>2. d \in ClientsOf(L, u)
    BY <1>2, <2>1 DEF ClientsOf
  <2>3. u \in Online(L)
    BY <2>2, OnlineClients
  <2>4. Believed(Online(L), Announcement(added, u, c, TRUE), u) = Online(L)
    BY <1>3, <1>5 DEF Announcement, Believed
  <2> QED
    BY <1>1, <2>3, <2>4
<1> QED
  BY <1>4, <1>5

-----------------------------------------------------------------------------
(* Who is listed, and who knows                                            *)

\* A client has a uid only once it has presented a session, and believes
\* nothing about who is online before it has a uid.
Presented == \A f \in clients :
    /\ ci[f].session = NoSession => ci[f].uid = Nobody
    /\ ci[f].uid = Nobody => view[f] = Unknown

Listed == Presented /\ UsersListComplete /\ ViewAccurate

LEMMA ListedInit == Init => Listed
BY DEF Init, Listed, Presented, UsersListComplete, ViewAccurate, Listeners

LEMMA ListedPeers == ASSUME TypeOK, Listed, Peers PROVE Listed'
BY PeersFrame
DEF TypeOK, Listed, Presented, UsersListComplete, ViewAccurate, Listeners, Online

LEMMA ListedSelect == ASSUME TypeOK, Listed, Select \/ Restart PROVE Listed'
<1>1. ASSUME CloseClients PROVE Listed'
  BY <1>1 DEF Listed, Presented, UsersListComplete, ViewAccurate, Listeners, CloseClients
<1>2. CASE StartPass
  BY <1>2 DEF Listed, Presented, UsersListComplete, ViewAccurate, Listeners, StartPass, conn
<1>3. ASSUME NEW f \in Fds, Accept(f) PROVE Listed'
  <2>1. /\ ci'[f].uid = Nobody /\ view'[f] = Unknown
        /\ clients' = clients \cup {f} /\ users' = users
        /\ \A g \in Fds \ {f} : ci'[g] = ci[g] /\ view'[g] = view[g]
    BY <1>3 DEF TypeOK, Accept, Fresh
  <2> QED
    BY <2>1 DEF TypeOK, Listed, Presented, UsersListComplete, ViewAccurate, Listeners
<1>4. CASE Restart
  BY <1>4 DEF Listed, Presented, UsersListComplete, ViewAccurate, Listeners, Restart, conn
<1> QED
  BY <1>1, <1>2, <1>3, <1>4 DEF Select, SelectFails, AcceptHigh

LEMMA ListedRecv == ASSUME TypeOK, Listed, Recv PROVE Listed'
<1>1. PICK f \in Fds :
        \/ RecvUpgrade(f) \/ RecvOtherHeader(f)
        \/ \E s \in Sessions : RecvSession(f, s)
        \/ \E to \in Uids \cup {Everyone} : RecvMessage(f, to)
        \/ RecvUnauthorized(f) \/ RecvUserslist(f) \/ RecvStatus(f)
        \/ RecvPingOrWrong(f) \/ RecvClose(f)
  BY DEF Recv
<1>2. CASE RecvUpgrade(f) \/ RecvOtherHeader(f) \/ RecvClose(f)
  <2>1. /\ UNCHANGED <<clients, users, view>>
        /\ \A g \in Fds : /\ ci[g].close_it => ci'[g].close_it
                          /\ ci'[g].session = ci[g].session /\ ci'[g].uid = ci[g].uid
    <3>1. CASE RecvUpgrade(f)
      BY <3>1 DEF TypeOK, Client, RecvUpgrade
    <3>2. CASE RecvOtherHeader(f)
      BY <3>2 DEF TypeOK, Client, RecvOtherHeader
    <3>3. CASE RecvClose(f)
      BY <3>3 DEF TypeOK, Client, RecvClose
    <3> QED
      BY <1>2, <3>1, <3>2, <3>3
  <2> QED
    BY <2>1 DEF TypeOK, Listed, Presented, UsersListComplete, ViewAccurate, Listeners
<1>3. ASSUME NEW s \in Sessions, RecvSession(f, s) PROVE Listed'
  <2>1. /\ UNCHANGED <<clients, users>>
        /\ ci'[f].uid = Nobody /\ view'[f] = Unknown
        /\ \A g \in Fds \ {f} : ci'[g] = ci[g] /\ view'[g] = view[g]
    BY <1>3 DEF TypeOK, RecvSession, Client
  <2> QED
    BY <2>1 DEF TypeOK, Listed, Presented, UsersListComplete, ViewAccurate, Listeners
<1>4. CASE (\E to \in Uids \cup {Everyone} : RecvMessage(f, to))
           \/ RecvUnauthorized(f) \/ RecvPingOrWrong(f)
  <2>1. UNCHANGED <<clients, ci, users, view>>
    BY <1>4 DEF RecvMessage, RecvUnauthorized, RecvPingOrWrong, conn
  <2> QED
    BY <2>1 DEF Listed, Presented, UsersListComplete, ViewAccurate, Listeners
<1>5. CASE RecvUserslist(f)
  <2>1. /\ UNCHANGED <<clients, ci, users>>
        /\ ci[f].uid # Nobody
        /\ view'[f] \in {Unknown, Online(users)}
        /\ \A g \in Fds \ {f} : view'[g] = view[g]
    BY <1>5 DEF TypeOK, RecvUserslist, ReadingUser, conn
  <2> QED
    BY <2>1 DEF TypeOK, Listed, Presented, UsersListComplete, ViewAccurate, Listeners
<1>6. CASE RecvStatus(f)
  <2>1. f \in clients /\ ci[f].uid # Nobody
    BY <1>6 DEF RecvStatus, ReadingUser, ReadingWs, Reading
  <2>2. AddClient(users, ci[f].uid, f) = users
    BY <2>1, AddListed DEF Listed, UsersListComplete
  <2>3. UNCHANGED <<clients, ci, users, view>>
    BY <1>6, <2>2 DEF RecvStatus, conn
  <2> QED
    BY <2>3 DEF Listed, Presented, UsersListComplete, ViewAccurate, Listeners
<1> QED
  BY <1>1, <1>2, <1>3, <1>4, <1>5, <1>6

LEMMA ListedVisit == ASSUME TypeOK, Listed, Visit PROVE Listed'
<1>1. CASE EndPass \/ \E f \in Fds : WriteFails(f)
  BY <1>1 DEF Listed, Presented, UsersListComplete, ViewAccurate, Listeners,
              EndPass, WriteFails, conn
<1>2. ASSUME NEW f \in Fds, VisitBegins(f) PROVE Listed'
  <2>1. /\ UNCHANGED <<clients, users, view>>
        /\ \A g \in Fds : /\ ci[g].close_it => ci'[g].close_it
                          /\ ci'[g].session = ci[g].session /\ ci'[g].uid = ci[g].uid
    BY <1>2 DEF TypeOK, Client, VisitBegins
  <2> QED
    BY <2>1 DEF TypeOK, Listed, Presented, UsersListComplete, ViewAccurate, Listeners
<1>3. ASSUME NEW f \in Fds, VisitEnds(f), CloseClient(f) PROVE Listed'
  <2>1. /\ clients' = clients \ {f}
        /\ \A g \in Fds \ {f} : ci'[g] = ci[g]
    BY <1>3 DEF TypeOK, CloseClient
  <2>2. CASE ci[f].uid = Nobody
    <3>1. users' = users /\ \A g \in Fds \ {f} : view'[g] = view[g]
      BY <1>3, <2>2 DEF TypeOK, CloseClient
    <3> QED
      BY <2>1, <3>1 DEF TypeOK, Listed, Presented, UsersListComplete, ViewAccurate, Listeners
  <2>3. CASE ci[f].uid # Nobody
    <3> DEFINE u == ci[f].uid
               left == RemoveClient(users, u, f)
               rest == Listeners(ci) \ {f}
               event == Announcement(left, u, f, FALSE)
    <3>1. u \in Uids
      BY <2>3 DEF TypeOK, Client
    <3>2. users' = left /\ view' = [Informed(rest, event, u) EXCEPT ![f] = Unknown]
      BY <1>3, <2>3 DEF CloseClient
    <3>3. \A g \in Fds \ {f} :
            view'[g] = IF g \notin rest \/ view[g] = Unknown THEN view[g]
                       ELSE IF out[g] > OutMax THEN Unknown
                       ELSE Believed(view[g], event, u)
      BY <3>2 DEF Informed
    <3>4. Listeners(ci)' = rest
      BY <2>1 DEF TypeOK, Listeners
    <3>5. ViewAccurate'
      <4> SUFFICES ASSUME NEW g \in rest, view'[g] # Unknown
                   PROVE  view'[g] = Online(left)
        BY <3>2, <3>4 DEF ViewAccurate
      <4>1. g \in Fds \ {f} /\ g \in Listeners(ci)
        BY DEF TypeOK, Listeners
      <4>2. view[g] # Unknown /\ view'[g] = Believed(view[g], event, u)
        BY <3>3, <4>1
      <4>3. view[g] = Online(users)
        BY <4>1, <4>2 DEF Listed, ViewAccurate
      <4> QED
        BY <3>1, <4>2, <4>3, RemovalAnnounced DEF TypeOK
    <3>6. UsersListComplete'
      BY <2>1, <3>2 DEF TypeOK, Listed, UsersListComplete, RemoveClient
    <3>7. Presented'
      <4> SUFFICES ASSUME NEW g \in clients \ {f}
                   PROVE  /\ ci[g].session = NoSession => ci[g].uid = Nobody
                          /\ ci[g].uid = Nobody => view'[g] = Unknown
        BY <2>1 DEF TypeOK, Presented
      <4>1. view[g] = Unknown => view'[g] = Unknown
        BY <3>3 DEF TypeOK
      <4> QED
        BY <4>1 DEF Listed, Presented
    <3> QED
      BY <3>5, <3>6, <3>7 DEF Listed
  <2> QED
    BY <2>2, <2>3
<1>4. ASSUME NEW f \in Fds, UNCHANGED <<conn, users, view>> PROVE Listed'
  BY <1>4 DEF Listed, Presented, UsersListComplete, ViewAccurate, Listeners, conn
<1> QED
  BY <1>1, <1>2, <1>3, <1>4 DEF Visit, VisitEnds

LEMMA ListedCore ==
    ASSUME TypeOK, Held, Listed, CoreCollect \/ Core \/ RedisOnMessage
    PROVE  Listed'
<1>1. CASE CoreCollect \/ CoreEnd \/ RedisOnMessage
  BY <1>1 DEF Listed, Presented, UsersListComplete, ViewAccurate, Listeners,
              CoreCollect, CoreEnd, RedisOnMessage, conn
<1>2. ASSUME NEW f \in Fds, CoreCheck(f) PROVE Listed'
  <2>1. clients' = clients
    BY <1>2 DEF CoreCheck
  <2>2. f \in clients /\ ci[f].session # NoSession /\ ci[f].uid = Nobody
    BY <1>2 DEF CoreCheck, Held, HeldSlotsLive, Pending
  <2>3. CASE CoreRefused(f)
    <3>1. /\ UNCHANGED <<users, view>>
          /\ \A g \in Fds : /\ ci[g].close_it => ci'[g].close_it
                            /\ ci'[g].session = ci[g].session /\ ci'[g].uid = ci[g].uid
      BY <2>2, <2>3 DEF TypeOK, Client, CoreRefused
    <3> QED
      BY <2>1, <3>1 DEF TypeOK, Listed, Presented, UsersListComplete, ViewAccurate, Listeners
  <2>4. ASSUME NEW u \in Uids, CorePassed(f, u) PROVE Listed'
    <3> DEFINE known == [ci EXCEPT ![f].uid = u]
               added == AddClient(users, u, f)
               event == Announcement(added, u, f, TRUE)
    <3>1. ci' = known /\ users' = added
          /\ view' = Informed(Listeners(known), event, u)
      BY <2>4 DEF CorePassed
    <3>2. /\ ci'[f].uid = u /\ ci'[f].session = ci[f].session
          /\ \A g \in Fds \ {f} : ci'[g] = ci[g]
      BY <3>1 DEF TypeOK, Client
    <3>3. Listeners(ci)' = Listeners(known)
      BY <2>1, <3>1 DEF Listeners
    <3>4. \A g \in Fds :
            view'[g] = IF g \notin Listeners(known) \/ view[g] = Unknown THEN view[g]
                       ELSE IF out[g] > OutMax THEN Unknown
                       ELSE Believed(view[g], event, u)
      BY <3>1 DEF Informed
    <3>5. view[f] = Unknown
      BY <2>2 DEF Listed, Presented
    <3>6. \A g \in clients : view[g] = Unknown => view'[g] = Unknown
      BY <3>4 DEF TypeOK
    <3>7. ViewAccurate'
      <4> SUFFICES ASSUME NEW g \in Listeners(known), view'[g] # Unknown
                   PROVE  view'[g] = Online(added)
        BY <3>1, <3>3 DEF ViewAccurate
      <4>1. g \in clients /\ g \in Fds /\ view[g] # Unknown /\ g # f
        BY <3>5, <3>6 DEF TypeOK, Listeners
      <4>2. view'[g] = Believed(view[g], event, u)
        BY <3>4, <4>1
      <4>3. g \in Listeners(ci)
        BY <4>1 DEF TypeOK, Listeners
      <4>4. view[g] = Online(users)
        BY <4>1, <4>3 DEF Listed, ViewAccurate
      <4> QED
        BY <4>2, <4>4, AdditionAnnounced DEF TypeOK
    <3>8. UsersListComplete'
      BY <2>1, <3>1, <3>2 DEF TypeOK, Listed, UsersListComplete, AddClient, RemoveClient
    <3>9. Presented'
      BY <2>1, <2>2, <3>2, <3>6, WsdAssumption DEF TypeOK, Listed, Presented, Nobody
    <3> QED
      BY <3>7, <3>8, <3>9 DEF Listed
  <2> QED
    BY <1>2, <2>3, <2>4 DEF CoreCheck
<1> QED
  BY <1>1, <1>2 DEF Core

LEMMA ListedStep == TypeOK /\ Held /\ Listed /\ [Next]_vars => Listed'
<1> SUFFICES ASSUME TypeOK, Held, Listed, [Next]_vars PROVE Listed'
  OBVIOUS
<1>1. CASE UNCHANGED vars
  BY <1>1 DEF Listed, Presented, UsersListComplete, ViewAccurate, Listeners, vars, conn
<1> QED
  BY <1>1, ListedPeers, ListedSelect, ListedRecv, ListedVisit, ListedCore DEF Next, Gone

LEMMA ListedAlways == Spec => [](TypeOK /\ Held /\ Listed)
BY HeldAlways, ListedInit, ListedStep, PTL DEF Spec
\* No authenticated client is missing from the users list, whatever its peers
\* send and however the three threads interleave.
THEOREM UsersAreListed == Spec => []UsersListComplete
<1>1. Listed => UsersListComplete
  BY DEF Listed
<1> QED
  BY <1>1, ListedAlways, PTL

\* Each listener that was told the list, and lost no frame since, knows who is
\* online: the announcements made by three threads add up to the list.
THEOREM ViewsAreAccurate == Spec => []ViewAccurate
<1>1. Listed => ViewAccurate
  BY DEF Listed
<1> QED
  BY <1>1, ListedAlways, PTL

-----------------------------------------------------------------------------
(* Without a second session on a connection the list is exact              *)

LEMMA ExactStep ==
    ~Relogin /\ TypeOK /\ Held /\ Listed /\ UsersListExact /\ [Next]_vars => UsersListExact'
<1> SUFFICES ASSUME ~Relogin, TypeOK, Held, Listed, UsersListExact, [Next]_vars
             PROVE  UsersListExact'
  OBVIOUS
<1> DEFINE entries == {<<ci[f].uid, f>> : f \in {g \in clients : ci[g].uid # Nobody}}
<1>1. ASSUME UNCHANGED <<clients, users>>, \A g \in Fds : ci'[g].uid = ci[g].uid
      PROVE  UsersListExact'
  <2>1. \A g \in clients : g \in Fds
    BY DEF TypeOK
  <2> QED
    BY <1>1, <2>1 DEF UsersListExact
<1>2. CASE UNCHANGED vars
  BY <1>2 DEF UsersListExact, vars, conn
<1>3. CASE Peers
  BY <1>1, <1>3, PeersFrame
<1>4. ASSUME CloseClients PROVE UsersListExact'
  <2>1. users \subseteq {<<ci[f].uid, f>> : f \in clients}
    BY DEF UsersListExact
  <2> QED
    BY <1>4, <2>1 DEF UsersListExact, CloseClients
<1>5. CASE StartPass \/ Restart
  BY <1>5 DEF UsersListExact, StartPass, Restart, conn
<1>6. ASSUME NEW f \in Fds, Accept(f) PROVE UsersListExact'
  <2>1. /\ ci'[f].uid = Nobody /\ clients' = clients \cup {f} /\ users' = users
        /\ f \notin clients /\ \A g \in Fds \ {f} : ci'[g] = ci[g]
    BY <1>6 DEF TypeOK, Accept, Fresh, FreeFds
  <2> QED
    BY <2>1 DEF TypeOK, UsersListExact
<1>7. CASE Recv
  <2>1. PICK f \in Fds :
          \/ RecvUpgrade(f) \/ RecvOtherHeader(f)
          \/ \E s \in Sessions : RecvSession(f, s)
          \/ \E to \in Uids \cup {Everyone} : RecvMessage(f, to)
          \/ RecvUnauthorized(f) \/ RecvUserslist(f) \/ RecvStatus(f)
          \/ RecvPingOrWrong(f) \/ RecvClose(f)
    BY <1>7 DEF Recv
  <2>2. CASE RecvUpgrade(f)
    BY <1>1, <2>2 DEF TypeOK, Client, RecvUpgrade
  <2>3. CASE RecvOtherHeader(f)
    BY <1>1, <2>3 DEF TypeOK, Client, RecvOtherHeader
  <2>4. CASE RecvClose(f)
    BY <1>1, <2>4 DEF TypeOK, Client, RecvClose
  <2>5. ASSUME NEW s \in Sessions, RecvSession(f, s) PROVE UsersListExact'
    <3>1. f \in clients /\ ci[f].session = NoSession
      BY <2>5 DEF RecvSession, ReadingWs, Reading
    <3>2. ci[f].uid = Nobody
      BY <3>1 DEF Listed, Presented
    <3>3. \A g \in Fds : ci'[g].uid = ci[g].uid
      BY <2>5, <3>2 DEF TypeOK, Client, RecvSession
    <3> QED
      BY <1>1, <2>5, <3>3 DEF RecvSession
  <2>6. CASE (\E to \in Uids \cup {Everyone} : RecvMessage(f, to))
             \/ RecvUnauthorized(f) \/ RecvPingOrWrong(f) \/ RecvUserslist(f)
    BY <1>1, <2>6 DEF RecvMessage, RecvUnauthorized, RecvPingOrWrong, RecvUserslist, conn
  <2>7. CASE RecvStatus(f)
    <3>1. <<ci[f].uid, f>> \in users
      BY <2>7 DEF Listed, UsersListComplete, RecvStatus, ReadingUser, ReadingWs, Reading
    <3>2. AddClient(users, ci[f].uid, f) = users
      BY <3>1, AddListed
    <3> QED
      BY <1>1, <2>7, <3>2 DEF RecvStatus, conn
  <2> QED
    BY <2>1, <2>2, <2>3, <2>4, <2>5, <2>6, <2>7
<1>8. CASE EndPass \/ \E f \in Fds : WriteFails(f)
  BY <1>1, <1>8 DEF EndPass, WriteFails, conn
<1>9. ASSUME NEW f \in Fds, VisitBegins(f) PROVE UsersListExact'
  BY <1>1, <1>9 DEF TypeOK, Client, VisitBegins
<1>10. ASSUME NEW f \in Fds, CloseClient(f) PROVE UsersListExact'
  <2>1. clients' = clients \ {f} /\ \A g \in Fds \ {f} : ci'[g] = ci[g]
    BY <1>10 DEF TypeOK, CloseClient
  <2>2. users' = users \ {<<ci[f].uid, f>>}
    <3>1. CASE ci[f].uid = Nobody
      <4>1. users' = users
        BY <1>10, <3>1 DEF CloseClient
      <4>2. <<ci[f].uid, f>> \notin users
        BY <3>1 DEF UsersListExact
      <4> QED
        BY <4>1, <4>2
    <3>2. CASE ci[f].uid # Nobody
      BY <1>10, <3>2 DEF CloseClient, RemoveClient
    <3> QED
      BY <3>1, <3>2
  <2> QED
    BY <2>1, <2>2 DEF TypeOK, UsersListExact
<1>11. ASSUME NEW f \in Fds, VisitEnds(f) PROVE UsersListExact'
  BY <1>1, <1>10, <1>11 DEF VisitEnds, conn
<1>12. CASE CoreCollect \/ CoreEnd \/ RedisOnMessage
  BY <1>1, <1>12 DEF CoreCollect, CoreEnd, RedisOnMessage, conn
<1>13. ASSUME NEW f \in Fds, CoreCheck(f) PROVE UsersListExact'
  <2>1. clients' = clients /\ f \in clients /\ ci[f].uid = Nobody
    BY <1>13 DEF CoreCheck, Held, HeldSlotsLive, Pending
  <2>2. CASE CoreRefused(f)
    BY <1>1, <2>1, <2>2 DEF TypeOK, Client, CoreRefused
  <2>3. ASSUME NEW u \in Uids, CorePassed(f, u) PROVE UsersListExact'
    <3>1. users' = users \cup {<<u, f>>}
      BY <2>3 DEF CorePassed, AddClient, RemoveClient
    <3>2. ci'[f].uid = u /\ \A g \in Fds \ {f} : ci'[g] = ci[g]
      BY <2>3 DEF TypeOK, Client, CorePassed
    <3>3. u # Nobody
      BY WsdAssumption DEF Nobody
    <3> QED
      BY <2>1, <3>1, <3>2, <3>3 DEF TypeOK, UsersListExact
  <2> QED
    BY <1>13, <2>2, <2>3 DEF CoreCheck
<1> QED
  BY <1>2, <1>3, <1>4, <1>5, <1>6, <1>7, <1>8, <1>9, <1>11, <1>12, <1>13
  DEF Next, Select, SelectFails, AcceptHigh, Visit, Core, Gone

\* As long as no connection presents a second session, the list that is kept by
\* hand on login, refusal and close has no entry of a client that is gone.
THEOREM ListIsExact == ~Relogin => (Spec => []UsersListExact)
<1> SUFFICES ASSUME ~Relogin PROVE Spec => []UsersListExact
  OBVIOUS
<1>1. Init => UsersListExact
  BY DEF Init, UsersListExact
<1>2. TypeOK /\ Held /\ Listed /\ UsersListExact /\ [Next]_vars => UsersListExact'
  BY ExactStep
<1> QED
  BY <1>1, <1>2, ListedAlways, PTL DEF Spec

-----------------------------------------------------------------------------
(* Authentication, while the passport answers                              *)

LEMMA AuthStep ==
    ~PassportFails /\ TypeOK /\ Held /\ AuthSound /\ [Next]_vars => AuthSound'
<1> SUFFICES ASSUME ~PassportFails, TypeOK, Held, AuthSound, [Next]_vars
             PROVE  AuthSound'
  OBVIOUS
<1>1. ASSUME clients' \subseteq clients,
             \A g \in Fds : /\ ci'[g].uid \in {ci[g].uid, Nobody}
                            /\ ci'[g].session = ci[g].session \/ ci'[g].uid = Nobody
      PROVE  AuthSound'
  BY <1>1 DEF TypeOK, AuthSound
<1>2. CASE UNCHANGED vars
  BY <1>2 DEF AuthSound, vars, conn
<1>3. CASE Peers
  BY <1>1, <1>3, PeersFrame
<1>4. CASE CloseClients
  BY <1>4 DEF AuthSound, CloseClients
<1>5. CASE StartPass \/ Restart \/ EndPass \/ \E f \in Fds : WriteFails(f)
  BY <1>5 DEF AuthSound, StartPass, Restart, EndPass, WriteFails, conn
<1>6. ASSUME NEW f \in Fds, Accept(f) PROVE AuthSound'
  <2>1. /\ ci'[f].uid = Nobody /\ clients' = clients \cup {f}
        /\ \A g \in Fds \ {f} : ci'[g] = ci[g]
    BY <1>6 DEF TypeOK, Accept, Fresh
  <2> QED
    BY <2>1 DEF TypeOK, AuthSound
<1>7. CASE Recv
  <2>1. PICK f \in Fds :
          \/ RecvUpgrade(f) \/ RecvOtherHeader(f)
          \/ \E s \in Sessions : RecvSession(f, s)
          \/ \E to \in Uids \cup {Everyone} : RecvMessage(f, to)
          \/ RecvUnauthorized(f) \/ RecvUserslist(f) \/ RecvStatus(f)
          \/ RecvPingOrWrong(f) \/ RecvClose(f)
    BY <1>7 DEF Recv
  <2>2. CASE RecvUpgrade(f)
    BY <1>1, <2>2 DEF TypeOK, Client, RecvUpgrade
  <2>3. CASE RecvOtherHeader(f)
    BY <1>1, <2>3 DEF TypeOK, Client, RecvOtherHeader
  <2>4. CASE RecvClose(f)
    BY <1>1, <2>4 DEF TypeOK, Client, RecvClose
  <2>5. ASSUME NEW s \in Sessions, RecvSession(f, s) PROVE AuthSound'
    BY <1>1, <2>5 DEF TypeOK, Client, RecvSession
  <2>6. CASE (\E to \in Uids \cup {Everyone} : RecvMessage(f, to))
             \/ RecvUnauthorized(f) \/ RecvPingOrWrong(f) \/ RecvUserslist(f) \/ RecvStatus(f)
    BY <2>6 DEF AuthSound, RecvMessage, RecvUnauthorized, RecvPingOrWrong, RecvUserslist,
                RecvStatus, conn
  <2> QED
    BY <2>1, <2>2, <2>3, <2>4, <2>5, <2>6
<1>8. ASSUME NEW f \in Fds, VisitBegins(f) PROVE AuthSound'
  BY <1>1, <1>8 DEF TypeOK, Client, VisitBegins
<1>9. ASSUME NEW f \in Fds, VisitEnds(f) PROVE AuthSound'
  <2>1. CASE CloseClient(f)
    BY <1>1, <2>1 DEF TypeOK, Client, CloseClient, Fresh
  <2>2. CASE UNCHANGED conn
    BY <2>2 DEF AuthSound, conn
  <2> QED
    BY <1>9, <2>1, <2>2 DEF VisitEnds, conn
<1>10. CASE CoreCollect \/ CoreEnd \/ RedisOnMessage
  BY <1>10 DEF AuthSound, CoreCollect, CoreEnd, RedisOnMessage, conn
<1>11. ASSUME NEW f \in Fds, CoreCheck(f) PROVE AuthSound'
  <2>1. clients' = clients /\ f \in clients /\ ci[f].session # NoSession
    BY <1>11 DEF CoreCheck, Held, HeldSlotsLive, Pending
  <2>2. CASE CoreRefused(f)
    BY <1>1, <2>1, <2>2 DEF TypeOK, Client, CoreRefused
  <2>3. ASSUME CorePassed(f, Owner[ci[f].session]) PROVE AuthSound'
    <3>1. /\ ci'[f].uid = Owner[ci[f].session] /\ ci'[f].session = ci[f].session
          /\ \A g \in Fds \ {f} : ci'[g] = ci[g]
      BY <2>3 DEF TypeOK, Client, CorePassed
    <3> QED
      BY <2>1, <3>1 DEF TypeOK, AuthSound
  <2> QED
    BY <1>11, <2>2, <2>3 DEF CoreCheck
<1> QED
  BY <1>2, <1>3, <1>4, <1>5, <1>6, <1>7, <1>8, <1>9, <1>10, <1>11
  DEF Next, Select, SelectFails, AcceptHigh, Visit, Core, Gone

LEMMA AuthAlways == ~PassportFails => (Spec => [](TypeOK /\ Held /\ AuthSound))
<1> SUFFICES ASSUME ~PassportFails PROVE Spec => [](TypeOK /\ Held /\ AuthSound)
  OBVIOUS
<1>1. Init => AuthSound
  BY DEF Init, AuthSound
<1>2. TypeOK /\ Held /\ AuthSound /\ [Next]_vars => AuthSound'
  BY AuthStep
<1> QED
  BY <1>1, <1>2, HeldAlways, PTL DEF Spec

\* As long as every request to the passport is answered, a client has the uid
\* of the session it presented last and no other, though core asks while the
\* peers go on presenting sessions.
THEOREM AuthIsSound == ~PassportFails => (Spec => []AuthSound)
BY AuthAlways, PTL

-----------------------------------------------------------------------------
(* Private messages                                                        *)

LEMMA PrivateNext ==
    TypeOK /\ AuthSound /\ [Next]_vars => [PrivateStep]_vars
<1> SUFFICES ASSUME TypeOK, AuthSound, Next PROVE PrivateStep
  BY DEF vars
<1>1. CASE RedisOnMessage
  BY <1>1 DEF TypeOK, AuthSound, PrivateStep, RedisOnMessage, SentTo, Listeners
<1>2. ASSUME chan' = chan PROVE PrivateStep
  <2>1. ASSUME chan # <<>> PROVE Tail(chan) # chan
    BY <2>1 DEF TypeOK
  <2> QED
    BY <1>2, <2>1 DEF PrivateStep
<1>3. ASSUME NEW to \in Uids \cup {Everyone}, chan' = Append(chan, to) PROVE PrivateStep
  <2>1. ASSUME chan # <<>> PROVE Tail(chan) # Append(chan, to)
    BY <2>1 DEF TypeOK
  <2> QED
    BY <1>3, <2>1 DEF PrivateStep
<1>4. CASE RedisOnMessage \/ chan' = chan
           \/ \E to \in Uids \cup {Everyone} : chan' = Append(chan, to)
  BY <1>1, <1>2, <1>3, <1>4
<1>5. CASE Peers
  BY <1>4, <1>5 DEF Peers, PeerConnect, PeerClose, PeerReset, PeerGoes, TimePasses,
                    OthersPublish
<1>6. CASE Select \/ Restart \/ Gone
  BY <1>4, <1>6 DEF Select, SelectFails, StartPass, Accept, AcceptHigh, CloseClients,
                    Restart, Gone, vars
<1>7. CASE Recv
  BY <1>4, <1>7 DEF Recv, RecvUpgrade, RecvOtherHeader, RecvSession, RecvMessage,
                    RecvUnauthorized, RecvUserslist, RecvStatus, RecvPingOrWrong, RecvClose,
                    Publish, Everyone
<1>8. CASE Visit
  BY <1>4, <1>8 DEF Visit, EndPass, VisitBegins, VisitEnds, WriteFails
<1>9. CASE CoreCollect \/ Core
  BY <1>4, <1>9 DEF Core, CoreCollect, CoreCheck, CoreEnd
<1> QED
  BY <1>1, <1>4, <1>5, <1>6, <1>7, <1>8, <1>9 DEF Next

\* A message for one user reaches the buffers of that user's connections only.
THEOREM DeliveryIsPrivate == ~PassportFails => (Spec => PrivateDelivery)
<1> SUFFICES ASSUME ~PassportFails PROVE Spec => PrivateDelivery
  OBVIOUS
<1>1. Spec => [](TypeOK /\ Held /\ AuthSound)
  BY AuthAlways
<1> QED
  BY <1>1, PrivateNext, PTL DEF Spec, PrivateDelivery
-----------------------------------------------------------------------------
(* Marked clients                                                          *)

LEMMA CloseNext == TypeOK /\ Held /\ [Next]_vars => [CloseStep]_vars
<1> SUFFICES ASSUME TypeOK, Held, Next,
                    NEW f \in clients, ci[f].close_it, cur # f
             PROVE  f \notin clients' \/ (ci'[f].close_it /\ out'[f] = out[f])
  BY DEF CloseStep, vars
<1>1. f \in Fds /\ f \notin todo /\ f \notin batch
  BY DEF TypeOK, Held, HeldSlotsLive, Pending, UnmarkedAhead
<1>2. CASE Peers
  BY <1>1, <1>2, PeersFrame
<1>3. CASE CloseClients
  BY <1>3 DEF CloseClients
<1>4. CASE StartPass \/ Restart \/ Gone \/ EndPass \/ CoreCollect \/ CoreEnd
           \/ \E g \in Fds : WriteFails(g)
  BY <1>4 DEF StartPass, Restart, Gone, EndPass, CoreCollect, CoreEnd, WriteFails, vars, conn
<1>5. ASSUME NEW g \in Fds, Accept(g)
      PROVE  ci'[f].close_it /\ out'[f] = out[f]
  <2>1. g # f
    BY <1>5 DEF Accept, FreeFds
  <2> QED
    BY <1>1, <1>5, <2>1 DEF TypeOK, Accept
<1>6. CASE Recv
  <2>1. PICK g \in Fds :
          \/ RecvUpgrade(g) \/ RecvOtherHeader(g)
          \/ \E s \in Sessions : RecvSession(g, s)
          \/ \E to \in Uids \cup {Everyone} : RecvMessage(g, to)
          \/ RecvUnauthorized(g) \/ RecvUserslist(g) \/ RecvStatus(g)
          \/ RecvPingOrWrong(g) \/ RecvClose(g)
    BY <1>6 DEF Recv
  <2>2. g # f
    BY <2>1 DEF RecvUpgrade, RecvOtherHeader, RecvSession, RecvMessage, RecvUnauthorized,
                RecvUserslist, RecvStatus, RecvPingOrWrong, RecvClose,
                ReadingHeader, ReadingUser, ReadingWs, Reading
  <2>3. ci'[f] = ci[f]
    BY <1>1, <2>1, <2>2 DEF TypeOK, RecvUpgrade, RecvOtherHeader, RecvSession, RecvMessage,
                RecvUnauthorized, RecvUserslist, RecvStatus, RecvPingOrWrong, RecvClose, conn
  <2>4. out'[f] = out[f]
    BY <1>1, <2>1, <2>2 DEF SentTo, RecvUpgrade, RecvOtherHeader, RecvSession, RecvMessage,
                RecvUnauthorized, RecvUserslist, RecvStatus, RecvPingOrWrong, RecvClose
  <2> QED
    BY <2>3, <2>4
<1>7. ASSUME NEW g \in Fds, VisitBegins(g)
      PROVE  ci'[f].close_it /\ out'[f] = out[f]
  <2>1. g # f
    BY <1>1, <1>7 DEF VisitBegins
  <2> QED
    BY <1>1, <1>7, <2>1 DEF TypeOK, VisitBegins, SentTo
<1>8. ASSUME NEW g \in Fds, VisitEnds(g)
      PROVE  ci'[f].close_it /\ out'[f] = out[f]
  <2>1. g # f
    BY <1>8 DEF VisitEnds
  <2>2. f \notin Listeners(ci)
    BY DEF Listeners
  <2>3. ci'[f] = ci[f]
    BY <1>1, <1>8, <2>1 DEF TypeOK, VisitEnds, CloseClient, conn
  <2>4. out'[f] = out[f]
    BY <1>1, <1>8, <2>1, <2>2 DEF TypeOK, VisitEnds, CloseClient, SentTo
  <2> QED
    BY <2>3, <2>4
<1>9. ASSUME NEW g \in Fds, CoreCheck(g)
      PROVE  ci'[f].close_it /\ out'[f] = out[f]
  <2>1. g # f
    BY <1>1, <1>9 DEF CoreCheck
  <2>2. CASE CoreRefused(g)
    BY <1>1, <2>1, <2>2 DEF TypeOK, CoreRefused
  <2>3. ASSUME NEW u, CorePassed(g, u)
        PROVE  ci'[f].close_it /\ out'[f] = out[f]
    <3>1. ci'[f] = ci[f]
      BY <1>1, <2>1, <2>3 DEF TypeOK, CorePassed
    <3>2. f \notin Listeners([ci EXCEPT ![g].uid = u])
      BY <1>1, <2>1 DEF TypeOK, Listeners
    <3> QED
      BY <1>1, <2>1, <2>3, <3>1, <3>2 DEF CorePassed, SentTo
  <2> QED
    BY <1>9, <2>2, <2>3 DEF CoreCheck
<1>10. CASE RedisOnMessage
  BY <1>1, <1>10 DEF RedisOnMessage, Listeners, SentTo, conn
<1> QED
  BY <1>2, <1>3, <1>4, <1>5, <1>6, <1>7, <1>8, <1>9, <1>10
  DEF Next, Select, SelectFails, AcceptHigh, Visit, Core

\* A client that has been marked is left alone by the three threads: it stays
\* marked and gets no further frame until the visit that closes it.
THEOREM ClosingIsFinal == Spec => CloseIsFinal
BY HeldAlways, CloseNext, PTL DEF Spec, CloseIsFinal
=============================================================================
