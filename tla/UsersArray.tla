------------------------------ MODULE UsersArray ------------------------------
(***************************************************************************)
(* The users list as api/websockets/wsd/users.c keeps it: an array of the  *)
(* users, each with the array of its clients, searched, shortened and      *)
(* extended in place, one step for each turn of a loop.  Records of other  *)
(* daemons, of which the source checks host and port, are never in it.     *)
(* The names, addresses and pages of clients are left out, and so is the   *)
(* text that is made of the list.                                          *)
(***************************************************************************)
EXTENDS Naturals, Sequences, SequencesExt

CONSTANTS
    Uids,
    Cids,      \* socket numbers, of which 0 is one: main.c:190 closes it
    MaxListed  \* bound: clients listed

ASSUME UsersArrayAssumption == Cids \subseteq Nat

VARIABLES
    list,      \* users_json
    announced, \* the state that userslist_mng returned last
    call,      \* its last call, or the one it is in
    walk,      \* where userslist_getrm_user is: in which loop, i, j, and the user found
    before     \* history: what the list held when the call began

uvars == <<list, announced, call, walk, before>>

\* A client logs in or tells its status; or it is refused or closed.  It may be
\* listed for another user too, as after a second session.
Calls == {c \in [uid : Uids, cid : Cids, add : BOOLEAN, active : {0, 1}] : c.add \/ c.active = 0}

Idle == [loop |-> "none", i |-> 1, j |-> 1, found |-> 0]

\* What the arrays of users say, a triple for each client.
Entries(users) ==
    UNION {{<<user.uid, client.id, client.active>> : client \in ToSet(user.clients)} : user \in ToSet(users)}

Listed == FoldLeft(LAMBDA n, user : n + Len(user.clients), 0, list)

UsersInit == list = <<>> /\ announced = "none" /\ call \in Calls /\ walk = Idle /\ before = {}

Begin ==
    /\ walk.loop = "none"
    /\ call' \in Calls
    /\ call'.add => Listed < MaxListed
    /\ walk' = [Idle EXCEPT !.loop = "users"]
    /\ before' = Entries(list)
    /\ UNCHANGED <<list, announced>>
-----------------------------------------------------------------------------
(* userslist_getrm_user, with a cid_remove of 0 or more as all calls have  *)

AtUser == walk.loop = "users" /\ walk.i <= Len(list)
Mine == list[walk.i].uid = call.uid

\* The first user found, when it is not to go at all.
Spared == walk.found = 0 /\ call.cid > 0

PassUser ==
    /\ AtUser /\ ~Mine
    /\ walk' = [walk EXCEPT !.i = @ + 1]
    /\ UNCHANGED <<list, announced, call, before>>

\* json_array_remove and i--, for the next user takes the place.
DropUser ==
    /\ AtUser /\ Mine /\ ~Spared
    /\ list' = RemoveAt(list, walk.i)
    /\ UNCHANGED <<announced, call, walk, before>>

EnterClients ==
    /\ AtUser /\ Mine /\ Spared
    /\ walk' = [walk EXCEPT !.loop = "clients", !.j = 1]
    /\ UNCHANGED <<list, announced, call, before>>

Clients == list[walk.i].clients

\* Variant: the user is only looked for, as with a cid_remove below 0.
VisitClientKeeping ==
    /\ walk.loop = "clients" /\ walk.j <= Len(Clients)
    /\ walk' = [walk EXCEPT !.j = @ + 1]
    /\ UNCHANGED <<list, announced, call, before>>

\* The inner loop does not step back: what takes the place of the client is skipped.
VisitClient ==
    /\ walk.loop = "clients" /\ walk.j <= Len(Clients)
    /\ list' = IF Clients[walk.j].id = call.cid
               THEN [list EXCEPT ![walk.i].clients = RemoveAt(@, walk.j)] ELSE list
    /\ walk' = [walk EXCEPT !.j = @ + 1]
    /\ UNCHANGED <<announced, call, before>>

\* Variant: the last client gone, its user is what the call returns.
LeaveClientsFound ==
    /\ walk.loop = "clients" /\ walk.j > Len(Clients)
    /\ list' = IF Clients = <<>> THEN RemoveAt(list, walk.i) ELSE list
    /\ walk' = [walk EXCEPT !.loop = "users", !.i = IF Clients = <<>> THEN @ ELSE @ + 1, !.found = walk.i]
    /\ UNCHANGED <<announced, call, before>>

\* A user without clients goes, and one with others is found.
LeaveClients ==
    /\ walk.loop = "clients" /\ walk.j > Len(Clients)
    /\ \/ /\ Clients = <<>>
          /\ list' = RemoveAt(list, walk.i)
          /\ walk' = [walk EXCEPT !.loop = "users"]
       \/ /\ Clients # <<>>
          /\ walk' = [walk EXCEPT !.loop = "users", !.i = @ + 1, !.found = walk.i]
          /\ UNCHANGED list
    /\ UNCHANGED <<announced, call, before>>

Walked == walk.loop = "users" /\ walk.i > Len(list)
-----------------------------------------------------------------------------
(* userslist_mng and userslist_mng_chatanswer, after the walk              *)

Returns == walk' = Idle /\ before' = {} /\ UNCHANGED call

Removed ==
    /\ Walked /\ ~call.add
    /\ announced' = IF walk.found = 0 THEN "quit"
                    ELSE IF list[walk.found].clients = <<>> THEN "quit" ELSE "disconnected"
    /\ UNCHANGED list
    /\ Returns

\* Variant: the user is appended again.
AddedAgain ==
    /\ Walked /\ call.add
    /\ list' = Append(list, [uid |-> call.uid, clients |-> <<[id |-> call.cid, active |-> call.active]>>])
    /\ announced' = "login"
    /\ Returns

\* The user is made if it was not found, and the client appended to it.
Added ==
    /\ Walked /\ call.add
    /\ LET users == IF walk.found = 0 THEN Append(list, [uid |-> call.uid, clients |-> <<>>]) ELSE list
           at == IF walk.found = 0 THEN Len(list) + 1 ELSE walk.found
       IN  /\ list' = [users EXCEPT ![at].clients = Append(@, [id |-> call.cid, active |-> call.active])]
           /\ announced' = IF Len(users[at].clients) = 0 THEN "login" ELSE "connected"
    /\ Returns

UsersNext ==
    \/ Begin
    \/ PassUser \/ DropUser \/ EnterClients \/ VisitClient \/ LeaveClients
    \/ Removed \/ Added

UsersSpec == UsersInit /\ [][UsersNext]_uvars
-----------------------------------------------------------------------------
(* Properties                                                              *)

UsersTypeOK ==
    /\ list \in Seq([uid : Uids, clients : Seq([id : Cids, active : {0, 1}])])
    /\ announced \in {"none", "quit", "disconnected", "login", "connected"}
    /\ call \in Calls
    /\ walk \in [loop : {"none", "users", "clients"}, i : Nat, j : Nat, found : 0 .. Len(list)]
    /\ before \subseteq Uids \X Cids \X {0, 1}

\* However users and clients come and go, no user and no client of it is listed
\* twice, and between the calls no user without clients: the loops of
\* userslist_getrm_user, one of which steps back after a removal while the other does
\* not, count on it.
ListedOnce ==
    /\ \A a, b \in DOMAIN list : list[a].uid = list[b].uid => a = b
    /\ \A a \in DOMAIN list : \A k, l \in DOMAIN list[a].clients :
          list[a].clients[k].id = list[a].clients[l].id => k = l
    /\ walk.loop = "none" => \A a \in DOMAIN list : list[a].clients # <<>>

\* Call by call, the arrays hold what UsersList says: no client with an old status,
\* none lost when those before it are removed; and what is announced is told by who is
\* listed.  A client on socket 0 takes the other clients of its user with it, for to
\* userslist_getrm_user 0 means all.
Set == INSTANCE UsersSet WITH entries <- IF walk.loop = "none" THEN Entries(list) ELSE before
IsUsersList == Set!Spec
=============================================================================
