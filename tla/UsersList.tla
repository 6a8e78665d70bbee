------------------------------ MODULE UsersList ------------------------------
(***************************************************************************)
(* The users list of the wsd daemon (api/websockets/wsd/users.c), as the   *)
(* set of its <<uid, cid>> pairs: the JSON array of users, each with its   *)
(* array of clients, holds a pair for every client of every user.  A user  *)
(* without clients is removed from the array, so the users are exactly the *)
(* first components.  Operators only: the state lives in Wsd.              *)
(***************************************************************************)
EXTENDS Naturals

\* The users some client of which is listed.
Online(users) == {e[1] : e \in users}

\* The clients listed for user u.
ClientsOf(users, u) == {e[2] : e \in {x \in users : x[1] = u}}

\* userslist_getrm_user with cid_remove > 0.
RemoveClient(users, u, c) == users \ {<<u, c>>}

\* userslist_mng with add_it == 1: the pair is taken out and put back.
AddClient(users, u, c) == RemoveClient(users, u, c) \cup {<<u, c>>}

\* Variant: every disconnection is announced as a quit.
AnnouncementQuits(users, u, c, add) ==
    IF ~add THEN "quit"
    ELSE IF ClientsOf(users, u) = {c} THEN "login"
    ELSE "connected"

\* What userslist_mng_chatanswer announces once client c of user u has been
\* removed (add = FALSE) or added (add = TRUE) and the list is users.
Announcement(users, u, c, add) ==
    IF ClientsOf(users, u) = {} THEN "quit"
    ELSE IF ~add THEN "disconnected"
    ELSE IF ClientsOf(users, u) = {c} THEN "login"
    ELSE "connected"

\* The set of users a listener believes in after the announcement, if it
\* believed in v before.
Believed(v, event, u) ==
    CASE event = "login" -> v \cup {u}
      [] event = "quit"  -> v \ {u}
      [] OTHER           -> v
=============================================================================
