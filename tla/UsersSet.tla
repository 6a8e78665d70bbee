------------------------------- MODULE UsersSet -------------------------------
(* What the users list promises: for each client of a user one entry, with the *)
(* status the client told last, and announcements that tell those who count    *)
(* users from them who is online.                                              *)
EXTENDS UsersList

CONSTANTS Uids, Cids
VARIABLES entries, announced   \* <<uid, cid, active>>; the last announcement

Init == entries = {} /\ announced = "none"

Pairs(set) == {<<e[1], e[2]>> : e \in set}

\* Number 0 stands for all clients of a user.
Others(u, c) == {e \in entries : e[1] # u \/ (c # 0 /\ e[2] # c)}

Add(u, c, active) ==
    /\ entries' = Others(u, c) \cup {<<u, c, active>>}
    /\ announced' = Announcement(Pairs(entries'), u, c, TRUE)

Remove(u, c) ==
    /\ entries' = Others(u, c)
    /\ announced' = Announcement(Pairs(entries'), u, c, FALSE)

Next == \E u \in Uids, c \in Cids : Remove(u, c) \/ \E active \in {0, 1} : Add(u, c, active)

Spec == Init /\ [][Next]_<<entries, announced>>
=============================================================================
