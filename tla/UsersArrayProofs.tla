--------------------------- MODULE UsersArrayProofs ---------------------------
(***************************************************************************)
(* The arrays of users.c implement the users list as a set of triples, for *)
(* any users and socket numbers: what the loops that shorten the arrays    *)
(* while they walk them find, remove and leave.                            *)
(***************************************************************************)
EXTENDS UsersArray, SequenceTheorems, TLAPS

Client == [id : Cids, active : {0, 1}]
User == [uid : Uids, clients : Seq(Client)]
Triple == Uids \X Cids \X {0, 1}
-----------------------------------------------------------------------------
(* Arrays                                                                  *)

\* json_array_remove: what stood behind the i-th item moves up by one.
LEMMA RemoveAtShortens ==
    ASSUME NEW S, NEW q \in Seq(S), NEW i \in DOMAIN q
    PROVE  /\ RemoveAt(q, i) \in Seq(S)
           /\ Len(RemoveAt(q, i)) = Len(q) - 1
           /\ DOMAIN RemoveAt(q, i) = 1 .. Len(q) - 1
           /\ \A k \in 1 .. Len(q) - 1 : RemoveAt(q, i)[k] = IF k < i THEN q[k] ELSE q[k + 1]
<1> DEFINE front == SubSeq(q, 1, i - 1)
           back == SubSeq(q, i + 1, Len(q))
<1>1. i \in 1 .. Len(q) /\ Len(q) \in Nat
  OBVIOUS
<1>2. front \in Seq(S) /\ Len(front) = i - 1 /\ \A k \in 1 .. i - 1 : front[k] = q[k]
  BY <1>1
<1>3. back \in Seq(S) /\ Len(back) = Len(q) - i /\ \A k \in 1 .. Len(q) - i : back[k] = q[k + i]
  BY <1>1
<1> HIDE DEF front, back
<1>4. front \o back \in Seq(S) /\ Len(front \o back) = Len(q) - 1
  BY <1>1, <1>2, <1>3
<1>5. ASSUME NEW k \in 1 .. Len(q) - 1
      PROVE  (front \o back)[k] = IF k < i THEN q[k] ELSE q[k + 1]
  <2>1. CASE k < i
    BY <1>1, <1>2, <1>3, <2>1
  <2>2. CASE ~(k < i)
    <3>1. k \in 1 .. Len(front) + Len(back) /\ ~(k <= Len(front))
      <4>1. Len(front) + Len(back) = Len(q) - 1 /\ Len(front) = i - 1
        BY <1>1, <1>2, <1>3
      <4> QED
        BY <1>1, <2>2, <4>1
    <3>2. (front \o back)[k] = back[k - (i - 1)]
      BY <1>2, <1>3, <3>1, ConcatProperties
    <3> QED
      BY <1>1, <1>3, <2>2, <3>2
  <2> QED
    BY <2>1, <2>2
<1>6. RemoveAt(q, i) = front \o back
  BY DEF RemoveAt, front, back
<1>7. DOMAIN (front \o back) = 1 .. Len(q) - 1
  BY <1>4
<1> QED
  BY <1>4, <1>5, <1>6, <1>7

Says(user, e) == \E k \in DOMAIN user.clients : e = <<user.uid, user.clients[k].id, user.clients[k].active>>

\* A triple is in the list when some client of some user says it.
LEMMA EntryIff ==
    ASSUME NEW L \in Seq(User), NEW e
    PROVE  e \in Entries(L) <=> \E a \in DOMAIN L : Says(L[a], e)
<1> DEFINE Of(user) == {<<user.uid, client.id, client.active>> : client \in ToSet(user.clients)}
<1>1. e \in Entries(L) <=> \E user \in ToSet(L) : e \in Of(user)
  BY DEF Entries
<1>2. ToSet(L) = {L[a] : a \in DOMAIN L}
  BY DEF ToSet
<1>3. ASSUME NEW user PROVE e \in Of(user) <=> Says(user, e)
  BY DEF ToSet, Says
<1> HIDE DEF Of
<1> QED
  BY <1>1, <1>2, <1>3

LEMMA EntryTyped == ASSUME NEW L \in Seq(User) PROVE Entries(L) \subseteq Triple
<1> SUFFICES ASSUME NEW e \in Entries(L) PROVE e \in Triple
  OBVIOUS
<1>1. PICK a \in DOMAIN L : Says(L[a], e)
  BY EntryIff
<1>2. PICK k \in DOMAIN L[a].clients : e = <<L[a].uid, L[a].clients[k].id, L[a].clients[k].active>>
  BY <1>1 DEF Says
<1>3. L[a] \in User
  OBVIOUS
<1>4. L[a].clients[k] \in Client
  BY <1>3 DEF User
<1> QED
  BY <1>2, <1>3, <1>4 DEF User, Client, Triple

\* A user taken out of the array takes with it only what its own clients say.
LEMMA UserDropped ==
    ASSUME NEW L \in Seq(User), NEW i \in DOMAIN L, NEW e, ~Says(L[i], e)
    PROVE  e \in Entries(RemoveAt(L, i)) <=> e \in Entries(L)
<1> DEFINE M == RemoveAt(L, i)
<1>1. /\ M \in Seq(User) /\ DOMAIN M = 1 .. Len(L) - 1
      /\ \A a \in 1 .. Len(L) - 1 : M[a] = IF a < i THEN L[a] ELSE L[a + 1]
  BY RemoveAtShortens
<1>2. DOMAIN L = 1 .. Len(L) /\ Len(L) \in Nat
  OBVIOUS
<1> HIDE DEF M
<1>3. (e \in Entries(M) <=> \E a \in DOMAIN M : Says(M[a], e)) /\ (e \in Entries(L) <=> \E a \in DOMAIN L : Says(L[a], e))
  BY <1>1, EntryIff
<1>4. ASSUME NEW a \in DOMAIN M, Says(M[a], e) PROVE \E b \in DOMAIN L : Says(L[b], e)
  BY <1>1, <1>2, <1>4
<1>5. ASSUME NEW b \in DOMAIN L, Says(L[b], e) PROVE \E a \in DOMAIN M : Says(M[a], e)
  <2>1. CASE b < i
    BY <1>1, <1>2, <1>5, <2>1
  <2>2. CASE b > i
    <3>1. b - 1 \in DOMAIN M /\ ~(b - 1 < i) /\ (b - 1) + 1 = b
      BY <1>1, <1>2, <2>2
    <3>2. M[b - 1] = L[b]
      BY <1>1, <3>1
    <3> QED
      BY <1>5, <3>1, <3>2
  <2> QED
    BY <1>2, <1>5, <2>1, <2>2
<1>6. e \in Entries(M) <=> e \in Entries(L)
  BY <1>3, <1>4, <1>5
<1> QED
  BY <1>6 DEF M

\* A client taken out of its user's array takes only itself.
LEMMA ClientTaken ==
    ASSUME NEW L \in Seq(User), NEW i \in DOMAIN L, NEW j \in DOMAIN L[i].clients
    PROVE  LET M == [L EXCEPT ![i].clients = RemoveAt(@, j)]
           IN  /\ M \in Seq(User) /\ DOMAIN M = DOMAIN L
               /\ M[i] = [uid |-> L[i].uid, clients |-> RemoveAt(L[i].clients, j)]
               /\ \A a \in DOMAIN L : a # i => M[a] = L[a]
               /\ \A e : e # <<L[i].uid, L[i].clients[j].id, L[i].clients[j].active>> =>
                            (e \in Entries(M) <=> e \in Entries(L))
<1> DEFINE old == L[i].clients
           new == RemoveAt(old, j)
           it == [uid |-> L[i].uid, clients |-> new]
           M == [L EXCEPT ![i].clients = RemoveAt(@, j)]
<1>0. L[i] \in User
  OBVIOUS
<1>1. L[i].uid \in Uids /\ old \in Seq(Client) /\ L[i] = [uid |-> L[i].uid, clients |-> old]
  BY <1>0 DEF User
<1>2. DOMAIN old = 1 .. Len(old) /\ Len(old) \in Nat
  BY <1>1
<1>3. /\ new \in Seq(Client) /\ DOMAIN new = 1 .. Len(old) - 1
      /\ \A k \in 1 .. Len(old) - 1 : new[k] = IF k < j THEN old[k] ELSE old[k + 1]
  BY <1>1, RemoveAtShortens
<1> HIDE DEF new
<1>4. [L[i] EXCEPT !.clients = new] = it /\ it \in User
  <2>1. [L[i] EXCEPT !.clients = new] = it
    BY <1>1
  <2>2. it \in User
    BY <1>1, <1>3 DEF User
  <2> QED
    BY <2>1, <2>2
<1>5. M = [L EXCEPT ![i] = it]
  BY <1>4 DEF new
<1> HIDE DEF it, M
<1>6. M \in Seq(User) /\ DOMAIN M = DOMAIN L /\ M[i] = it /\ \A a \in DOMAIN L : a # i => M[a] = L[a]
  BY <1>4, <1>5
<1>7. ASSUME NEW e, e # <<L[i].uid, old[j].id, old[j].active>>
      PROVE  e \in Entries(M) <=> e \in Entries(L)
  <2>1. (e \in Entries(M) <=> \E a \in DOMAIN M : Says(M[a], e)) /\ (e \in Entries(L) <=> \E a \in DOMAIN L : Says(L[a], e))
    BY <1>6, EntryIff
  <2>2. Says(it, e) <=> \E k \in DOMAIN new : e = <<L[i].uid, new[k].id, new[k].active>>
    BY DEF Says, it
  <2>3. Says(L[i], e) <=> \E k \in DOMAIN old : e = <<L[i].uid, old[k].id, old[k].active>>
    BY DEF Says
  <2>4. j \in DOMAIN old
    OBVIOUS
  <2> HIDE DEF old
  <2>5. ASSUME NEW k \in DOMAIN new, e = <<L[i].uid, new[k].id, new[k].active>> PROVE Says(L[i], e)
    <3>1. \E l \in DOMAIN old : new[k] = old[l]
      <4>1. CASE k < j
        BY <1>2, <1>3, <2>4, <4>1
      <4>2. CASE ~(k < j)
        <5>1. k + 1 \in DOMAIN old /\ new[k] = old[k + 1]
          BY <1>2, <1>3, <2>4, <4>2
        <5> QED
          BY <5>1
      <4> QED
        BY <4>1, <4>2
    <3> QED
      BY <2>3, <2>5, <3>1
  <2>6. ASSUME NEW k \in DOMAIN old, e = <<L[i].uid, old[k].id, old[k].active>> PROVE Says(it, e)
    <3>1. CASE k < j
      <4>1. k \in DOMAIN new /\ new[k] = old[k]
        BY <1>2, <1>3, <2>4, <3>1
      <4> QED
        BY <2>2, <2>6, <4>1
    <3>2. CASE k > j
      <4>1. k - 1 \in DOMAIN new /\ ~(k - 1 < j) /\ (k - 1) + 1 = k
        BY <1>2, <1>3, <2>4, <3>2
      <4>2. new[k - 1] = old[k]
        BY <1>3, <4>1
      <4> QED
        BY <2>2, <2>6, <4>1, <4>2
    <3> QED
      BY <1>2, <1>7, <2>4, <2>6, <3>1, <3>2
  <2>7. Says(it, e) <=> Says(L[i], e)
    BY <2>2, <2>3, <2>5, <2>6
  <2> QED
    BY <1>6, <2>1, <2>7
<1> QED
  BY <1>6, <1>7 DEF M, it, new

\* A user made without clients says nothing.
LEMMA UserMade ==
    ASSUME NEW L \in Seq(User), NEW u \in Uids
    PROVE  LET M == Append(L, [uid |-> u, clients |-> <<>>])
           IN  /\ M \in Seq(User) /\ Len(M) = Len(L) + 1
               /\ M[Len(L) + 1] = [uid |-> u, clients |-> <<>>]
               /\ \A a \in DOMAIN L : M[a] = L[a]
               /\ \A e : e \in Entries(M) <=> e \in Entries(L)
<1> DEFINE it == [uid |-> u, clients |-> <<>>]
           M == Append(L, it)
<1>1. it \in User
  BY DEF User
<1>2. \A e : ~Says(it, e)
  BY DEF Says
<1> HIDE DEF it
<1>3. /\ M \in Seq(User) /\ Len(M) = Len(L) + 1 /\ M[Len(L) + 1] = it
      /\ \A a \in DOMAIN L : M[a] = L[a]
  BY <1>1
<1>4. DOMAIN M = 1 .. Len(L) + 1 /\ DOMAIN L = 1 .. Len(L) /\ Len(L) \in Nat
  BY <1>3
<1> HIDE DEF M
<1>5. ASSUME NEW e PROVE e \in Entries(M) <=> e \in Entries(L)
  <2>1. (e \in Entries(M) <=> \E a \in DOMAIN M : Says(M[a], e)) /\ (e \in Entries(L) <=> \E a \in DOMAIN L : Says(L[a], e))
    BY <1>3, EntryIff
  <2>2. \A a \in DOMAIN M : a \in DOMAIN L \/ a = Len(L) + 1
    BY <1>4
  <2>3. \A a \in DOMAIN L : a \in DOMAIN M
    BY <1>4
  <2> QED
    BY <1>2, <1>3, <2>1, <2>2, <2>3
<1> QED
  BY <1>3, <1>5 DEF M, it

\* A client appended to its user's array adds itself.
LEMMA ClientAdded ==
    ASSUME NEW L \in Seq(User), NEW i \in DOMAIN L, NEW c \in Client
    PROVE  LET M == [L EXCEPT ![i].clients = Append(@, c)]
           IN  /\ M \in Seq(User) /\ DOMAIN M = DOMAIN L
               /\ M[i] = [uid |-> L[i].uid, clients |-> Append(L[i].clients, c)]
               /\ \A a \in DOMAIN L : a # i => M[a] = L[a]
               /\ \A e : e \in Entries(M) <=> e \in Entries(L) \/ e = <<L[i].uid, c.id, c.active>>
<1> DEFINE old == L[i].clients
           new == Append(old, c)
           it == [uid |-> L[i].uid, clients |-> new]
           M == [L EXCEPT ![i].clients = Append(@, c)]
<1>0. L[i] \in User
  OBVIOUS
<1>1. L[i].uid \in Uids /\ old \in Seq(Client) /\ L[i] = [uid |-> L[i].uid, clients |-> old]
  BY <1>0 DEF User
<1>2. DOMAIN old = 1 .. Len(old) /\ Len(old) \in Nat
  BY <1>1
<1>3. /\ new \in Seq(Client) /\ DOMAIN new = 1 .. Len(old) + 1
      /\ new[Len(old) + 1] = c /\ \A k \in DOMAIN old : new[k] = old[k]
  BY <1>1
<1> HIDE DEF new
<1>4. [L[i] EXCEPT !.clients = new] = it /\ it \in User
  <2>1. [L[i] EXCEPT !.clients = new] = it
    BY <1>1
  <2>2. it \in User
    BY <1>1, <1>3 DEF User
  <2> QED
    BY <2>1, <2>2
<1>5. M = [L EXCEPT ![i] = it]
  BY <1>4 DEF new
<1> HIDE DEF it, M
<1>6. M \in Seq(User) /\ DOMAIN M = DOMAIN L /\ M[i] = it /\ \A a \in DOMAIN L : a # i => M[a] = L[a]
  BY <1>4, <1>5
<1>7. ASSUME NEW e PROVE e \in Entries(M) <=> e \in Entries(L) \/ e = <<L[i].uid, c.id, c.active>>
  <2>1. (e \in Entries(M) <=> \E a \in DOMAIN M : Says(M[a], e)) /\ (e \in Entries(L) <=> \E a \in DOMAIN L : Says(L[a], e))
    BY <1>6, EntryIff
  <2>2. Says(it, e) <=> \E k \in DOMAIN new : e = <<L[i].uid, new[k].id, new[k].active>>
    BY DEF Says, it
  <2>3. Says(L[i], e) <=> \E k \in DOMAIN old : e = <<L[i].uid, old[k].id, old[k].active>>
    BY DEF Says
  <2> HIDE DEF old
  <2>4. \A k \in DOMAIN new : k \in DOMAIN old \/ k = Len(old) + 1
    BY <1>2, <1>3
  <2>5. Len(old) + 1 \in DOMAIN new /\ \A k \in DOMAIN old : k \in DOMAIN new
    BY <1>2, <1>3
  <2>6. Says(it, e) <=> Says(L[i], e) \/ e = <<L[i].uid, c.id, c.active>>
    BY <1>3, <2>2, <2>3, <2>4, <2>5
  <2> QED
    BY <1>6, <2>1, <2>6
<1> QED
  BY <1>6, <1>7 DEF M, it, new
-----------------------------------------------------------------------------
(* The walk                                                                *)

Once ==
    /\ \A a, b \in DOMAIN list : list[a].uid = list[b].uid => a = b
    /\ \A a \in DOMAIN list : \A k, l \in DOMAIN list[a].clients :
          list[a].clients[k].id = list[a].clients[l].id => k = l

\* What a call is not about: the other users, and unless it is about all of them the
\* other clients of its user.
Away(e) == e[1] # call.uid \/ (call.cid # 0 /\ e[2] # call.cid)

\* The users behind the walk are others, but for the one it found, whose client is gone.
Walking ==
    /\ walk.i > 0 /\ walk.j > 0
    /\ \A a \in DOMAIN list : list[a].clients # <<>> \/ (walk.loop = "clients" /\ a = walk.i)
    /\ walk.loop # "none" =>
          /\ \A a \in DOMAIN list : a < walk.i /\ a # walk.found => list[a].uid # call.uid
          /\ walk.found # 0 =>
                /\ walk.found < walk.i /\ list[walk.found].uid = call.uid /\ call.cid > 0
                /\ \A k \in DOMAIN list[walk.found].clients : list[walk.found].clients[k].id # call.cid

\* So are the clients behind the inner walk.
Inside ==
    walk.loop = "clients" =>
    /\ walk.i <= Len(list) /\ Mine /\ Spared
    /\ \A k \in DOMAIN Clients : k < walk.j => Clients[k].id # call.cid

\* What the call is not about is listed as it was.
Kept == walk.loop # "none" => \A e : Away(e) => (e \in Entries(list) <=> e \in before)

IInv == UsersTypeOK /\ Once /\ Walking /\ Inside /\ Kept

LEMMA Typed ==
    ASSUME UsersTypeOK
    PROVE  /\ list \in Seq(User) /\ DOMAIN list = 1 .. Len(list) /\ Len(list) \in Nat
           /\ \A a \in DOMAIN list : /\ list[a] \in User /\ list[a].uid \in Uids /\ list[a].clients \in Seq(Client)
                                     /\ DOMAIN list[a].clients = 1 .. Len(list[a].clients)
                                     /\ Len(list[a].clients) \in Nat
           /\ call.uid \in Uids /\ call.cid \in Cids /\ call.cid \in Nat /\ call.add \in BOOLEAN /\ call.active \in {0, 1}
           /\ walk = [loop |-> walk.loop, i |-> walk.i, j |-> walk.j, found |-> walk.found]
           /\ walk.loop \in {"none", "users", "clients"} /\ walk.i \in Nat /\ walk.j \in Nat /\ walk.found \in 0 .. Len(list)
<1>1. list \in Seq(User)
  BY DEF UsersTypeOK, User, Client
<1>2. DOMAIN list = 1 .. Len(list) /\ Len(list) \in Nat
  BY <1>1
<1>3. ASSUME NEW a \in DOMAIN list
      PROVE  /\ list[a] \in User /\ list[a].uid \in Uids /\ list[a].clients \in Seq(Client)
             /\ DOMAIN list[a].clients = 1 .. Len(list[a].clients) /\ Len(list[a].clients) \in Nat
  <2>1. list[a] \in User
    BY <1>1
  <2>2. list[a].uid \in Uids /\ list[a].clients \in Seq(Client)
    BY <2>1 DEF User
  <2> QED
    BY <2>1, <2>2
<1>4. call.uid \in Uids /\ call.cid \in Cids /\ call.add \in BOOLEAN /\ call.active \in {0, 1}
  BY DEF UsersTypeOK, Calls
<1>5. call.cid \in Nat
  BY <1>4, UsersArrayAssumption
<1>6. /\ walk = [loop |-> walk.loop, i |-> walk.i, j |-> walk.j, found |-> walk.found]
      /\ walk.loop \in {"none", "users", "clients"} /\ walk.i \in Nat /\ walk.j \in Nat /\ walk.found \in 0 .. Len(list)
  BY DEF UsersTypeOK
<1> QED
  BY <1>1, <1>2, <1>3, <1>4, <1>5, <1>6

\* A user that goes, as all it says is what the call is about: the walk stays where it
\* is, at the user behind.
LEMMA Dropping ==
    ASSUME IInv, walk.loop # "none", walk.i \in DOMAIN list,
           \A e : Says(list[walk.i], e) => ~Away(e),
           list' = RemoveAt(list, walk.i), walk' = [walk EXCEPT !.loop = "users"],
           UNCHANGED <<announced, call, before>>
    PROVE  IInv'
<1> DEFINE i == walk.i
           M == RemoveAt(list, i)
           old(a) == IF a < i THEN a ELSE a + 1
<1>0. UsersTypeOK /\ Once /\ Walking /\ Inside /\ Kept
  BY DEF IInv
<1>1. /\ list \in Seq(User) /\ DOMAIN list = 1 .. Len(list) /\ Len(list) \in Nat
      /\ walk.found \in 0 .. Len(list) /\ i \in 1 .. Len(list) /\ walk.j \in Nat
  BY <1>0, Typed
<1>2. /\ M \in Seq(User) /\ Len(M) = Len(list) - 1 /\ DOMAIN M = 1 .. Len(list) - 1
      /\ \A a \in 1 .. Len(list) - 1 : M[a] = IF a < i THEN list[a] ELSE list[a + 1]
  BY <1>1, RemoveAtShortens
<1>3. walk'.loop = "users" /\ walk'.i = i /\ walk'.j = walk.j /\ walk'.found = walk.found
  BY <1>0, Typed
<1>4. walk.found # 0 => walk.found < i
  BY <1>0 DEF Walking
<1> HIDE DEF i
<1>5. ASSUME NEW a \in DOMAIN M
      PROVE  M[a] = list[old(a)] /\ old(a) \in DOMAIN list /\ old(a) # i
  BY <1>1, <1>2
<1>6. \A a, b \in DOMAIN M : old(a) = old(b) => a = b
  BY <1>1, <1>2
<1>7. \A a \in DOMAIN M : a < i => old(a) = a
  OBVIOUS
<1>8. list' = M
  BY DEF i
<1> HIDE DEF M, old
<1>9. UsersTypeOK'
  <2>1. walk.found \in 0 .. Len(M)
    BY <1>1, <1>2, <1>4
  <2>2. /\ announced \in {"none", "quit", "disconnected", "login", "connected"} /\ call \in Calls
        /\ before \subseteq Uids \X Cids \X {0, 1}
    BY <1>0 DEF UsersTypeOK
  <2>3. walk' \in [loop : {"none", "users", "clients"}, i : Nat, j : Nat, found : 0 .. Len(M)]
    BY <1>0, <2>1, Typed
  <2> QED
    BY <1>2, <1>8, <2>2, <2>3 DEF UsersTypeOK, User, Client, Calls
<1>10. Once'
  BY <1>0, <1>5, <1>6, <1>8 DEF Once
<1>11. Walking'
  <2>1. \A a \in DOMAIN M : M[a].clients # <<>>
    BY <1>0, <1>5 DEF Walking, i
  <2>2. \A a \in DOMAIN M : a < i /\ a # walk.found => M[a].uid # call.uid
    BY <1>0, <1>5, <1>7 DEF Walking, i
  <2>3. walk.found # 0 => walk.found \in DOMAIN M /\ M[walk.found] = list[walk.found]
    BY <1>1, <1>2, <1>4, <1>5, <1>7
  <2> QED
    BY <1>0, <1>3, <1>8, <2>1, <2>2, <2>3 DEF Walking, i
<1>12. Inside'
  BY <1>3 DEF Inside
<1>13. Kept'
  <2>1. ASSUME NEW e, Away(e) PROVE e \in Entries(M) <=> e \in Entries(list)
    BY <1>1, <2>1, UserDropped DEF M, i
  <2>2. \A e : Away(e)' <=> Away(e)
    BY DEF Away
  <2> QED
    BY <1>0, <1>8, <2>1, <2>2 DEF Kept
<1> QED
  BY <1>9, <1>10, <1>11, <1>12, <1>13 DEF IInv

LEMMA DropUserKeeps == IInv /\ DropUser => IInv'
<1> SUFFICES ASSUME IInv, DropUser PROVE IInv'
  OBVIOUS
<1>0. UsersTypeOK /\ Once /\ Walking
  BY DEF IInv
<1>1. walk.loop = "users" /\ walk.i \in DOMAIN list /\ list[walk.i].uid = call.uid
  BY <1>0, Typed DEF DropUser, AtUser, Mine, Walking
<1>2. walk' = [walk EXCEPT !.loop = "users"]
  BY <1>0, <1>1, Typed DEF DropUser
<1>3. walk.found = 0
  \* another user of that uid would be the one found
  BY <1>0, <1>1, Typed DEF Once, Walking
<1>4. call.cid = 0
  BY <1>0, <1>3, Typed DEF DropUser, Spared
<1>5. \A e : Says(list[walk.i], e) => ~Away(e)
  BY <1>1, <1>4 DEF Says, Away
<1> QED
  BY <1>1, <1>2, <1>5, Dropping DEF DropUser

LEMMA LeaveClientsKeeps == IInv /\ LeaveClients => IInv'
<1> SUFFICES ASSUME IInv, LeaveClients PROVE IInv'
  OBVIOUS
<1>0. UsersTypeOK /\ Once /\ Walking /\ Inside /\ Kept
  BY DEF IInv
<1>1. /\ walk.loop = "clients" /\ walk.j > Len(list[walk.i].clients) /\ walk.i \in DOMAIN list
      /\ list[walk.i].uid = call.uid /\ walk.found = 0 /\ call.cid > 0
      /\ \A k \in DOMAIN list[walk.i].clients : k < walk.j => list[walk.i].clients[k].id # call.cid
  BY <1>0, Typed DEF LeaveClients, Clients, Inside, Mine, Spared, Walking
<1>2. CASE list[walk.i].clients = <<>>
  <2>1. list' = RemoveAt(list, walk.i) /\ walk' = [walk EXCEPT !.loop = "users"] /\ UNCHANGED <<announced, call, before>>
    BY <1>2 DEF LeaveClients, Clients
  <2>2. \A e : ~Says(list[walk.i], e)
    BY <1>2 DEF Says
  <2> QED
    BY <1>1, <2>1, <2>2, Dropping
<1>3. CASE list[walk.i].clients # <<>>
  <2>1. walk' = [walk EXCEPT !.loop = "users", !.i = @ + 1, !.found = walk.i] /\ UNCHANGED <<list, announced, call, before>>
    BY <1>3 DEF LeaveClients, Clients
  <2>2. walk'.loop = "users" /\ walk'.i = walk.i + 1 /\ walk'.j = walk.j /\ walk'.found = walk.i
    BY <1>0, <2>1, Typed
  <2>3. \A k \in DOMAIN list[walk.i].clients : list[walk.i].clients[k].id # call.cid
    BY <1>0, <1>1, Typed
  <2>4. UsersTypeOK'
    <3>1. walk' \in [loop : {"none", "users", "clients"}, i : Nat, j : Nat, found : 0 .. Len(list)]
      <4>1. walk' = [loop |-> "users", i |-> walk.i + 1, j |-> walk.j, found |-> walk.i]
        BY <1>0, <2>1, Typed
      <4>2. walk.i + 1 \in Nat /\ walk.j \in Nat /\ walk.i \in 0 .. Len(list)
        BY <1>0, <1>1, Typed
      <4> QED
        BY <4>1, <4>2
    <3> QED
      BY <1>0, <2>1, <3>1 DEF UsersTypeOK, Calls
  <2>5. Walking'
    <3>1. \A a \in DOMAIN list : list[a].clients # <<>>
      BY <1>0, <1>3 DEF Walking
    <3>2. \A a \in DOMAIN list : a < walk.i + 1 /\ a # walk.i => list[a].uid # call.uid
      BY <1>0, <1>1, Typed DEF Walking
    <3> QED
      BY <1>0, <1>1, <2>1, <2>2, <2>3, <3>1, <3>2, Typed DEF Walking
  <2>6. Once' /\ Inside'
    BY <1>0, <2>1, <2>2 DEF Once, Inside
  <2>7. Kept'
    BY <1>0, <1>1, <2>1 DEF Kept, Away
  <2> QED
    BY <2>4, <2>5, <2>6, <2>7 DEF IInv
<1> QED
  BY <1>2, <1>3

LEMMA BeginKeeps == IInv /\ Begin => IInv'
<1> SUFFICES ASSUME IInv, Begin PROVE IInv'
  OBVIOUS
<1>0. UsersTypeOK /\ Once /\ Walking
  BY DEF IInv
<1>1. walk' = [loop |-> "users", i |-> 1, j |-> 1, found |-> 0] /\ list' = list /\ before' = Entries(list)
  BY DEF Begin, Idle
<1>2. UsersTypeOK'
  <2>1. before' \subseteq Uids \X Cids \X {0, 1}
    BY <1>0, <1>1, EntryTyped, Typed DEF Triple
  <2>2. call' \in Calls' /\ announced' = announced
    BY DEF Begin, Calls
  <2> QED
    BY <1>0, <1>1, <2>1, <2>2 DEF UsersTypeOK
<1>3. Once' /\ Inside'
  BY <1>0, <1>1 DEF Once, Inside
<1>4. Walking'
  <2>1. \A a \in DOMAIN list : list[a].clients # <<>> /\ ~(a < 1)
    BY <1>0, Typed DEF Walking, Begin
  <2> QED
    BY <1>1, <2>1 DEF Walking
<1>5. Kept'
  BY <1>1 DEF Kept
<1> QED
  BY <1>2, <1>3, <1>4, <1>5 DEF IInv

LEMMA PassUserKeeps == IInv /\ PassUser => IInv'
<1> SUFFICES ASSUME IInv, PassUser PROVE IInv'
  OBVIOUS
<1>0. UsersTypeOK /\ Once /\ Walking /\ Kept
  BY DEF IInv
<1>1. /\ walk.loop = "users" /\ list[walk.i].uid # call.uid
      /\ walk' = [walk EXCEPT !.i = @ + 1] /\ UNCHANGED <<list, announced, call, before>>
  BY DEF PassUser, AtUser, Mine
<1>2. walk'.loop = "users" /\ walk'.i = walk.i + 1 /\ walk'.j = walk.j /\ walk'.found = walk.found
  BY <1>0, <1>1, Typed
<1>3. UsersTypeOK'
  <2>1. walk' \in [loop : {"none", "users", "clients"}, i : Nat, j : Nat, found : 0 .. Len(list)]
    BY <1>0, <1>1, Typed
  <2> QED
    BY <1>0, <1>1, <2>1 DEF UsersTypeOK, Calls
<1>4. Once' /\ Inside'
  BY <1>0, <1>1, <1>2 DEF Once, Inside
<1>5. Walking'
  BY <1>0, <1>1, <1>2, Typed DEF Walking
<1>6. Kept'
  BY <1>0, <1>1, <1>2 DEF Kept, Away
<1> QED
  BY <1>3, <1>4, <1>5, <1>6 DEF IInv

LEMMA EnterClientsKeeps == IInv /\ EnterClients => IInv'
<1> SUFFICES ASSUME IInv, EnterClients PROVE IInv'
  OBVIOUS
<1>0. UsersTypeOK /\ Once /\ Walking /\ Kept
  BY DEF IInv
<1>1. /\ walk.loop = "users" /\ walk.i <= Len(list) /\ list[walk.i].uid = call.uid
      /\ walk.found = 0 /\ call.cid > 0
      /\ walk' = [walk EXCEPT !.loop = "clients", !.j = 1] /\ UNCHANGED <<list, announced, call, before>>
  BY DEF EnterClients, AtUser, Mine, Spared
<1>2. walk'.loop = "clients" /\ walk'.i = walk.i /\ walk'.j = 1 /\ walk'.found = 0
  BY <1>0, <1>1, Typed
<1>3. UsersTypeOK'
  <2>1. walk' \in [loop : {"none", "users", "clients"}, i : Nat, j : Nat, found : 0 .. Len(list)]
    BY <1>0, <1>1, Typed
  <2> QED
    BY <1>0, <1>1, <2>1 DEF UsersTypeOK, Calls
<1>4. Once'
  BY <1>0, <1>1 DEF Once
<1>5. Walking'
  BY <1>0, <1>1, <1>2, Typed DEF Walking
<1>6. Inside'
  <2>1. walk.i \in DOMAIN list
    BY <1>0, <1>1, Typed DEF Walking
  <2>2. \A k \in DOMAIN list[walk.i].clients : ~(k < 1)
    BY <1>0, <2>1, Typed
  <2> QED
    BY <1>1, <1>2, <2>2 DEF Inside, Mine, Spared, Clients
<1>7. Kept'
  BY <1>0, <1>1, <1>2 DEF Kept, Away
<1> QED
  BY <1>3, <1>4, <1>5, <1>6, <1>7 DEF IInv

\* A client is in the array once: what takes its place, which the walk skips, is another.
LEMMA VisitClientKeeps == IInv /\ VisitClient => IInv'
<1> SUFFICES ASSUME IInv, VisitClient PROVE IInv'
  OBVIOUS
<1> DEFINE i == walk.i
           j == walk.j
           old == list[i].clients
           new == RemoveAt(old, j)
           M == [list EXCEPT ![i].clients = RemoveAt(@, j)]
<1>0. UsersTypeOK /\ Once /\ Walking /\ Inside /\ Kept
  BY DEF IInv
<1>1. /\ walk.loop = "clients" /\ j <= Len(old) /\ i \in DOMAIN list /\ j \in DOMAIN old
      /\ list[i].uid = call.uid /\ walk.found = 0 /\ call.cid > 0
      /\ \A k \in DOMAIN old : k < j => old[k].id # call.cid
  BY <1>0, Typed DEF VisitClient, Clients, Inside, Mine, Spared, Walking
<1>2. walk' = [walk EXCEPT !.j = @ + 1] /\ UNCHANGED <<announced, call, before>>
  BY DEF VisitClient
<1>3. walk'.loop = "clients" /\ walk'.i = i /\ walk'.j = j + 1 /\ walk'.found = 0
  BY <1>0, <1>1, <1>2, Typed
<1>4. /\ list \in Seq(User) /\ DOMAIN list = 1 .. Len(list) /\ Len(list) \in Nat
      /\ old \in Seq(Client) /\ DOMAIN old = 1 .. Len(old) /\ Len(old) \in Nat /\ i \in Nat \ {0} /\ j \in Nat \ {0}
  BY <1>0, <1>1, Typed DEF Walking
<1>5. CASE old[j].id # call.cid
  <2>1. list' = list
    BY <1>5 DEF VisitClient, Clients
  <2>2. UsersTypeOK'
    <3>1. walk' \in [loop : {"none", "users", "clients"}, i : Nat, j : Nat, found : 0 .. Len(list)]
      BY <1>0, <1>2, Typed
    <3> QED
      BY <1>0, <1>2, <2>1, <3>1 DEF UsersTypeOK, Calls
  <2>3. Once'
    BY <1>0, <2>1 DEF Once
  <2>4. Walking'
    BY <1>0, <1>1, <1>2, <1>3, <1>4, <2>1 DEF Walking
  <2>5. Inside'
    <3>1. \A k \in DOMAIN old : k < j + 1 => old[k].id # call.cid
      BY <1>1, <1>4, <1>5
    <3> QED
      BY <1>0, <1>1, <1>2, <1>3, <2>1, <3>1 DEF Inside, Mine, Spared, Clients
  <2>6. Kept'
    BY <1>0, <1>1, <1>2, <2>1 DEF Kept, Away
  <2> QED
    BY <2>2, <2>3, <2>4, <2>5, <2>6 DEF IInv
<1>6. CASE old[j].id = call.cid
  <2>1. list' = M
    BY <1>6 DEF VisitClient, Clients
  <2>0. \A k, l \in DOMAIN old : old[k].id = old[l].id => k = l
    BY <1>0, <1>1 DEF Once
  <2>2. /\ M \in Seq(User) /\ DOMAIN M = DOMAIN list
        /\ M[i] = [uid |-> list[i].uid, clients |-> new]
        /\ \A a \in DOMAIN list : a # i => M[a] = list[a]
        /\ \A e : e # <<list[i].uid, old[j].id, old[j].active>> => (e \in Entries(M) <=> e \in Entries(list))
    BY <1>1, <1>4, ClientTaken
  <2> HIDE DEF old, i, j
  <2>3. /\ new \in Seq(Client) /\ Len(new) = Len(old) - 1 /\ DOMAIN new = 1 .. Len(old) - 1
        /\ \A k \in 1 .. Len(old) - 1 : new[k] = IF k < j THEN old[k] ELSE old[k + 1]
    <3>1. old \in Seq(Client) /\ j \in DOMAIN old
      BY <1>1, <1>4
    <3> QED
      BY <3>1, RemoveAtShortens
  <2> HIDE DEF new, M
  <2> DEFINE was(k) == IF k < j THEN k ELSE k + 1
  <2>5. \A k \in DOMAIN new : was(k) \in DOMAIN old /\ was(k) # j /\ new[k] = old[was(k)]
    BY <1>1, <1>4, <2>3
  <2>6. \A k, l \in DOMAIN new : was(k) = was(l) => k = l
    BY <1>4, <2>3
  <2> HIDE DEF was
  <2>7. UsersTypeOK'
    <3>1. Len(M) = Len(list)
      BY <1>4, <2>2
    <3>2. walk' \in [loop : {"none", "users", "clients"}, i : Nat, j : Nat, found : 0 .. Len(M)]
      BY <1>0, <1>2, <3>1, Typed
    <3> QED
      BY <1>0, <1>2, <2>1, <2>2, <3>2 DEF UsersTypeOK, Calls, User, Client
  <2>8. Once'
    <3>1. \A a \in DOMAIN M : M[a].uid = list[a].uid
      BY <2>2
    <3>2. \A k, l \in DOMAIN new : new[k].id = new[l].id => k = l
      BY <2>0, <2>5, <2>6
    <3> QED
      BY <1>0, <2>1, <2>2, <3>1, <3>2 DEF Once
  <2>9. Walking'
    <3>1. \A a \in DOMAIN M : M[a].uid = list[a].uid /\ (a # i => M[a].clients = list[a].clients)
      BY <2>2
    <3> QED
      BY <1>0, <1>1, <1>2, <1>3, <1>4, <2>1, <2>2, <3>1 DEF Walking, i, j
  <2>10. Inside'
    <3>1. \A k \in DOMAIN new : new[k].id # call.cid
      BY <1>1, <1>6, <2>0, <2>5
    <3>2. i <= Len(M)
      BY <1>1, <1>4, <2>2
    <3> QED
      BY <1>1, <1>2, <1>3, <2>1, <2>2, <3>1, <3>2 DEF Inside, Mine, Spared, Clients
  <2>11. Kept'
    <3>1. ~Away(<<list[i].uid, old[j].id, old[j].active>>)
      BY <1>1, <1>6 DEF Away
    <3>2. \A e : Away(e)' <=> Away(e)
      BY <1>2 DEF Away
    <3>3. \A e : Away(e) => (e \in Entries(M) <=> e \in Entries(list))
      BY <2>2, <3>1
    <3> QED
      BY <1>0, <1>1, <1>2, <2>1, <3>2, <3>3 DEF Kept
  <2> QED
    BY <2>7, <2>8, <2>9, <2>10, <2>11 DEF IInv
<1> QED
  BY <1>5, <1>6
-----------------------------------------------------------------------------
(* The return                                                              *)

\* When the walk has ended nothing is listed that the call is about, and the user that
\* was found still has clients.
LEMMA WhenWalked ==
    ASSUME IInv, Walked
    PROVE  /\ \A e \in Entries(list) : Away(e)
           /\ \A e : e \in Entries(list) <=> e \in before /\ Away(e)
           /\ \A a \in DOMAIN list : a # walk.found => list[a].uid # call.uid
           /\ walk.found # 0 =>
                 /\ walk.found \in DOMAIN list /\ list[walk.found].uid = call.uid
                 /\ list[walk.found].clients # <<>>
                 /\ \A k \in DOMAIN list[walk.found].clients : list[walk.found].clients[k].id # call.cid
<1>0. UsersTypeOK /\ Once /\ Walking /\ Kept
  BY DEF IInv
<1>1. walk.loop = "users" /\ walk.i > Len(list)
  BY DEF Walked
<1>2. \A a \in DOMAIN list : a # walk.found => list[a].uid # call.uid
  BY <1>0, <1>1, Typed DEF Walking
<1>3. walk.found # 0 =>
         /\ walk.found \in DOMAIN list /\ list[walk.found].uid = call.uid /\ call.cid > 0
         /\ list[walk.found].clients # <<>>
         /\ \A k \in DOMAIN list[walk.found].clients : list[walk.found].clients[k].id # call.cid
  BY <1>0, <1>1, Typed DEF Walking
<1>4. ASSUME NEW e \in Entries(list) PROVE Away(e)
  <2>1. PICK a \in DOMAIN list : Says(list[a], e)
    BY <1>0, EntryIff, Typed
  <2>2. PICK k \in DOMAIN list[a].clients : e = <<list[a].uid, list[a].clients[k].id, list[a].clients[k].active>>
    BY <2>1 DEF Says
  <2>3. CASE a # walk.found
    BY <1>2, <2>2, <2>3 DEF Away
  <2>4. CASE a = walk.found
    <3>1. walk.found # 0
      BY <1>0, <2>4, Typed
    <3>2. list[a].clients[k].id # call.cid /\ call.cid # 0
      BY <1>0, <1>3, <2>4, <3>1, Typed
    <3> QED
      BY <2>2, <3>2 DEF Away
  <2> QED
    BY <2>3, <2>4
<1>5. \A e : Away(e) => (e \in Entries(list) <=> e \in before)
  BY <1>0, <1>1 DEF Kept
<1> QED
  BY <1>2, <1>3, <1>4, <1>5

LEMMA RemovedKeeps == IInv /\ Removed => IInv'
<1> SUFFICES ASSUME IInv, Removed PROVE IInv'
  OBVIOUS
<1>0. UsersTypeOK /\ Once /\ Walking
  BY DEF IInv
<1>1. walk' = [loop |-> "none", i |-> 1, j |-> 1, found |-> 0] /\ before' = {} /\ list' = list /\ call' = call
  BY DEF Removed, Returns, Idle
<1>2. announced' \in {"quit", "disconnected"}
  BY DEF Removed
<1>3. UsersTypeOK'
  BY <1>0, <1>1, <1>2, Typed DEF UsersTypeOK, Calls
<1>4. Once' /\ Inside' /\ Kept'
  BY <1>0, <1>1 DEF Once, Inside, Kept
<1>5. Walking'
  BY <1>0, <1>1 DEF Walking, Removed, Walked
<1> QED
  BY <1>3, <1>4, <1>5 DEF IInv

\* Where the client is put, and what it adds: its triple only.
LEMMA AddedEntry ==
    ASSUME IInv, Added
    PROVE  LET c == [id |-> call.cid, active |-> call.active]
               at == IF walk.found = 0 THEN Len(list) + 1 ELSE walk.found
           IN  /\ list' \in Seq(User)
               /\ Len(list') = IF walk.found = 0 THEN Len(list) + 1 ELSE Len(list)
               /\ at \in DOMAIN list'
               /\ list'[at].uid = call.uid
               /\ list'[at].clients = IF walk.found = 0 THEN <<c>> ELSE Append(list[at].clients, c)
               /\ \A a \in DOMAIN list' : a # at => a \in DOMAIN list /\ list'[a] = list[a]
               /\ \A e : e \in Entries(list') <=> e \in Entries(list) \/ e = <<call.uid, call.cid, call.active>>
<1> DEFINE c == [id |-> call.cid, active |-> call.active]
           at == IF walk.found = 0 THEN Len(list) + 1 ELSE walk.found
           it == [uid |-> call.uid, clients |-> <<>>]
           users == IF walk.found = 0 THEN Append(list, it) ELSE list
<1>0. UsersTypeOK
  BY DEF IInv
<1>1. c \in Client /\ c.id = call.cid /\ c.active = call.active
  BY <1>0, Typed DEF Client
<1>2. list' = [users EXCEPT ![at].clients = Append(@, c)]
  BY DEF Added
<1>3. Walked
  BY DEF Added
<1>4. DOMAIN list = 1 .. Len(list) /\ Len(list) \in Nat /\ list \in Seq(User) /\ call.uid \in Uids
  BY <1>0, Typed
<1>5. /\ users \in Seq(User) /\ at \in DOMAIN users /\ users[at].uid = call.uid
      /\ users[at].clients = IF walk.found = 0 THEN <<>> ELSE list[at].clients
      /\ Len(users) = IF walk.found = 0 THEN Len(list) + 1 ELSE Len(list)
      /\ \A a \in DOMAIN users : a # at => a \in DOMAIN list /\ users[a] = list[a]
      /\ \A e : e \in Entries(users) <=> e \in Entries(list)
  <2>1. CASE walk.found = 0
    <3>1. users = Append(list, it) /\ at = Len(list) + 1
      BY <2>1
    <3>2. /\ Append(list, it) \in Seq(User) /\ Len(Append(list, it)) = Len(list) + 1
          /\ Append(list, it)[Len(list) + 1] = it
          /\ \A a \in DOMAIN list : Append(list, it)[a] = list[a]
          /\ \A e : e \in Entries(Append(list, it)) <=> e \in Entries(list)
      BY <1>4, UserMade
    <3>3. it.uid = call.uid /\ it.clients = <<>>
      OBVIOUS
    <3> HIDE DEF it, users, at
    <3>4. DOMAIN users = 1 .. Len(list) + 1
      BY <1>4, <3>1, <3>2
    <3> QED
      BY <1>4, <2>1, <3>1, <3>2, <3>3, <3>4
  <2>2. CASE walk.found # 0
    BY <1>3, <1>4, <2>2, WhenWalked
  <2> QED
    BY <2>1, <2>2
<1> HIDE DEF c, at, users, it
<1>6. /\ list' \in Seq(User) /\ DOMAIN list' = DOMAIN users
      /\ list'[at] = [uid |-> users[at].uid, clients |-> Append(users[at].clients, c)]
      /\ \A a \in DOMAIN users : a # at => list'[a] = users[a]
      /\ \A e : e \in Entries(list') <=> e \in Entries(users) \/ e = <<users[at].uid, c.id, c.active>>
  BY <1>1, <1>2, <1>5, ClientAdded
<1>7. Len(list') = Len(users)
  BY <1>5, <1>6
<1>8. Append(<<>>, c) = <<c>>
  OBVIOUS
<1>9. \A e : e \in Entries(list') <=> e \in Entries(list) \/ e = <<call.uid, call.cid, call.active>>
  BY <1>1, <1>5, <1>6
<1>10. list'[at].uid = call.uid /\ list'[at].clients = IF walk.found = 0 THEN <<c>> ELSE Append(list[at].clients, c)
  BY <1>5, <1>6, <1>8
<1> QED
  BY <1>5, <1>6, <1>7, <1>9, <1>10 DEF c, at

LEMMA AddedKeeps == IInv /\ Added => IInv'
<1> SUFFICES ASSUME IInv, Added PROVE IInv'
  OBVIOUS
<1> DEFINE c == [id |-> call.cid, active |-> call.active]
           at == IF walk.found = 0 THEN Len(list) + 1 ELSE walk.found
<1>0. UsersTypeOK /\ Once /\ Walking
  BY DEF IInv
<1>1. walk' = [loop |-> "none", i |-> 1, j |-> 1, found |-> 0] /\ before' = {} /\ call' = call
  BY DEF Added, Returns, Idle
<1>2. /\ list' \in Seq(User) /\ at \in DOMAIN list' /\ list'[at].uid = call.uid
      /\ list'[at].clients = IF walk.found = 0 THEN <<c>> ELSE Append(list[at].clients, c)
      /\ \A a \in DOMAIN list' : a # at => a \in DOMAIN list /\ list'[a] = list[a]
  BY AddedEntry
<1>3. Walked
  BY DEF Added
<1>4. /\ \A a \in DOMAIN list : a # walk.found => list[a].uid # call.uid
      /\ walk.found # 0 =>
            /\ walk.found \in DOMAIN list
            /\ \A k \in DOMAIN list[walk.found].clients : list[walk.found].clients[k].id # call.cid
  BY <1>3, WhenWalked
<1>5. \A a \in DOMAIN list' : a # at => a # walk.found
  BY <1>0, <1>2, Typed
<1>6. walk.found # 0 => at = walk.found
  OBVIOUS
<1>7. c.id = call.cid /\ c \in Client
  BY <1>0, Typed DEF Client
<1> HIDE DEF c, at
<1>8. UsersTypeOK'
  <2>1. announced' \in {"login", "connected"}
    BY DEF Added
  <2> QED
    BY <1>0, <1>1, <1>2, <2>1 DEF UsersTypeOK, Calls, User, Client
<1>9. \A k, l \in DOMAIN list'[at].clients : list'[at].clients[k].id = list'[at].clients[l].id => k = l
  <2>1. CASE walk.found = 0
    <3>1. DOMAIN <<c>> = {1}
      OBVIOUS
    <3> QED
      BY <1>2, <2>1, <3>1
  <2>2. CASE walk.found # 0
    <3> DEFINE old == list[at].clients
               new == Append(old, c)
    <3>1. at \in DOMAIN list /\ \A k \in DOMAIN old : old[k].id # call.cid
      BY <1>4, <1>6, <2>2
    <3>2. old \in Seq(Client) /\ \A k, l \in DOMAIN old : old[k].id = old[l].id => k = l
      BY <1>0, <3>1, Typed DEF Once
    <3>3. list'[at].clients = new
      BY <1>2, <2>2
    <3> HIDE DEF old
    <3>4. /\ \A k \in DOMAIN old : new[k] = old[k] /\ k # Len(old) + 1
          /\ new[Len(old) + 1] = c
          /\ \A k \in DOMAIN new : k \in DOMAIN old \/ k = Len(old) + 1
      BY <3>2
    <3> HIDE DEF new
    <3> QED
      BY <1>7, <3>1, <3>2, <3>3, <3>4
  <2> QED
    BY <2>1, <2>2
<1>10. Once'
  <2>1. \A a, b \in DOMAIN list' : list'[a].uid = list'[b].uid => a = b
    BY <1>0, <1>2, <1>4, <1>5 DEF Once
  <2>2. \A a \in DOMAIN list' : \A k, l \in DOMAIN list'[a].clients :
            list'[a].clients[k].id = list'[a].clients[l].id => k = l
    BY <1>0, <1>2, <1>9 DEF Once
  <2> QED
    BY <2>1, <2>2 DEF Once
<1>11. list'[at].clients # <<>>
  <2>1. CASE walk.found = 0
    BY <1>2, <2>1
  <2>2. CASE walk.found # 0
    <3>1. list[at].clients \in Seq(Client)
      BY <1>0, <1>4, <1>6, <2>2, Typed
    <3>2. Len(Append(list[at].clients, c)) = Len(list[at].clients) + 1 /\ Len(list[at].clients) \in Nat
      BY <1>7, <3>1
    <3>3. Append(list[at].clients, c) # <<>>
      BY <3>2
    <3> QED
      BY <1>2, <2>2, <3>3
  <2> QED
    BY <2>1, <2>2
<1>12. Walking'
  <2>1. walk.loop = "users"
    BY <1>3 DEF Walked
  <2>2. \A a \in DOMAIN list' : list'[a].clients # <<>>
    BY <1>0, <1>2, <1>11, <2>1 DEF Walking
  <2> QED
    BY <1>1, <2>2 DEF Walking
<1>13. Inside' /\ Kept'
  BY <1>1 DEF Inside, Kept
<1> QED
  BY <1>8, <1>10, <1>12, <1>13 DEF IInv

LEMMA Initially == UsersInit => IInv
<1> SUFFICES ASSUME UsersInit PROVE IInv
  OBVIOUS
<1>1. list = <<>> /\ DOMAIN list = {} /\ walk = [loop |-> "none", i |-> 1, j |-> 1, found |-> 0] /\ before = {}
  BY DEF UsersInit, Idle
<1>2. UsersTypeOK
  BY <1>1 DEF UsersInit, UsersTypeOK
<1>3. Once /\ Walking /\ Inside /\ Kept
  BY <1>1 DEF Once, Walking, Inside, Kept
<1> QED
  BY <1>2, <1>3 DEF IInv

LEMMA Step == IInv /\ [UsersNext]_uvars => IInv'
<1> SUFFICES ASSUME IInv, [UsersNext]_uvars PROVE IInv'
  OBVIOUS
<1>1. CASE UNCHANGED uvars
  BY <1>1 DEF uvars, IInv, UsersTypeOK, Calls, Once, Walking, Inside, Mine, Spared, Clients, Kept, Away
<1>2. CASE UsersNext
  BY <1>2, BeginKeeps, PassUserKeeps, DropUserKeeps, EnterClientsKeeps, VisitClientKeeps,
     LeaveClientsKeeps, RemovedKeeps, AddedKeeps DEF UsersNext
<1> QED
  BY <1>1, <1>2

LEMMA Always == UsersSpec => []IInv
BY Initially, Step, PTL DEF UsersSpec

\* The arrays are what their types say, whatever the loops of users.c remove and append.
THEOREM TypeCorrect == UsersSpec => []UsersTypeOK
BY Always, PTL DEF IInv

\* No user and no client of a user is ever listed twice, and between calls no user
\* without clients: what userslist_getrm_user counts on, who looks no further.
THEOREM ArraysListOnce == UsersSpec => []ListedOnce
<1>1. IInv => ListedOnce
  BY DEF IInv, Once, Walking, ListedOnce
<1> QED
  BY <1>1, Always, PTL
-----------------------------------------------------------------------------
(* The list as a set                                                       *)

LEMMA ClientsIff ==
    ASSUME NEW E, NEW u
    PROVE  \A c : c \in Set!ClientsOf(Set!Pairs(E), u) <=> \E e \in E : e[1] = u /\ e[2] = c
<1> DEFINE P == Set!Pairs(E)
<1>1. ASSUME NEW e \in E PROVE <<e[1], e[2]>> \in P
  BY DEF Set!Pairs
<1>2. ASSUME NEW p \in P PROVE \E e \in E : p = <<e[1], e[2]>>
  BY DEF Set!Pairs
<1> HIDE DEF P
<1>3. \A c : c \in Set!ClientsOf(P, u) <=> \E p \in P : p[1] = u /\ p[2] = c
  BY DEF Set!ClientsOf
<1>4. ASSUME NEW c, c \in Set!ClientsOf(P, u) PROVE \E e \in E : e[1] = u /\ e[2] = c
  <2>1. PICK p \in P : p[1] = u /\ p[2] = c
    BY <1>3, <1>4
  <2>2. PICK e \in E : p = <<e[1], e[2]>>
    BY <1>2
  <2> QED
    BY <2>1, <2>2
<1>5. ASSUME NEW c, NEW e \in E, e[1] = u, e[2] = c PROVE c \in Set!ClientsOf(P, u)
  <2> DEFINE p == <<e[1], e[2]>>
  <2>1. p \in P /\ p[1] = u /\ p[2] = c
    BY <1>1, <1>5
  <2> QED
    BY <1>3, <2>1
<1>6. \A c : c \in Set!ClientsOf(P, u) <=> \E e \in E : e[1] = u /\ e[2] = c
  BY <1>4, <1>5
<1> QED
  BY <1>6 DEF P

\* A call to remove leaves what it is not about, and is told by who is left.
LEMMA RemovedRemoves == IInv /\ Removed => Set!Remove(call.uid, call.cid)
<1> SUFFICES ASSUME IInv, Removed PROVE Set!Remove(call.uid, call.cid)
  OBVIOUS
<1> DEFINE u == call.uid
           f == walk.found
<1>0. UsersTypeOK
  BY DEF IInv
<1>1. walk.loop = "users" /\ walk'.loop = "none" /\ list' = list /\ Walked
  BY DEF Removed, Walked, Returns, Idle
<1>2. /\ \A e : e \in Entries(list) <=> e \in before /\ Away(e)
      /\ \A a \in DOMAIN list : a # f => list[a].uid # u
      /\ f # 0 => f \in DOMAIN list /\ list[f].uid = u /\ list[f].clients # <<>>
  BY <1>1, WhenWalked
<1>3. Entries(list) = {e \in before : e[1] # u \/ (call.cid # 0 /\ e[2] # call.cid)}
  BY <1>2 DEF Away
<1>4. Set!ClientsOf(Set!Pairs(Entries(list)), u) = {} <=> f = 0
  <2>1. ASSUME f = 0, NEW e \in Entries(list) PROVE e[1] # u
    <3>1. PICK a \in DOMAIN list : Says(list[a], e)
      BY <1>0, EntryIff, Typed
    <3>2. list[a].uid # u
      BY <1>0, <1>2, <2>1, Typed
    <3> QED
      BY <3>1, <3>2 DEF Says
  <2>2. ASSUME f # 0 PROVE \E e \in Entries(list) : e[1] = u
    <3>1. 1 \in DOMAIN list[f].clients
      BY <1>0, <1>2, <2>2, Typed
    <3>2. Says(list[f], <<list[f].uid, list[f].clients[1].id, list[f].clients[1].active>>)
      BY <3>1 DEF Says
    <3>3. <<list[f].uid, list[f].clients[1].id, list[f].clients[1].active>> \in Entries(list)
      BY <1>0, <1>2, <2>2, <3>2, EntryIff, Typed
    <3> QED
      BY <1>2, <2>2, <3>3
  <2>3. Set!ClientsOf(Set!Pairs(Entries(list)), u) = {} <=> \A e \in Entries(list) : e[1] # u
    <3> DEFINE C == Set!ClientsOf(Set!Pairs(Entries(list)), u)
    <3>1. \A c : c \in C <=> \E e \in Entries(list) : e[1] = u /\ e[2] = c
      BY ClientsIff
    <3> HIDE DEF C
    <3>2. C = {} <=> \A e \in Entries(list) : e[1] # u
      BY <3>1
    <3> QED
      BY <3>2 DEF C
  <2> QED
    BY <2>1, <2>2, <2>3
<1>5. announced' = IF f = 0 THEN "quit" ELSE "disconnected"
  BY <1>2 DEF Removed
<1>6. announced' = Set!Announcement(Set!Pairs(Entries(list)), u, call.cid, FALSE)
  BY <1>4, <1>5 DEF Set!Announcement
<1> QED
  BY <1>1, <1>3, <1>6 DEF Set!Remove, Set!Others, Set!Announcement

\* A call to add puts the client there once, with the status it told last, and is told
\* by who else of its user is listed.
LEMMA AddedAdds == IInv /\ Added => Set!Add(call.uid, call.cid, call.active)
<1> SUFFICES ASSUME IInv, Added PROVE Set!Add(call.uid, call.cid, call.active)
  OBVIOUS
<1> DEFINE u == call.uid
           f == walk.found
           new == <<call.uid, call.cid, call.active>>
           users == Set!Pairs(Entries(list'))
<1>0. UsersTypeOK
  BY DEF IInv
<1>1. walk.loop = "users" /\ walk'.loop = "none" /\ Walked
  BY DEF Added, Walked, Returns, Idle
<1>2. /\ \A e : e \in Entries(list) <=> e \in before /\ Away(e)
      /\ \A a \in DOMAIN list : a # f => list[a].uid # u
      /\ f # 0 => /\ f \in DOMAIN list /\ list[f].uid = u /\ list[f].clients # <<>>
                  /\ \A k \in DOMAIN list[f].clients : list[f].clients[k].id # call.cid
  BY <1>1, WhenWalked
<1>3. \A e : e \in Entries(list') <=> e \in Entries(list) \/ e = new
  BY AddedEntry
<1>4. Entries(list') = {e \in before : e[1] # u \/ (call.cid # 0 /\ e[2] # call.cid)} \cup {new}
  BY <1>2, <1>3 DEF Away
<1>5. \A c : c \in Set!ClientsOf(users, u) <=> \E e \in Entries(list') : e[1] = u /\ e[2] = c
  BY ClientsIff
<1>6. call.cid \in Set!ClientsOf(users, u)
  <2>1. new \in Entries(list') /\ new[1] = u /\ new[2] = call.cid
    BY <1>3
  <2> HIDE DEF new, users
  <2> QED
    BY <1>5, <2>1
<1>7. ASSUME f = 0 PROVE Set!ClientsOf(users, u) = {call.cid}
  <2>1. ASSUME NEW e \in Entries(list) PROVE e[1] # u
    <3>1. PICK a \in DOMAIN list : Says(list[a], e)
      BY <1>0, EntryIff, Typed
    <3>2. list[a].uid # u
      BY <1>0, <1>2, <1>7, Typed
    <3> QED
      BY <3>1, <3>2 DEF Says
  <2> HIDE DEF users
  <2>2. \A c \in Set!ClientsOf(users, u) : c = call.cid
    BY <1>3, <1>5, <2>1
  <2> QED
    BY <1>6, <2>2
<1>8. ASSUME f # 0 PROVE Set!ClientsOf(users, u) # {call.cid}
  <2> DEFINE other == list[f].clients[1]
             e == <<list[f].uid, other.id, other.active>>
  <2>1. 1 \in DOMAIN list[f].clients
    BY <1>0, <1>2, <1>8, Typed
  <2>2. Says(list[f], e) /\ other.id # call.cid
    BY <1>2, <1>8, <2>1 DEF Says
  <2>3. e \in Entries(list)
    BY <1>0, <1>2, <1>8, <2>2, EntryIff, Typed
  <2>4. other.id \in Set!ClientsOf(users, u)
    BY <1>2, <1>3, <1>5, <1>8, <2>3
  <2> QED
    BY <2>2, <2>4
<1>9. announced' = IF f = 0 THEN "login" ELSE "connected"
  <2>1. CASE f = 0
    <3>1. Append(list, [uid |-> u, clients |-> <<>>])[Len(list) + 1] = [uid |-> u, clients |-> <<>>]
      BY <1>0, Typed, UserMade
    <3> QED
      BY <2>1, <3>1 DEF Added
  <2>2. CASE f # 0
    <3>1. Len(list[f].clients) # 0
      BY <1>0, <1>2, <2>2, Typed
    <3> QED
      BY <2>2, <3>1 DEF Added
  <2> QED
    BY <2>1, <2>2
<1> HIDE DEF users
<1>10. announced' = Set!Announcement(users, u, call.cid, TRUE)
  BY <1>6, <1>7, <1>8, <1>9 DEF Set!Announcement
<1> QED
  BY <1>1, <1>4, <1>10 DEF Set!Add, Set!Others, users

LEMMA ListedInitially == UsersInit => Set!Init
<1> SUFFICES ASSUME UsersInit PROVE Set!Init
  OBVIOUS
<1>1. ToSet(list) = {}
  BY DEF UsersInit, ToSet
<1> QED
  BY <1>1 DEF UsersInit, Set!Init, Entries, Idle

\* Nobody sees the arrays before the call has returned.
LEMMA StepListed ==
    IInv /\ [UsersNext]_uvars =>
    [Set!Next]_<<IF walk.loop = "none" THEN Entries(list) ELSE before, announced>>
<1> DEFINE shown == IF walk.loop = "none" THEN Entries(list) ELSE before
<1> SUFFICES ASSUME IInv, [UsersNext]_uvars PROVE [Set!Next]_<<shown, announced>>
  OBVIOUS
<1>0. UsersTypeOK /\ Inside
  BY DEF IInv
<1>1. CASE UNCHANGED uvars
  BY <1>1 DEF uvars
<1>2. CASE Begin
  BY <1>2 DEF Begin, Idle
<1>3. CASE PassUser \/ DropUser \/ EnterClients \/ VisitClient \/ LeaveClients
  <2>1. before' = before /\ announced' = announced /\ walk.loop # "none"
    BY <1>3 DEF PassUser, DropUser, EnterClients, VisitClient, LeaveClients, AtUser
  <2>2. walk'.loop # "none"
    BY <1>0, <1>3, Typed DEF PassUser, DropUser, EnterClients, VisitClient, LeaveClients, AtUser
  <2> QED
    BY <2>1, <2>2
<1>4. CASE Removed
  <2>1. call.uid \in Uids /\ call.cid \in Cids
    BY <1>0, Typed
  <2> QED
    BY <1>4, <2>1, RemovedRemoves DEF Set!Next
<1>5. CASE Added
  <2>1. call.uid \in Uids /\ call.cid \in Cids /\ call.active \in {0, 1}
    BY <1>0, Typed
  <2> QED
    BY <1>5, <2>1, AddedAdds DEF Set!Next
<1> QED
  BY <1>1, <1>2, <1>3, <1>4, <1>5 DEF UsersNext

\* The arrays of users.c implement the users list: after every call they say of each
\* client what it told last, and the call is announced by who is listed.
THEOREM ArraysAreTheList == UsersSpec => IsUsersList
BY ListedInitially, StepListed, Always, PTL DEF UsersSpec, IsUsersList, Set!Spec
=============================================================================
