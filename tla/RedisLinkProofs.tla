---------------------------- MODULE RedisLinkProofs ----------------------------
(* Theorems about RedisLink, for any number of faults and messages. *)
EXTENDS RedisLink, SequenceTheorems, TLAPS

Fields == DOMAIN Context("null")

\* A call on a context that leaves it what it is, and its callbacks.
Keeps(c, d) ==
    /\ DOMAIN d = Fields
    /\ d.life = c.life /\ d.onConnect = c.onConnect /\ d.onDisconnect = c.onDisconnect

\* The callbacks of the contexts in use: both tell of their own attempt, and only
\* the subscribing one of its loss.
Told(k, c) ==
    /\ DOMAIN c = Fields
    /\ c.life = "live" => c.onConnect = k /\ c.onDisconnect = IF k = "sub" THEN "sub" ELSE None

Typed ==
    /\ flag \in [Roles -> BOOLEAN] /\ at \in Roles \cup {Idle}
    /\ DOMAIN ac = Roles

IInv == Typed /\ FlagsTell /\ \A k \in Roles : Told(k, ac[k])
-----------------------------------------------------------------------------
\* Commands, writes and replies leave the callbacks of a context.
LEMMA FieldsAre == Fields = {"life", "attached", "reading", "writing", "connected", "subscribed",
    "disconnecting", "onConnect", "onDisconnect", "replies", "invalid", "channels", "obuf"}
BY DEF Fields, Context

LEMMA CommandKeeps == ASSUME NEW c, DOMAIN c = Fields, NEW cmd PROVE Keeps(c, Command(c, cmd))
<1>1. Keeps(c, Registered(c, cmd))
  BY FieldsAre DEF Registered, Keeps
<1>2. QED
  BY <1>1, FieldsAre DEF Command, AddWrite, Keeps

LEMMA WroteKeeps == ASSUME NEW c, DOMAIN c = Fields, NEW n PROVE Keeps(c, Wrote(Connected(c), n))
BY FieldsAre DEF Wrote, Connected, Keeps

LEMMA WriteDoneKeeps == ASSUME NEW c, DOMAIN c = Fields, NEW d PROVE Keeps(c, WriteDone(c, d))
BY FieldsAre DEF WriteDone, AddRead, AddWrite, DelWrite, Keeps

LEMMA TookKeeps == ASSUME NEW c, DOMAIN c = Fields, NEW r PROVE Keeps(c, Took(c, r))
BY FieldsAre DEF Took, Keeps

\* The contexts that the thread makes are told of, and no context that is failed
\* is live.
LEMMA SubContextTold ==
    ASSUME NEW life \in {"live", "failed"}
    PROVE  SubContext(life).life = life /\ Told("sub", SubContext(life))
<1> DEFINE c == SetDisconnectCallback(SetConnectCallback(Attach(Context("live")), "sub"), "sub")
<1>1. DOMAIN c = Fields /\ c.life = "live" /\ c.onConnect = "sub" /\ c.onDisconnect = "sub"
  BY FieldsAre DEF SetDisconnectCallback, SetConnectCallback, Attach, Context, AddWrite, None
<1>2. ASSUME NEW x, NEW i, DOMAIN x = Fields, x.life = "live", x.onConnect = "sub", x.onDisconnect = "sub"
      PROVE  LET y == Subscribed(x, i)
             IN  DOMAIN y = Fields /\ y.life = "live" /\ y.onConnect = "sub" /\ y.onDisconnect = "sub"
  BY <1>2, CommandKeeps DEF Keeps, Subscribed
<1>3. CASE life = "failed"
  BY <1>3, FieldsAre DEF SubContext, Context, Told
<1>4. CASE life = "live"
  <2> HIDE DEF c
  <2> DEFINE d == Subscribed(Subscribed(Subscribed(Subscribed(c, 1), 2), 3), 4)
  <2>1. DOMAIN d = Fields /\ d.life = "live" /\ d.onConnect = "sub" /\ d.onDisconnect = "sub"
    BY <1>1, <1>2
  <2>2. SubContext(life) = d
    BY <1>4 DEF SubContext, c
  <2>3. QED
    BY <1>4, <2>1, <2>2 DEF Told
<1>5. QED
  BY <1>3, <1>4

LEMMA PubContextTold ==
    ASSUME NEW life \in {"live", "failed"}
    PROVE  PubContext(life).life = life /\ Told("pub", PubContext(life))
BY FieldsAre DEF PubContext, SetConnectCallback, Attach, Context, AddWrite, None, Told

LEMMA OtherCallbackRefused ==
    ASSUME NEW c, Told("sub", c)
    PROVE  /\ Told("sub", SetDisconnectCallback(c, "pub"))
           /\ SetDisconnectCallback(c, "pub").life = c.life
BY FieldsAre DEF Told, SetDisconnectCallback, None
-----------------------------------------------------------------------------
\* The invariant holds at first.
LEMMA InitIInv == Init => IInv
BY FieldsAre DEF Init, IInv, Typed, FlagsTell, Told, Context, Roles, Idle

\* A step that leaves a context what it is, and its flag.
LEMMA KeepingIInv ==
    ASSUME IInv, NEW k \in Roles, NEW d, Keeps(ac[k], d), ac' = [ac EXCEPT ![k] = d],
           flag' = flag, at' \in Roles \cup {Idle}
    PROVE  IInv'
BY DEF IInv, Typed, FlagsTell, Told, Keeps

\* Losing a connection.
LEMMA LoseIInv ==
    ASSUME IInv, NEW k \in Roles, NEW c, Keeps(ac[k], c), ac[k].life = "live", Lose(k, c), at' = at
    PROVE  IInv'
<1>1. Told(k, c) /\ c.life = "live"
  BY DEF IInv, Keeps, Told
<1>2. DOMAIN Freed(ac[k]) = Fields /\ Freed(ac[k]).life = "freed"
  BY FieldsAre DEF Freed, Context
<1>3. Typed'
  BY DEF IInv, Typed, Lose
<1>4. \A r \in Roles : Told(r, ac[r])'
  BY <1>2 DEF IInv, Typed, Lose, Told
<1>5. ac'[k].life = "freed" /\ \A r \in Roles \ {k} : ac'[r] = ac[r] /\ flag'[r] = flag[r]
  BY <1>1, <1>2 DEF IInv, Typed, Lose, Told, Roles, None
<1>6. flag'[k] => k = "pub"
  BY <1>1 DEF IInv, Typed, Lose, Told, Roles, None
<1>7. FlagsTell'
  BY <1>5, <1>6 DEF IInv, FlagsTell
<1>8. QED
  BY <1>3, <1>4, <1>7 DEF IInv

LEMMA SelfKeeps == ASSUME IInv, NEW k \in Roles PROVE Keeps(ac[k], ac[k]) /\ Keeps(ac[k], Connected(ac[k]))
BY FieldsAre DEF IInv, Told, Keeps, Connected

\* Connecting for the first time, and again.
LEMMA StartIInv == IInv /\ Start => IInv'
<1> SUFFICES ASSUME IInv, Start PROVE IInv'
  OBVIOUS
<1>1. PICK life \in Outcomes : /\ flag' = [flag EXCEPT !.sub = TRUE]
                               /\ ac' = [ac EXCEPT !.sub = SubContext(life)]
                               /\ at' = at
  BY DEF Start
<1>2. life \in {"live", "failed"}
  BY <1>1 DEF Outcomes
<1>3. ac'["sub"].life = life /\ Told("sub", ac'["sub"]) /\ ac'["pub"] = ac["pub"] /\ DOMAIN ac' = Roles
  BY <1>1, <1>2, SubContextTold DEF IInv, Typed, Roles
<1>4. flag'["sub"] = TRUE /\ flag'["pub"] = flag["pub"] /\ flag' \in [Roles -> BOOLEAN]
  BY <1>1 DEF IInv, Typed, Roles
<1>5. QED
  BY <1>1, <1>2, <1>3, <1>4 DEF IInv, Typed, FlagsTell, Told, Roles

LEMMA TimeoutIInv == IInv /\ Timeout => IInv'
<1> SUFFICES ASSUME IInv, Timeout PROVE IInv'
  OBVIOUS
<1>1. PICK out \in [Roles -> Outcomes] :
        LET sub == IF flag.sub THEN ac.sub ELSE SubContext(out.sub)
            pub == PubContext(out["pub"])
        IN  /\ flag' = [k \in Roles |-> TRUE] /\ at' = at
            /\ ac' = IF "pub" \notin {k \in Roles : ~flag[k]} THEN [ac EXCEPT !.sub = sub]
                     ELSE [pub |-> pub,
                           sub |-> IF pub.life = "live" THEN SetDisconnectCallback(sub, "pub") ELSE sub]
  BY DEF Timeout
<1> DEFINE sub == IF flag["sub"] THEN ac["sub"] ELSE SubContext(out["sub"])
<1> DEFINE pub == PubContext(out["pub"])
<1>2. out["sub"] \in {"live", "failed"} /\ out["pub"] \in {"live", "failed"}
  BY <1>1 DEF Outcomes, Roles
<1>3. Told("sub", sub) /\ sub.life \notin {"null", "freed"}
  BY <1>2, SubContextTold DEF IInv, Typed, FlagsTell, Roles
<1>4. Told("pub", pub) /\ pub.life \notin {"null", "freed"}
  BY <1>2, PubContextTold
<1>5. CASE flag["pub"]
  <2>1. ac' = [ac EXCEPT !["sub"] = sub]
    BY <1>1, <1>5 DEF Roles
  <2>2. QED
    BY <1>1, <1>3, <1>5, <2>1 DEF IInv, Typed, FlagsTell, Roles
<1>6. CASE ~flag["pub"]
  <2> DEFINE new == IF pub.life = "live" THEN SetDisconnectCallback(sub, "pub") ELSE sub
  <2>1. Told("sub", new) /\ new.life \notin {"null", "freed"}
    BY <1>3, OtherCallbackRefused
  <2>2. ac' = [pub |-> pub, sub |-> new]
    BY <1>1, <1>6 DEF Roles
  <2> HIDE DEF new, sub, pub
  <2>3. DOMAIN ac' = Roles /\ ac'["sub"] = new /\ ac'["pub"] = pub
    BY <2>2 DEF Roles
  <2>4. QED
    BY <1>1, <1>4, <2>1, <2>3 DEF IInv, Typed, FlagsTell, Roles
<1>7. QED
  BY <1>5, <1>6

\* The first event of a connection.
LEMMA WriteBeginsIInv == ASSUME IInv, NEW k \in Roles, WriteBegins(k) PROVE IInv'
<1>1. PICK n : /\ ac' = [ac EXCEPT ![k] = Wrote(Connected(@), n)]
               /\ flag' = [r \in Roles |-> flag[r] \/ (~ac[k].connected /\ ac[k].onConnect = r)]
  BY DEF WriteBegins
<1>2. ac[k].life = "live" /\ ac[k].onConnect = k
  BY DEF WriteBegins, Handles, IInv, Told
<1>3. flag[k]
  BY <1>2 DEF IInv, FlagsTell
<1>4. flag' = flag
  BY <1>1, <1>2, <1>3 DEF IInv, Typed
<1>5. at' \in Roles \cup {Idle}
  BY DEF WriteBegins
<1>6. Keeps(ac[k], Wrote(Connected(ac[k]), n))
  BY WroteKeeps DEF IInv, Told
<1>7. ac' = [ac EXCEPT ![k] = Wrote(Connected(ac[k]), n)]
  BY <1>1
<1>8. QED
  BY <1>4, <1>5, <1>6, <1>7, KeepingIInv

LEMMA ReadIInv == ASSUME IInv, NEW k \in Roles, Read(k) PROVE IInv'
<1> DEFINE r == Head(back[k])
<1>1. ac[k].life = "live" /\ at' = at
  BY DEF Read, Handles
<1>2. CASE Closes(ac[k], r)
  BY <1>1, <1>2, LoseIInv, SelfKeeps DEF Read
<1>3. CASE ~Closes(ac[k], r)
  <2>1. ac' = [ac EXCEPT ![k] = Took(ac[k], r)] /\ flag' = flag
    BY <1>3 DEF Read
  <2>2. Keeps(ac[k], Took(ac[k], r))
    BY TookKeeps DEF IInv, Told
  <2>3. at' \in Roles \cup {Idle}
    BY <1>1 DEF IInv, Typed
  <2>4. QED
    BY <2>1, <2>2, <2>3, KeepingIInv
<1>4. QED
  BY <1>2, <1>3

LEMMA PublishIInv == IInv /\ Publish => IInv'
<1> SUFFICES ASSUME IInv, Publish PROVE IInv'
  OBVIOUS
<1>1. flag' = flag /\ at' \in Roles \cup {Idle}
  BY DEF Publish, IInv, Typed
<1>2. CASE ac' = ac
  BY <1>1, <1>2 DEF IInv, Typed, FlagsTell
<1>3. CASE \E cmd : ac' = [ac EXCEPT !["pub"] = Command(ac["pub"], cmd)]
  BY <1>1, <1>3, CommandKeeps, KeepingIInv DEF IInv, Told, Roles
<1>4. QED
  BY <1>2, <1>3 DEF Publish

LEMMA NextIInv == IInv /\ [Next]_vars => IInv'
<1> SUFFICES ASSUME IInv, [Next]_vars PROVE IInv'
  OBVIOUS
<1>1. CASE WriteEnds
  <2>1. at \in Roles
    BY <1>1 DEF WriteEnds, IInv, Typed
  <2>2. Keeps(ac[at], WriteDone(ac[at], done))
    BY <2>1, WriteDoneKeeps DEF IInv, Told
  <2>3. ac' = [ac EXCEPT ![at] = WriteDone(ac[at], done)] /\ flag' = flag /\ at' = Idle
    BY <1>1 DEF WriteEnds
  <2>4. QED
    BY <2>1, <2>2, <2>3, KeepingIInv
<1>2. CASE UNCHANGED <<flag, ac, at>>
  BY <1>2 DEF IInv, Typed, FlagsTell
<1>3. CASE Stops \/ Starts \/ \E k \in Roles : Answered(k) \/ Serves(k) \/ \E full \in BOOLEAN : Ends(k, full)
  BY <1>2, <1>3 DEF Stops, Starts, Answered, Serves, Ends, thread
<1>4. ASSUME NEW k \in Roles, WriteFails(k) \/ ReadFails(k) PROVE IInv'
  BY <1>4, LoseIInv, SelfKeeps DEF WriteFails, ReadFails, Handles
<1>5. CASE UNCHANGED vars
  BY <1>2, <1>5 DEF vars, thread
<1>6. QED
  BY <1>1, <1>3, <1>4, <1>5, StartIInv, TimeoutIInv, PublishIInv, WriteBeginsIInv, ReadIInv DEF Next, Handler

\* The flags of the redis thread tell what its contexts are, but for the publishing one
\* after a loss, whatever the network and the server do and whenever the reactor
\* publishes (redis_thread.c:126-217).
THEOREM FlagsAreTrue == Spec => []FlagsTell
<1>1. IInv => FlagsTell
  BY DEF IInv
<1>2. QED
  BY <1>1, InitIInv, NextIInv, PTL DEF Spec
-----------------------------------------------------------------------------
(* What is on its way                                                      *)

PublishCommands == [op : {"publish"}, arg : Messages]
SubscribeCommands == [op : {"subscribe"}, arg : ToSet(Channels)]
Pushes == [kind : {"push"}, op : {"subscribe", "message"}, arg : ToSet(Channels), msg : Nat, left : {1}]

\* Each connection carries its own commands and answers, and the subscribing
\* context keeps no callback but those of its channels.
Shape ==
    /\ ac["sub"].obuf \in Seq(SubscribeCommands) /\ wire["sub"] \in Seq(SubscribeCommands)
    /\ ac["pub"].obuf \in Seq(PublishCommands) /\ wire["pub"] \in Seq(PublishCommands)
    /\ back["sub"] \in Seq(Pushes \cup {TooMany}) /\ back["pub"] \in Seq({Value, TooMany})
    /\ ac["pub"].replies \in Seq(PublishCommands) /\ ~ac["pub"].subscribed
    /\ ac["sub"].life = "live" => ac["sub"].subscribed /\ ac["sub"].replies = <<>>

Sockets ==
    /\ sock \in [Roles -> {"none", "connecting", "refused", "open", "eof"}]
    /\ DOMAIN wire = Roles /\ DOMAIN back = Roles

\* What is pending on the publishing connection, in every state of its socket.
Matching ==
    /\ ac["pub"].life # "live" => sock["pub"] = "none"
    /\ sock["pub"] \notin {"open", "eof"} => wire["pub"] = <<>> /\ back["pub"] = <<>>
    /\ sock["pub"] \in {"connecting", "open"} =>
          /\ Len(ac["pub"].replies) = Len(ac["pub"].obuf) + Len(wire["pub"]) + Len(back["pub"])
          /\ \A i \in DOMAIN back["pub"] : back["pub"][i] = Value
    /\ sock["pub"] = "eof" => back["pub"] = <<TooMany>> \/ Len(back["pub"]) <= Len(ac["pub"].replies)

Link == Typed /\ Sockets /\ Shape /\ Matching

LEMMA CommandOn ==
    ASSUME NEW c, DOMAIN c = Fields, NEW cmd
    PROVE  LET d == Command(c, cmd)
           IN  \/ Refuses(c, cmd) /\ d = c
               \/ /\ ~Refuses(c, cmd) /\ d.disconnecting = c.disconnecting
                  /\ d.obuf = Append(c.obuf, cmd)
                  /\ cmd.op = "publish" /\ ~c.subscribed =>
                        d.replies = Append(c.replies, cmd) /\ ~d.subscribed
                  /\ cmd.op = "subscribe" => d.replies = c.replies /\ d.subscribed
<1>1. CASE Refuses(c, cmd)
  BY <1>1 DEF Command
<1>2. CASE ~Refuses(c, cmd)
  <2> DEFINE e == [Registered(c, cmd) EXCEPT !.obuf = Append(@, cmd)]
  <2>1. /\ DOMAIN Registered(c, cmd) = Fields /\ Registered(c, cmd).obuf = c.obuf
        /\ Registered(c, cmd).disconnecting = c.disconnecting
    BY FieldsAre DEF Registered
  <2>2. cmd.op = "publish" /\ ~c.subscribed =>
          Registered(c, cmd).replies = Append(c.replies, cmd) /\ ~Registered(c, cmd).subscribed
    BY FieldsAre DEF Registered
  <2>3. cmd.op = "subscribe" => Registered(c, cmd).replies = c.replies /\ Registered(c, cmd).subscribed
    BY FieldsAre DEF Registered
  <2>4. DOMAIN e = Fields /\ e.obuf = Append(c.obuf, cmd)
        /\ e.replies = Registered(c, cmd).replies /\ e.subscribed = Registered(c, cmd).subscribed
        /\ e.disconnecting = c.disconnecting
    BY <2>1, FieldsAre
  <2> HIDE DEF e
  <2>5. /\ AddWrite(e).obuf = e.obuf /\ AddWrite(e).replies = e.replies
        /\ AddWrite(e).subscribed = e.subscribed /\ AddWrite(e).disconnecting = e.disconnecting
    BY <2>4, FieldsAre DEF AddWrite
  <2>6. Command(c, cmd) = AddWrite(e)
    BY <1>2 DEF Command, e
  <2>7. QED
    BY <1>2, <2>2, <2>3, <2>4, <2>5, <2>6
<1>3. QED
  BY <1>1, <1>2

\* What the other calls leave of a context.
LEMMA CallbackOn == ASSUME NEW c, DOMAIN c = Fields, NEW fn
    PROVE LET d == SetDisconnectCallback(c, fn)
          IN  d.obuf = c.obuf /\ d.replies = c.replies /\ d.subscribed = c.subscribed
BY FieldsAre DEF SetDisconnectCallback

LEMMA WroteOn == ASSUME NEW c, DOMAIN c = Fields, NEW n
    PROVE LET d == Wrote(Connected(c), n)
          IN  /\ d.obuf = SubSeq(c.obuf, n + 1, Len(c.obuf))
              /\ d.replies = c.replies /\ d.subscribed = c.subscribed
BY FieldsAre DEF Wrote, Connected

LEMMA WriteDoneOn == ASSUME NEW c, DOMAIN c = Fields, NEW d
    PROVE LET e == WriteDone(c, d)
          IN  e.obuf = c.obuf /\ e.replies = c.replies /\ e.subscribed = c.subscribed
<1>1. LET x == DelWrite(c) IN DOMAIN x = Fields /\ x.obuf = c.obuf /\ x.replies = c.replies /\ x.subscribed = c.subscribed
  BY FieldsAre DEF DelWrite
<1>2. LET x == AddWrite(c) IN DOMAIN x = Fields /\ x.obuf = c.obuf /\ x.replies = c.replies /\ x.subscribed = c.subscribed
  BY FieldsAre DEF AddWrite
<1>3. ASSUME NEW x, DOMAIN x = Fields
      PROVE  AddRead(x).obuf = x.obuf /\ AddRead(x).replies = x.replies /\ AddRead(x).subscribed = x.subscribed
  BY <1>3, FieldsAre DEF AddRead
<1>4. QED
  BY <1>1, <1>2, <1>3 DEF WriteDone

LEMMA TookOn == ASSUME NEW c, DOMAIN c = Fields, NEW r
    PROVE LET d == Took(c, r)
          IN  /\ d.obuf = c.obuf
              /\ d.replies = IF c.replies # <<>> THEN Tail(c.replies) ELSE c.replies
              /\ c.replies # <<>> \/ r.kind # "push" \/ r.op # "unsubscribe" => d.subscribed = c.subscribed
<1>1. CASE c.replies # <<>>
  BY <1>1, FieldsAre DEF Took
<1>2. CASE c.replies = <<>> /\ r.kind # "push"
  BY <1>2, FieldsAre DEF Took
<1>3. CASE c.replies = <<>> /\ r.kind = "push"
  <2>1. CASE ~(r.op = "unsubscribe" /\ r.arg \in c.channels)
    BY <1>3, <2>1 DEF Took
  <2>2. CASE r.op = "unsubscribe" /\ r.arg \in c.channels
    <3> DEFINE d == [c EXCEPT !.channels = @ \ {r.arg}, !.subscribed = r.left # 0]
    <3>1. d.obuf = c.obuf /\ d.replies = c.replies
      BY FieldsAre
    <3>2. Took(c, r) = d
      BY <1>3, <2>2 DEF Took
    <3>3. QED
      BY <1>3, <2>2, <3>1, <3>2
  <2>3. QED
    BY <2>1, <2>2
<1>4. QED
  BY <1>1, <1>2, <1>3

\* Contexts that were made or are gone.
LEMMA ContextEmpty == ASSUME NEW life
    PROVE LET c == Context(life) IN c.obuf = <<>> /\ c.replies = <<>> /\ ~c.subscribed
BY DEF Context

LEMMA PubContextEmpty == ASSUME NEW life \in {"live", "failed"}
    PROVE LET c == PubContext(life) IN c.obuf = <<>> /\ c.replies = <<>> /\ ~c.subscribed
BY FieldsAre DEF PubContext, SetConnectCallback, Attach, Context, AddWrite, None

LEMMA SubContextSubscribed == ASSUME NEW life \in {"live", "failed"}
    PROVE LET c == SubContext(life)
          IN  /\ c.obuf \in Seq(SubscribeCommands)
              /\ life = "live" => c.subscribed /\ c.replies = <<>>
<1> DEFINE c == SetDisconnectCallback(SetConnectCallback(Attach(Context("live")), "sub"), "sub")
           Good(x) == DOMAIN x = Fields /\ x.obuf \in Seq(SubscribeCommands) /\ x.replies = <<>>
<1>1. Good(c) /\ ~c.disconnecting
  BY FieldsAre DEF SetDisconnectCallback, SetConnectCallback, Attach, Context, AddWrite, None
<1>2. ASSUME NEW i \in 1 .. 4 PROVE Subscribing(Channels[i]) \in SubscribeCommands
  BY RedisLinkAssumption DEF Subscribing, SubscribeCommands, ToSet
<1>3. ASSUME NEW x, NEW i \in 1 .. 4, Good(x), ~x.disconnecting
      PROVE  Good(Subscribed(x, i)) /\ Subscribed(x, i).subscribed /\ ~Subscribed(x, i).disconnecting
  <2> DEFINE cmd == Subscribing(Channels[i])
             y == Command(x, cmd)
  <2>1. cmd.op = "subscribe" /\ ~Refuses(x, cmd)
    BY <1>3 DEF Refuses, Subscribing
  <2> HIDE DEF cmd
  <2>2. /\ DOMAIN y = Fields /\ y.obuf = Append(x.obuf, cmd) /\ y.replies = x.replies /\ y.subscribed
        /\ y.disconnecting = x.disconnecting
    BY <1>3, <2>1, CommandOn, CommandKeeps DEF Keeps
  <2>3. y.obuf \in Seq(SubscribeCommands)
    BY <1>2, <1>3, <2>2 DEF cmd
  <2>4. Subscribed(x, i) = y
    BY DEF Subscribed, cmd
  <2>5. QED
    BY <1>3, <2>2, <2>3, <2>4
<1> DEFINE d == Subscribed(Subscribed(Subscribed(Subscribed(c, 1), 2), 3), 4)
<1>4. CASE life = "live"
  <2> HIDE DEF c, Good
  <2> DEFINE e == Subscribed(c, 1)
             f == Subscribed(e, 2)
             g == Subscribed(f, 3)
  <2>1. Good(e) /\ ~e.disconnecting
    BY <1>1, <1>3
  <2>2. Good(f) /\ ~f.disconnecting
    BY <2>1, <1>3
  <2>3. Good(g) /\ ~g.disconnecting
    BY <2>2, <1>3
  <2>4. Good(Subscribed(g, 4)) /\ Subscribed(g, 4).subscribed
    BY <2>3, <1>3
  <2>5. SubContext(life) = Subscribed(g, 4)
    BY <1>4 DEF SubContext, c
  <2>6. QED
    BY <2>4, <2>5 DEF Good
<1>5. CASE life = "failed"
  <2>1. SubContext(life) = Context("failed")
    BY <1>5 DEF SubContext
  <2>2. SubContext(life).obuf = <<>> /\ <<>> \in Seq(SubscribeCommands)
    BY <2>1, ContextEmpty, EmptySeq
  <2>3. QED
    BY <1>5, <2>2
<1>6. QED
  BY <1>4, <1>5
-----------------------------------------------------------------------------
(* The steps of the thread keep Link                                       *)

Whole == IInv /\ Link /\ published \in Seq(Messages)

LEMMA InitLink == Init => Link
<1> SUFFICES ASSUME Init PROVE Link
  OBVIOUS
<1>1. Typed
  BY InitIInv DEF IInv
<1>2. Sockets
  BY DEF Init, Sockets
<1>3. /\ \A k \in Roles : ac[k].obuf = <<>> /\ ac[k].replies = <<>> /\ ~ac[k].subscribed /\ ac[k].life = "null"
      /\ \A k \in Roles : wire[k] = <<>> /\ back[k] = <<>> /\ sock[k] = "none"
  BY ContextEmpty DEF Init, Context
<1>4. Shape
  BY <1>3, EmptySeq DEF Shape, Roles
<1>5. Matching
  BY <1>3 DEF Matching, Roles
<1>6. QED
  BY <1>1, <1>2, <1>4, <1>5 DEF Link

\* A step that changes neither what the publishing connection carries nor its context.
PubStays ==
    /\ ac'["pub"] = ac["pub"] /\ sock'["pub"] = sock["pub"]
    /\ wire'["pub"] = wire["pub"] /\ back'["pub"] = back["pub"]

LEMMA MatchingStays == Matching /\ PubStays => Matching'
BY DEF Matching, PubStays

\* The publishing connection is new or gone.
PubEmpty ==
    /\ wire'["pub"] = <<>> /\ back'["pub"] = <<>>
    /\ ac'["pub"].obuf = <<>> /\ ac'["pub"].replies = <<>> /\ ~ac'["pub"].subscribed
    /\ sock'["pub"] \in {"none", "connecting"}
    /\ ac'["pub"].life # "live" => sock'["pub"] = "none"

LEMMA MatchingAnew == PubEmpty => Matching'
BY DEF Matching, PubEmpty

LEMMA NewSocketsAre ==
    ASSUME Sockets, NEW K \in SUBSET Roles, NEW out, NewSockets(K, out)
    PROVE  /\ Sockets'
           /\ \A k \in K : /\ wire'[k] = <<>> /\ back'[k] = <<>>
                           /\ sock'[k] = IF out[k] = "live" THEN "connecting" ELSE "none"
           /\ \A k \in Roles \ K : wire'[k] = wire[k] /\ back'[k] = back[k] /\ sock'[k] = sock[k]
BY DEF Sockets, NewSockets, Roles

LEMMA StartLink == Whole /\ Start => Link'
<1> SUFFICES ASSUME Whole, Start PROVE Link'
  OBVIOUS
<1>1. PICK life \in Outcomes : /\ ac' = [ac EXCEPT !.sub = SubContext(life)]
                               /\ NewSockets({"sub"}, [k \in {"sub"} |-> life])
  BY DEF Start
<1>2. life \in {"live", "failed"}
  BY <1>1 DEF Outcomes
<1>3. Typed'
  BY StartIInv DEF Whole, IInv
<1>4. Sockets' /\ wire'["sub"] = <<>> /\ back'["sub"] = <<>> /\ wire'["pub"] = wire["pub"]
      /\ back'["pub"] = back["pub"] /\ sock'["pub"] = sock["pub"]
  <2>1. {"sub"} \in SUBSET Roles /\ "pub" \in Roles \ {"sub"}
    BY DEF Roles
  <2>2. QED
    BY <1>1, <2>1, NewSocketsAre DEF Whole, Link
<1>5. ac'["sub"] = SubContext(life) /\ ac'["pub"] = ac["pub"]
  BY <1>1 DEF Whole, IInv, Typed, Roles
<1>6. Shape'
  BY <1>2, <1>4, <1>5, SubContextSubscribed, SubContextTold, EmptySeq DEF Whole, Link, Shape
<1>7. Matching'
  BY <1>4, <1>5, MatchingStays DEF PubStays, Whole, Link
<1>8. QED
  BY <1>3, <1>4, <1>6, <1>7 DEF Link

LEMMA TimeoutLink == Whole /\ Timeout => Link'
<1> SUFFICES ASSUME Whole, Timeout PROVE Link'
  OBVIOUS
<1> DEFINE down == {k \in Roles : ~flag[k]}
<1>1. PICK out \in [Roles -> Outcomes] :
        LET sub == IF flag.sub THEN ac.sub ELSE SubContext(out.sub)
            pub == PubContext(out["pub"])
        IN  /\ ac' = IF "pub" \notin down THEN [ac EXCEPT !.sub = sub]
                     ELSE [pub |-> pub,
                           sub |-> IF pub.life = "live" THEN SetDisconnectCallback(sub, "pub") ELSE sub]
            /\ NewSockets(down, out)
  BY DEF Timeout
<1> DEFINE sub == IF flag["sub"] THEN ac["sub"] ELSE SubContext(out["sub"])
           pub == PubContext(out["pub"])
           new == IF pub.life = "live" THEN SetDisconnectCallback(sub, "pub") ELSE sub
<1>2. out["sub"] \in {"live", "failed"} /\ out["pub"] \in {"live", "failed"}
  BY <1>1 DEF Outcomes, Roles
<1>3. Typed'
  BY TimeoutIInv DEF Whole, IInv
<1>4. /\ Sockets'
      /\ \A k \in down : /\ wire'[k] = <<>> /\ back'[k] = <<>>
                         /\ sock'[k] = IF out[k] = "live" THEN "connecting" ELSE "none"
      /\ \A k \in Roles \ down : wire'[k] = wire[k] /\ back'[k] = back[k] /\ sock'[k] = sock[k]
  BY <1>1, NewSocketsAre DEF Whole, Link
<1> DEFINE Good(c) == /\ c.obuf \in Seq(SubscribeCommands)
                      /\ c.life = "live" => c.subscribed /\ c.replies = <<>>
<1>5. Good(sub) /\ Told("sub", sub)
  BY <1>2, SubContextSubscribed, SubContextTold DEF Whole, IInv, Link, Shape, Roles
<1>6. Good(new)
  <2> HIDE DEF sub, pub
  <2>1. DOMAIN sub = Fields
    BY <1>5 DEF Told
  <2>2. Good(SetDisconnectCallback(sub, "pub"))
    BY <1>5, <2>1, CallbackOn, OtherCallbackRefused
  <2>3. QED
    BY <1>5, <2>2
<1>7. wire'["sub"] \in Seq(SubscribeCommands) /\ back'["sub"] \in Seq(Pushes \cup {TooMany})
  BY <1>4, EmptySeq DEF Whole, Link, Shape, Roles
<1>8. CASE flag["pub"]
  <2>1. ac'["sub"] = sub /\ ac'["pub"] = ac["pub"]
    BY <1>1, <1>8 DEF Whole, IInv, Typed, Roles
  <2>2. PubStays
    BY <1>4, <1>8, <2>1 DEF PubStays, Roles
  <2>3. Shape'
    BY <1>5, <1>7, <2>1, <2>2 DEF Whole, Link, Shape, PubStays
  <2>4. QED
    BY <1>3, <1>4, <2>2, <2>3, MatchingStays DEF Link, Whole
<1>9. CASE ~flag["pub"]
  <2>1. ac'["sub"] = new /\ ac'["pub"] = pub
    BY <1>1, <1>9 DEF Roles
  <2>2. PubEmpty
    BY <1>2, <1>4, <1>9, <2>1, PubContextEmpty, PubContextTold DEF PubEmpty, Roles
  <2>3. Shape'
    <3> HIDE DEF new, pub, sub
    <3>1. QED
      BY <1>6, <1>7, <2>1, <2>2, EmptySeq DEF Shape, PubEmpty
  <2>4. QED
    BY <1>3, <1>4, <2>2, <2>3, MatchingAnew DEF Link
<1>10. QED
  BY <1>8, <1>9

\* Losing a connection.
LEMMA LoseLink ==
    ASSUME Whole, NEW k \in Roles, NEW c, Lose(k, c), Typed'
    PROVE  Link'
<1>1. /\ ac'[k] = Context("freed") /\ sock'[k] = "none" /\ wire'[k] = <<>> /\ back'[k] = <<>>
      /\ \A r \in Roles \ {k} : /\ ac'[r] = ac[r] /\ sock'[r] = sock[r]
                                /\ wire'[r] = wire[r] /\ back'[r] = back[r]
  BY DEF Lose, Freed, Whole, Link, Typed, Sockets
<1>2. Sockets'
  BY DEF Lose, Whole, Link, Sockets
<1>3. LET f == Context("freed") IN f.obuf = <<>> /\ f.replies = <<>> /\ ~f.subscribed /\ f.life = "freed"
  BY ContextEmpty DEF Context
<1>4. Shape'
  BY <1>1, <1>3, EmptySeq DEF Whole, Link, Shape, Roles
<1>5. CASE k = "pub"
  BY <1>1, <1>2, <1>3, <1>4, <1>5, MatchingAnew DEF PubEmpty, Link
<1>6. CASE k = "sub"
  BY <1>1, <1>2, <1>4, <1>6, MatchingStays DEF PubStays, Link, Whole, Roles
<1>7. QED
  BY <1>5, <1>6 DEF Roles

LEMMA SubWritten ==
    ASSUME NEW S, NEW q \in Seq(S), NEW n \in 0 .. Len(q)
    PROVE  /\ SubSeq(q, 1, n) \in Seq(S) /\ Len(SubSeq(q, 1, n)) = n
           /\ SubSeq(q, n + 1, Len(q)) \in Seq(S) /\ Len(SubSeq(q, n + 1, Len(q))) = Len(q) - n
OBVIOUS

\* Sums of lengths.
LEMMA LastLess == \A a, b, c \in Nat : a + b + c - 1 = a + b + (c - 1)
OBVIOUS

LEMMA LastWithin == \A a, b, c \in Nat : c <= a + b + c /\ (c # 0 => a + b + c # 0)
OBVIOUS

LEMMA Joined ==
    ASSUME NEW S, NEW p \in Seq(S), NEW q \in Seq(S)
    PROVE  p \o q \in Seq(S) /\ Len(p \o q) = Len(p) + Len(q)
OBVIOUS

\* What the socket takes goes from the buffer to the wire, or is lost at the end of
\* the connection.
LEMMA WriteBeginsEffect ==
    ASSUME Whole, NEW k \in Roles, WriteBegins(k)
    PROVE  \E n \in 0 .. Len(ac[k].obuf) :
              /\ ac'[k].obuf = SubSeq(ac[k].obuf, n + 1, Len(ac[k].obuf))
              /\ ac'[k].replies = ac[k].replies /\ ac'[k].subscribed = ac[k].subscribed
              /\ ac'[k].life = ac[k].life /\ ac[k].life = "live"
              /\ wire'[k] = IF sock[k] = "eof" THEN wire[k] ELSE wire[k] \o SubSeq(ac[k].obuf, 1, n)
              /\ sock[k] \in {"open", "eof"}
              /\ \A r \in Roles \ {k} : ac'[r] = ac[r] /\ wire'[r] = wire[r]
<1>1. PICK n \in 0 .. Len(ac[k].obuf) :
        /\ ac' = [ac EXCEPT ![k] = Wrote(Connected(@), n)]
        /\ wire' = IF sock[k] = "eof" THEN wire ELSE [wire EXCEPT ![k] = @ \o SubSeq(ac[k].obuf, 1, n)]
  BY DEF WriteBegins
<1>2. DOMAIN ac[k] = Fields
  BY DEF Whole, IInv, Told
<1>3. ac'[k] = Wrote(Connected(ac[k]), n) /\ \A r \in Roles \ {k} : ac'[r] = ac[r]
  BY <1>1 DEF Whole, IInv, Typed
<1>4. /\ wire'[k] = IF sock[k] = "eof" THEN wire[k] ELSE wire[k] \o SubSeq(ac[k].obuf, 1, n)
      /\ \A r \in Roles \ {k} : wire'[r] = wire[r]
  BY <1>1 DEF Whole, Link, Sockets
<1>5. sock[k] \in {"open", "eof"} /\ ac[k].life = "live"
  BY DEF WriteBegins, Handles
<1> DEFINE d == Wrote(Connected(ac[k]), n)
<1>6. /\ d.obuf = SubSeq(ac[k].obuf, n + 1, Len(ac[k].obuf))
      /\ d.replies = ac[k].replies /\ d.subscribed = ac[k].subscribed
  BY <1>2, WroteOn
<1>7. d.life = ac[k].life
  BY <1>2, WroteKeeps DEF Keeps
<1>8. QED
  BY <1>3, <1>4, <1>5, <1>6, <1>7

LEMMA WriteBeginsLink == ASSUME Whole, NEW k \in Roles, WriteBegins(k) PROVE Link'
<1>1. PICK n \in 0 .. Len(ac[k].obuf) :
        /\ ac'[k].obuf = SubSeq(ac[k].obuf, n + 1, Len(ac[k].obuf))
        /\ ac'[k].replies = ac[k].replies /\ ac'[k].subscribed = ac[k].subscribed
        /\ ac'[k].life = ac[k].life /\ ac[k].life = "live"
        /\ wire'[k] = IF sock[k] = "eof" THEN wire[k] ELSE wire[k] \o SubSeq(ac[k].obuf, 1, n)
        /\ sock[k] \in {"open", "eof"}
        /\ \A r \in Roles \ {k} : ac'[r] = ac[r] /\ wire'[r] = wire[r]
  BY WriteBeginsEffect
<1>2. sock' = sock /\ back' = back
  BY DEF WriteBegins
<1>3. Typed'
  BY WriteBeginsIInv DEF Whole, IInv
<1>4. Sockets'
  BY <1>2 DEF WriteBegins, Whole, Link, Sockets
<1>5. CASE k = "pub"
  <2> DEFINE q == ac["pub"].obuf
  <2>1. q \in Seq(PublishCommands) /\ wire["pub"] \in Seq(PublishCommands)
    BY DEF Whole, Link, Shape
  <2>2. /\ SubSeq(q, 1, n) \in Seq(PublishCommands) /\ Len(SubSeq(q, 1, n)) = n
        /\ ac'["pub"].obuf \in Seq(PublishCommands) /\ Len(ac'["pub"].obuf) = Len(q) - n
    BY <1>1, <1>5, <2>1, SubWritten
  <2>3. LET w == wire["pub"] \o SubSeq(q, 1, n)
        IN  w \in Seq(PublishCommands) /\ Len(w) = Len(wire["pub"]) + n
    BY <2>1, <2>2, Joined
  <2>4. /\ wire'["pub"] \in Seq(PublishCommands)
        /\ sock["pub"] = "open" => Len(wire'["pub"]) = Len(wire["pub"]) + n
    BY <1>1, <1>5, <2>1, <2>3
  <2>5. Shape'
    BY <1>1, <1>2, <1>5, <2>2, <2>4 DEF Whole, Link, Shape, Roles
  <2>6. /\ ac'["pub"].replies = ac["pub"].replies /\ ac'["pub"].life = "live"
        /\ sock["pub"] \in {"open", "eof"}
    BY <1>1, <1>5
  <2>7. Matching'
    <3>1. Len(q) \in Nat /\ Len(wire["pub"]) \in Nat /\ Len(back["pub"]) \in Nat /\ n \in Nat
      BY <2>1 DEF Whole, Link, Shape
    <3>2. CASE sock["pub"] = "open"
      <4>1. Len(ac["pub"].replies) = Len(q) + Len(wire["pub"]) + Len(back["pub"])
        BY <3>2 DEF Whole, Link, Matching
      <4>2. Len(ac["pub"].replies) = (Len(q) - n) + (Len(wire["pub"]) + n) + Len(back["pub"])
        <5> DEFINE a == Len(q)
                   b == Len(wire["pub"])
                   c == Len(back["pub"])
        <5> HIDE DEF q, a, b, c
        <5>1. a \in Nat /\ b \in Nat /\ c \in Nat /\ n \in Nat
          BY <3>1 DEF a, b, c
        <5>2. a + b + c = (a - n) + (b + n) + c
          BY <5>1
        <5>3. QED
          BY <4>1, <5>2 DEF a, b, c
      <4>3. Len(ac'["pub"].replies) = Len(ac'["pub"].obuf) + Len(wire'["pub"]) + Len(back'["pub"])
        BY <1>2, <2>2, <2>4, <2>6, <3>2, <4>2
      <4>4. QED
        BY <1>2, <2>6, <3>2, <4>3 DEF Whole, Link, Matching
    <3>3. CASE sock["pub"] = "eof"
      BY <1>2, <2>6, <3>3 DEF Whole, Link, Matching
    <3>4. QED
      BY <2>6, <3>2, <3>3
  <2>8. QED
    BY <1>3, <1>4, <2>5, <2>7 DEF Link
<1>6. CASE k = "sub"
  <2> DEFINE q == ac["sub"].obuf
  <2>1. q \in Seq(SubscribeCommands) /\ wire["sub"] \in Seq(SubscribeCommands)
    BY DEF Whole, Link, Shape
  <2>2. SubSeq(q, 1, n) \in Seq(SubscribeCommands) /\ ac'["sub"].obuf \in Seq(SubscribeCommands)
    BY <1>1, <1>6, <2>1, SubWritten
  <2>3. wire'["sub"] \in Seq(SubscribeCommands)
    BY <1>1, <1>6, <2>1, <2>2, Joined
  <2>4. PubStays
    BY <1>1, <1>2, <1>6 DEF PubStays, Roles
  <2>5. Shape'
    BY <1>1, <1>2, <1>6, <2>2, <2>3, <2>4 DEF Whole, Link, Shape, PubStays
  <2>6. QED
    BY <1>3, <1>4, <2>4, <2>5, MatchingStays DEF Link, Whole
<1>7. QED
  BY <1>5, <1>6 DEF Roles

LEMMA WriteEndsLink == Whole /\ WriteEnds => Link'
<1> SUFFICES ASSUME Whole, WriteEnds PROVE Link'
  OBVIOUS
<1>1. at \in Roles /\ ac' = [ac EXCEPT ![at] = WriteDone(@, done)]
      /\ UNCHANGED <<sock, wire, back>>
  BY DEF WriteEnds, Whole, IInv, Typed, net
<1>2. Typed'
  <2>1. flag' = flag /\ at' = Idle
    BY DEF WriteEnds
  <2>2. QED
    BY <1>1, <2>1 DEF Whole, IInv, Typed
<1>3. \A r \in Roles : /\ ac'[r].obuf = ac[r].obuf /\ ac'[r].replies = ac[r].replies
                       /\ ac'[r].subscribed = ac[r].subscribed /\ ac'[r].life = ac[r].life
  <2>1. DOMAIN ac[at] = Fields
    BY <1>1 DEF Whole, IInv, Told
  <2>2. ac'[at] = WriteDone(ac[at], done) /\ \A r \in Roles \ {at} : ac'[r] = ac[r]
    BY <1>1 DEF Whole, IInv, Typed
  <2>3. QED
    BY <2>1, <2>2, WriteDoneOn, WriteDoneKeeps DEF Keeps
<1>4. QED
  BY <1>1, <1>2, <1>3 DEF Whole, Link, Shape, Matching, Sockets, Roles

\* What the subscribing context reads without closing is pushed.
LEMMA ReadsPush ==
    ASSUME Whole, Read("sub"), ~Closes(ac["sub"], Head(back["sub"]))
    PROVE  Head(back["sub"]) \in Pushes
<1>1. back["sub"] \in Seq(Pushes \cup {TooMany}) /\ back["sub"] # <<>>
  BY DEF Read, Whole, Link, Shape
<1>2. ac["sub"].replies = <<>>
  BY DEF Read, Handles, Whole, Link, Shape
<1>3. Head(back["sub"]) # TooMany
  BY <1>2 DEF Closes, TooMany
<1>4. QED
  BY <1>1, <1>3, HeadTailProperties

\* A reply is for the command that has waited longest; an error that the server sends
\* of its own accord closes a connection with nothing pending.
LEMMA ReadLink == ASSUME Whole, NEW k \in Roles, Read(k) PROVE Link'
<1> DEFINE r == Head(back[k])
<1>1. Typed'
  BY ReadIInv DEF Whole, IInv
<1>2. CASE Closes(ac[k], r)
  BY <1>1, <1>2, LoseLink DEF Read
<1>3. CASE ~Closes(ac[k], r)
  <2>1. /\ ac' = [ac EXCEPT ![k] = Took(@, r)] /\ back' = [back EXCEPT ![k] = Tail(@)]
        /\ sock' = sock /\ wire' = wire /\ back[k] # <<>>
    BY <1>3 DEF Read
  <2>2. /\ ac'[k] = Took(ac[k], r) /\ back'[k] = Tail(back[k])
        /\ \A j \in Roles \ {k} : ac'[j] = ac[j] /\ back'[j] = back[j]
    BY <2>1 DEF Whole, Link, Typed, Sockets
  <2>3. DOMAIN ac[k] = Fields
    BY DEF Whole, IInv, Told
  <2>4. Sockets'
    BY <2>1 DEF Whole, Link, Sockets
  <2>5. ac'[k].life = ac[k].life /\ ac'[k].obuf = ac[k].obuf
    <3>1. Took(ac[k], r).life = ac[k].life
      BY <2>3, TookKeeps DEF Keeps
    <3>2. Took(ac[k], r).obuf = ac[k].obuf
      BY <2>3, TookOn
    <3>3. QED
      BY <2>2, <3>1, <3>2
  <2>6. CASE k = "pub"
    <3> DEFINE a == ac["pub"]
               b == back["pub"]
    <3>1. b \in Seq({Value, TooMany}) /\ b # <<>> /\ r \in {Value, TooMany}
      BY <2>1, <2>6 DEF Whole, Link, Shape
    <3>2. sock["pub"] \in {"open", "eof"}
      BY <2>1, <2>6 DEF Whole, Link, Matching
    <3>3. a.replies # <<>>
      <4>1. CASE sock["pub"] = "open"
        <5>1. Len(a.replies) = Len(a.obuf) + Len(wire["pub"]) + Len(b)
          BY <4>1 DEF Whole, Link, Matching
        <5>2. Len(a.obuf) \in Nat /\ Len(wire["pub"]) \in Nat /\ Len(b) \in Nat /\ Len(b) # 0
          BY <3>1 DEF Whole, Link, Shape
        <5>3. Len(a.replies) # 0
          BY <5>1, <5>2, LastWithin
        <5>4. QED
          BY <5>3
      <4>2. CASE sock["pub"] = "eof" /\ b = <<TooMany>>
        BY <1>3, <2>6, <4>2 DEF Closes, TooMany
      <4>3. CASE sock["pub"] = "eof" /\ Len(b) <= Len(a.replies)
        BY <3>1, <4>3 DEF Whole, Link, Shape
      <4>4. QED
        BY <3>2, <4>1, <4>2, <4>3 DEF Whole, Link, Matching
    <3>4. /\ ac'["pub"].replies = Tail(a.replies) /\ ac'["pub"].subscribed = a.subscribed
      BY <2>2, <2>3, <2>6, <3>3, TookOn
    <3>5. /\ a.replies \in Seq(PublishCommands) /\ Tail(a.replies) \in Seq(PublishCommands)
          /\ Len(Tail(a.replies)) = Len(a.replies) - 1
      BY <3>3, HeadTailProperties DEF Whole, Link, Shape
    <3>6. /\ Tail(b) \in Seq({Value, TooMany}) /\ Len(Tail(b)) = Len(b) - 1
          /\ \A i \in DOMAIN Tail(b) : Tail(b)[i] = b[i + 1] /\ i + 1 \in DOMAIN b
      BY <3>1, HeadTailProperties
    <3>7. Shape'
      BY <2>1, <2>2, <2>5, <2>6, <3>4, <3>5, <3>6 DEF Whole, Link, Shape, Roles
    <3>8. Matching'
      <4>1. Len(a.replies) \in Nat /\ Len(b) \in Nat /\ Len(a.obuf) \in Nat /\ Len(wire["pub"]) \in Nat
        BY <3>1, <3>5 DEF Whole, Link, Shape
      <4>2. /\ back'["pub"] = Tail(b) /\ ac'["pub"].obuf = a.obuf /\ ac'["pub"].life = a.life
            /\ wire'["pub"] = wire["pub"] /\ sock'["pub"] = sock["pub"]
        BY <2>1, <2>2, <2>5, <2>6
      <4>3. CASE sock["pub"] = "open"
        <5>1. /\ Len(a.replies) = Len(a.obuf) + Len(wire["pub"]) + Len(b)
              /\ \A i \in DOMAIN b : b[i] = Value
          BY <4>3 DEF Whole, Link, Matching
        <5>2. Len(Tail(a.replies)) = Len(a.obuf) + Len(wire["pub"]) + Len(Tail(b))
          <6>1. Len(a.replies) - 1 = Len(a.obuf) + Len(wire["pub"]) + (Len(b) - 1)
            BY <4>1, <5>1, LastLess
          <6>2. QED
            BY <3>5, <3>6, <6>1
        <5>3. \A i \in DOMAIN Tail(b) : Tail(b)[i] = Value
          BY <3>6, <5>1
        <5>4. QED
          BY <3>4, <4>2, <4>3, <5>2, <5>3 DEF Whole, Link, Matching
      <4>4. CASE sock["pub"] = "eof"
        <5>1. Len(Tail(b)) <= Len(Tail(a.replies))
          <6>1. CASE b = <<TooMany>>
            BY <3>3, <3>5, <3>6, <4>1, <6>1
          <6>2. CASE Len(b) <= Len(a.replies)
            BY <3>5, <3>6, <4>1, <6>2
          <6>3. QED
            BY <4>4, <6>1, <6>2 DEF Whole, Link, Matching
        <5>2. QED
          BY <3>4, <4>2, <4>4, <5>1 DEF Whole, Link, Matching
      <4>5. QED
        BY <3>2, <4>3, <4>4
    <3>9. QED
      BY <1>1, <2>4, <3>7, <3>8 DEF Link
  <2>7. CASE k = "sub"
    <3> DEFINE a == ac["sub"]
               b == back["sub"]
    <3>1. b \in Seq(Pushes \cup {TooMany}) /\ b # <<>> /\ r \in Pushes \cup {TooMany}
      BY <2>1, <2>7 DEF Whole, Link, Shape
    <3>2. Tail(b) \in Seq(Pushes \cup {TooMany})
      BY <3>1, HeadTailProperties
    <3>3. a.life = "live" /\ a.subscribed /\ a.replies = <<>>
      BY <2>7 DEF Read, Handles, Whole, Link, Shape
    <3>4. r.kind = "push" /\ r.op # "unsubscribe"
      BY <1>3, <2>7, ReadsPush DEF Pushes
    <3>5. ac'["sub"].replies = <<>> /\ ac'["sub"].subscribed = a.subscribed
      <4>1. LET d == Took(a, r) IN d.replies = <<>> /\ d.subscribed = a.subscribed
        BY <2>3, <2>7, <3>3, <3>4, TookOn
      <4>2. QED
        BY <2>2, <2>7, <4>1
    <3>6. PubStays
      BY <2>1, <2>2, <2>7 DEF PubStays, Roles
    <3>7. Shape'
      BY <2>1, <2>2, <2>5, <2>7, <3>2, <3>3, <3>5, <3>6 DEF Whole, Link, Shape, PubStays, Roles
    <3>8. QED
      BY <1>1, <2>4, <3>6, <3>7, MatchingStays DEF Link, Whole
  <2>8. QED
    BY <2>6, <2>7 DEF Roles
<1>4. QED
  BY <1>2, <1>3
-----------------------------------------------------------------------------
(* The steps of the others keep Link                                       *)

LEMMA PublishLink == Whole /\ Publish => Link'
<1> SUFFICES ASSUME Whole, Publish PROVE Link'
  OBVIOUS
<1> DEFINE a == ac["pub"]
           cmd == Publishing(Len(published) + 1)
           d == Command(a, cmd)
<1>1. Typed'
  BY PublishIInv DEF Whole, IInv
<1>2. wire' = wire /\ back' = back /\ sock' = sock
  BY DEF Publish, net
<1>3. Sockets'
  BY <1>2 DEF Whole, Link, Sockets
<1>4. CASE ac' = ac
  BY <1>1, <1>2, <1>3, <1>4 DEF Whole, Link, Shape, Matching
<1>5. CASE ac' = [ac EXCEPT !["pub"] = d]
  <2>1. ac'["pub"] = d /\ ac'["sub"] = ac["sub"]
    BY <1>5 DEF Whole, Link, Typed, Roles
  <2>2. cmd \in PublishCommands
    BY RedisLinkAssumption DEF Publish, Publishing, PublishCommands, Whole, Messages
  <2>3. DOMAIN a = Fields /\ ~a.subscribed
    BY DEF Whole, IInv, Told, Link, Shape, Roles
  <2>4. d.life = a.life
    BY <2>3, CommandKeeps DEF Keeps
  <2>5. cmd.op = "publish"
    BY DEF Publishing
  <2> HIDE DEF cmd
  <2>6. \/ d = a
        \/ d.obuf = Append(a.obuf, cmd) /\ d.replies = Append(a.replies, cmd) /\ ~d.subscribed
    BY <2>3, <2>5, CommandOn
  <2>7. CASE d = a
    BY <1>1, <1>2, <1>3, <2>1, <2>7 DEF Whole, Link, Shape, Matching
  <2>8. CASE d.obuf = Append(a.obuf, cmd) /\ d.replies = Append(a.replies, cmd) /\ ~d.subscribed
    <3>1. a.obuf \in Seq(PublishCommands) /\ a.replies \in Seq(PublishCommands)
      BY DEF Whole, Link, Shape
    <3>2. /\ d.obuf \in Seq(PublishCommands) /\ Len(d.obuf) = Len(a.obuf) + 1
          /\ d.replies \in Seq(PublishCommands) /\ Len(d.replies) = Len(a.replies) + 1
      BY <2>2, <2>8, <3>1, AppendProperties
    <3>3. Shape'
      BY <1>2, <2>1, <2>8, <3>2 DEF Whole, Link, Shape
    <3>4. /\ Len(a.obuf) \in Nat /\ Len(a.replies) \in Nat
          /\ Len(wire["pub"]) \in Nat /\ Len(back["pub"]) \in Nat
      BY <3>1 DEF Whole, Link, Shape
    <3>5. Matching'
      <4>1. CASE sock["pub"] \in {"connecting", "open"}
        <5>1. /\ Len(a.replies) = Len(a.obuf) + Len(wire["pub"]) + Len(back["pub"])
              /\ \A i \in DOMAIN back["pub"] : back["pub"][i] = Value
          BY <4>1 DEF Whole, Link, Matching
        <5>2. Len(d.replies) = Len(d.obuf) + Len(wire["pub"]) + Len(back["pub"])
          <6>1. Len(a.replies) + 1 = (Len(a.obuf) + 1) + Len(wire["pub"]) + Len(back["pub"])
            <7> DEFINE x == Len(a.obuf)
                       y == Len(wire["pub"])
                       z == Len(back["pub"])
            <7> HIDE DEF a, d, x, y, z
            <7>1. x \in Nat /\ y \in Nat /\ z \in Nat
              BY <3>4 DEF x, y, z
            <7>2. (x + y + z) + 1 = (x + 1) + y + z
              BY <7>1
            <7>3. QED
              BY <5>1, <7>2 DEF x, y, z
          <6>2. QED
            BY <3>2, <6>1
        <5> HIDE DEF a, d
        <5>3. QED
          BY <1>2, <2>1, <2>4, <4>1, <5>1, <5>2 DEF Whole, Link, Matching, a
      <4>2. CASE sock["pub"] = "eof"
        <5>1. back["pub"] = <<TooMany>> \/ Len(back["pub"]) <= Len(a.replies)
          BY <4>2 DEF Whole, Link, Matching
        <5>2. back["pub"] = <<TooMany>> \/ Len(back["pub"]) <= Len(d.replies)
          <6>1. Len(back["pub"]) <= Len(a.replies) => Len(back["pub"]) <= Len(a.replies) + 1
            BY <3>4
          <6>2. QED
            BY <3>2, <5>1, <6>1
        <5> HIDE DEF a, d
        <5>3. QED
          BY <1>2, <2>1, <2>4, <4>2, <5>2 DEF Whole, Link, Matching, a
      <4>3. CASE sock["pub"] \notin {"connecting", "open", "eof"}
        <5> HIDE DEF a, d
        <5>1. QED
          BY <1>2, <2>1, <2>4, <4>3 DEF Whole, Link, Matching, a
      <4>4. QED
        BY <4>1, <4>2, <4>3
    <3>6. QED
      BY <1>1, <1>3, <3>3, <3>5 DEF Link
  <2>9. QED
    BY <2>6, <2>7, <2>8
<1>6. QED
  BY <1>4, <1>5 DEF Publish

\* What the kernel and the server do to the publishing connection.
LEMMA AnsweredLink == ASSUME Whole, NEW k \in Roles, Answered(k) PROVE Link'
<1>1. /\ ac' = ac /\ flag' = flag /\ at' = at /\ wire' = wire /\ back' = back
      /\ sock[k] = "connecting" /\ sock'[k] \in {"open", "refused"}
      /\ \A r \in Roles \ {k} : sock'[r] = sock[r]
  BY DEF Answered, thread, Whole, Link, Sockets
<1>2. Sockets'
  BY <1>1 DEF Answered, Whole, Link, Sockets
<1>3. Typed' /\ Shape'
  BY <1>1 DEF Whole, Link, Typed, Shape
<1>4. Matching'
  BY <1>1 DEF Whole, Link, Matching, Roles
<1>5. QED
  BY <1>2, <1>3, <1>4 DEF Link

LEMMA StopsLink == Whole /\ Stops => Link'
<1> SUFFICES ASSUME Whole, Stops PROVE Link'
  OBVIOUS
<1>1. /\ ac' = ac /\ flag' = flag /\ at' = at /\ back' = back
      /\ \A r \in Roles : /\ sock'[r] = IF sock[r] = "open" THEN "eof" ELSE sock[r]
                          /\ wire'[r] = <<>>
  BY DEF Stops, thread
<1>2. Sockets'
  BY <1>1 DEF Stops, Whole, Link, Sockets
<1>3. Typed' /\ Shape'
  BY <1>1, EmptySeq DEF Whole, Link, Typed, Shape, Roles
<1>4. Matching'
  <2>1. CASE sock["pub"] = "open"
    <3>1. Len(back["pub"]) <= Len(ac["pub"].replies)
      <4>1. Len(ac["pub"].replies) = Len(ac["pub"].obuf) + Len(wire["pub"]) + Len(back["pub"])
        BY <2>1 DEF Whole, Link, Matching
      <4>2. Len(ac["pub"].obuf) \in Nat /\ Len(wire["pub"]) \in Nat /\ Len(back["pub"]) \in Nat
        BY DEF Whole, Link, Shape
      <4>3. QED
        BY <4>1, <4>2, LastWithin
    <3>2. QED
      BY <1>1, <2>1, <3>1 DEF Whole, Link, Matching, Roles
  <2>2. CASE sock["pub"] = "connecting"
    <3>1. wire["pub"] = <<>>
      BY <2>2 DEF Whole, Link, Matching
    <3>2. QED
      BY <1>1, <2>2, <3>1 DEF Whole, Link, Matching, Roles
  <2>3. CASE sock["pub"] \notin {"open", "connecting"}
    BY <1>1, <2>3 DEF Whole, Link, Matching, Roles
  <2>4. QED
    BY <2>1, <2>2, <2>3
<1>5. QED
  BY <1>2, <1>3, <1>4 DEF Link

LEMMA EndsLink == ASSUME Whole, NEW k \in Roles, NEW full \in BOOLEAN, Ends(k, full) PROVE Link'
<1>1. /\ ac' = ac /\ flag' = flag /\ at' = at
      /\ sock[k] = "open" /\ sock'[k] = "eof" /\ wire'[k] = <<>>
      /\ back'[k] = IF full THEN <<TooMany>> ELSE back[k]
      /\ \A r \in Roles \ {k} : sock'[r] = sock[r] /\ wire'[r] = wire[r] /\ back'[r] = back[r]
  BY DEF Ends, thread, Whole, Link, Sockets
<1>2. Sockets'
  BY <1>1 DEF Ends, Whole, Link, Sockets
<1>3. Typed'
  BY <1>1 DEF Whole, Link, Typed
<1>4. Shape'
  <2>1. <<TooMany>> \in Seq({Value, TooMany}) /\ <<TooMany>> \in Seq(Pushes \cup {TooMany})
    OBVIOUS
  <2>2. QED
    BY <1>1, <2>1, EmptySeq DEF Whole, Link, Shape, Roles
<1>5. CASE k = "pub"
  <2>1. Len(back["pub"]) <= Len(ac["pub"].replies)
    <3>1. Len(ac["pub"].replies) = Len(ac["pub"].obuf) + Len(wire["pub"]) + Len(back["pub"])
      BY <1>1, <1>5 DEF Whole, Link, Matching
    <3>2. Len(ac["pub"].obuf) \in Nat /\ Len(wire["pub"]) \in Nat /\ Len(back["pub"]) \in Nat
      BY DEF Whole, Link, Shape
    <3>3. QED
      BY <3>1, <3>2, LastWithin
  <2>2. Matching'
    BY <1>1, <1>5, <2>1 DEF Whole, Link, Matching
  <2>3. QED
    BY <1>2, <1>3, <1>4, <2>2 DEF Link
<1>6. CASE k = "sub"
  <2>1. PubStays
    BY <1>1, <1>6 DEF PubStays, Roles
  <2>2. QED
    BY <1>2, <1>3, <1>4, <2>1, MatchingStays DEF Link, Whole
<1>7. QED
  BY <1>5, <1>6 DEF Roles

\* The server.
LEMMA LastChannel == Last(Channels) \in ToSet(Channels)
BY RedisLinkAssumption DEF Last, ToSet

LEMMA PushIs == ASSUME NEW op \in {"subscribe", "message"}, NEW ch \in ToSet(Channels), NEW m \in Nat
                PROVE  Push(op, ch, m) \in Pushes
BY DEF Push, Pushes

\* What the server takes and what it answers, on each of the connections.
LEMMA ServesSub ==
    ASSUME Whole, Serves("sub")
    PROVE  /\ wire["sub"] # <<>> /\ wire'["sub"] = Tail(wire["sub"]) /\ received' = received
           /\ \E p \in Pushes : p.op = "subscribe" /\ back'["sub"] = Append(back["sub"], p)
           /\ wire'["pub"] = wire["pub"] /\ back'["pub"] = back["pub"]
           /\ Sockets' /\ UNCHANGED <<thread, sock, published, delivered>>
<1> DEFINE cmd == Head(wire["sub"])
<1>1. wire["sub"] # <<>> /\ wire' = [wire EXCEPT !["sub"] = Tail(@)]
  BY DEF Serves
<1>2. cmd.op = "subscribe" /\ cmd.arg \in ToSet(Channels)
  <2>1. cmd \in SubscribeCommands
    BY <1>1, HeadTailProperties DEF Whole, Link, Shape
  <2>2. QED
    BY <2>1 DEF SubscribeCommands
<1> DEFINE p == Push("subscribe", cmd.arg, 0)
<1>3. p \in Pushes /\ p.op = "subscribe"
  <2>1. p.op = "subscribe"
    BY DEF Push
  <2>2. QED
    BY <1>2, <2>1, PushIs
<1>4. back' = [back EXCEPT !["sub"] = Append(@, p)] /\ received' = received
  BY <1>2 DEF Serves
<1>5. UNCHANGED <<thread, sock, published, delivered>>
  BY DEF Serves
<1> HIDE DEF p
<1>6. back'["sub"] = Append(back["sub"], p) /\ back'["pub"] = back["pub"]
  BY <1>4 DEF Whole, Link, Sockets, Roles
<1>7. wire'["sub"] = Tail(wire["sub"]) /\ wire'["pub"] = wire["pub"]
  BY <1>1 DEF Whole, Link, Sockets, Roles
<1>8. Sockets'
  BY <1>1, <1>4, <1>5 DEF Whole, Link, Sockets
<1>9. QED
  BY <1>1, <1>3, <1>4, <1>5, <1>6, <1>7, <1>8

LEMMA ServesPub ==
    ASSUME Whole, Serves("pub")
    PROVE  LET cmd == Head(wire["pub"])
           IN  /\ sock["pub"] = "open"
               /\ wire["pub"] # <<>> /\ wire'["pub"] = Tail(wire["pub"]) /\ wire'["sub"] = wire["sub"]
               /\ cmd \in PublishCommands /\ received' = Append(received, cmd.arg)
               /\ back'["pub"] = Append(back["pub"], Value)
               /\ back'["sub"] \in {back["sub"], Append(back["sub"], Push("message", Last(Channels), cmd.arg))}
               /\ Sockets' /\ UNCHANGED <<thread, sock, published, delivered>>
<1> DEFINE cmd == Head(wire["pub"])
           p == Push("message", Last(Channels), cmd.arg)
<1>1. sock["pub"] = "open" /\ wire["pub"] # <<>> /\ wire' = [wire EXCEPT !["pub"] = Tail(@)]
  BY DEF Serves
<1>2. cmd \in PublishCommands /\ cmd.op # "subscribe"
  <2>1. cmd \in PublishCommands
    BY <1>1, HeadTailProperties DEF Whole, Link, Shape
  <2>2. QED
    BY <2>1 DEF PublishCommands
<1>3. /\ received' = Append(received, cmd.arg)
      /\ back' = [pub |-> Append(back["pub"], Value),
                  sub |-> IF Last(Channels) \in subs THEN Append(back["sub"], p) ELSE back["sub"]]
  BY <1>2 DEF Serves
<1>4. UNCHANGED <<thread, sock, published, delivered>>
  BY DEF Serves
<1> HIDE DEF cmd, p
<1>5. /\ back'["pub"] = Append(back["pub"], Value)
      /\ back'["sub"] \in {back["sub"], Append(back["sub"], p)}
      /\ DOMAIN back' = Roles
  BY <1>3 DEF Roles
<1>6. wire'["pub"] = Tail(wire["pub"]) /\ wire'["sub"] = wire["sub"]
  BY <1>1 DEF Whole, Link, Sockets, Roles
<1>7. Sockets'
  BY <1>1, <1>4, <1>5 DEF Whole, Link, Sockets
<1>8. QED
  BY <1>1, <1>2, <1>3, <1>4, <1>5, <1>6, <1>7 DEF cmd, p

LEMMA ServesLink == ASSUME Whole, NEW k \in Roles, Serves(k) PROVE Link'
<1>1. ac' = ac /\ flag' = flag /\ at' = at /\ sock' = sock
  BY DEF Serves, thread
<1>2. Typed'
  BY <1>1 DEF Whole, Link, Typed
<1>3. CASE k = "sub"
  <2>1. PICK p \in Pushes : back'["sub"] = Append(back["sub"], p)
    BY <1>3, ServesSub
  <2>2. /\ wire["sub"] # <<>> /\ wire'["sub"] = Tail(wire["sub"])
        /\ wire'["pub"] = wire["pub"] /\ back'["pub"] = back["pub"] /\ Sockets'
    BY <1>3, ServesSub
  <2>3. wire'["sub"] \in Seq(SubscribeCommands)
    BY <2>2, HeadTailProperties DEF Whole, Link, Shape
  <2>4. back'["sub"] \in Seq(Pushes \cup {TooMany})
    BY <2>1, AppendProperties DEF Whole, Link, Shape
  <2>5. PubStays
    BY <1>1, <2>2 DEF PubStays
  <2>6. Shape'
    BY <1>1, <2>2, <2>3, <2>4 DEF Whole, Link, Shape
  <2>7. QED
    BY <1>2, <2>2, <2>5, <2>6, MatchingStays DEF Link, Whole
<1>4. CASE k = "pub"
  <2> DEFINE a == ac["pub"]
             b == back["pub"]
             w == wire["pub"]
             cmd == Head(w)
  <2>1. /\ sock["pub"] = "open" /\ w # <<>> /\ wire'["pub"] = Tail(w) /\ wire'["sub"] = wire["sub"]
        /\ cmd \in PublishCommands /\ back'["pub"] = Append(b, Value)
        /\ back'["sub"] \in {back["sub"], Append(back["sub"], Push("message", Last(Channels), cmd.arg))}
        /\ Sockets'
    BY <1>4, ServesPub
  <2>2. Tail(w) \in Seq(PublishCommands) /\ Len(Tail(w)) = Len(w) - 1 /\ Len(w) # 0
    BY <2>1, HeadTailProperties DEF Whole, Link, Shape
  <2>3. /\ b \in Seq({Value, TooMany})
        /\ Append(b, Value) \in Seq({Value, TooMany}) /\ Len(Append(b, Value)) = Len(b) + 1
    BY AppendProperties DEF Whole, Link, Shape
  <2>4. back'["sub"] \in Seq(Pushes \cup {TooMany})
    <3>1. cmd.arg \in Nat
      BY <2>1 DEF PublishCommands, Messages
    <3>2. Push("message", Last(Channels), cmd.arg) \in Pushes
      BY <3>1, LastChannel, PushIs
    <3>3. back["sub"] \in Seq(Pushes \cup {TooMany})
      BY DEF Whole, Link, Shape
    <3> DEFINE p == Push("message", Last(Channels), cmd.arg)
    <3> HIDE DEF p
    <3>4. p \in Pushes \cup {TooMany}
      BY <3>2 DEF p
    <3>5. Append(back["sub"], p) \in Seq(Pushes \cup {TooMany})
      BY <3>3, <3>4, AppendProperties
    <3>6. QED
      BY <2>1, <3>3, <3>5 DEF p
  <2>5. Shape'
    BY <1>1, <2>1, <2>2, <2>3, <2>4 DEF Whole, Link, Shape
  <2>6. Len(a.replies) = Len(a.obuf) + Len(w) + Len(b) /\ \A i \in DOMAIN b : b[i] = Value
    BY <2>1 DEF Whole, Link, Matching
  <2>7. Len(a.obuf) \in Nat /\ Len(w) \in Nat /\ Len(b) \in Nat
    BY <2>3 DEF Whole, Link, Shape
  <2>8. Len(a.replies) = Len(a.obuf) + (Len(w) - 1) + (Len(b) + 1)
    <3> DEFINE x == Len(a.obuf)
               y == Len(w)
               z == Len(b)
    <3> HIDE DEF a, b, w, x, y, z
    <3>1. x \in Nat /\ y \in Nat /\ z \in Nat
      BY <2>7 DEF x, y, z
    <3>2. x + y + z = x + (y - 1) + (z + 1)
      BY <3>1
    <3>3. QED
      BY <2>6, <3>2 DEF x, y, z
  <2>9. \A i \in DOMAIN Append(b, Value) : Append(b, Value)[i] = Value
    <3>1. DOMAIN Append(b, Value) = 1 .. Len(b) + 1 /\ DOMAIN b = 1 .. Len(b)
      BY <2>3, LenProperties
    <3>2. QED
      BY <2>3, <2>6, <2>7, <3>1, AppendProperties
  <2>10. Matching'
    <3>1. Len(a.replies) = Len(a.obuf) + Len(wire'["pub"]) + Len(back'["pub"])
      BY <2>1, <2>2, <2>3, <2>8
    <3>2. QED
      BY <1>1, <2>1, <2>9, <3>1 DEF Whole, Link, Matching
  <2>11. QED
    BY <1>2, <2>1, <2>5, <2>10 DEF Link
<1>5. QED
  BY <1>3, <1>4 DEF Roles

\* The reactor alone publishes, one message after the other.
LEMMA PublishedSeq == published \in Seq(Messages) /\ [Next]_vars => published' \in Seq(Messages)
<1> SUFFICES ASSUME published \in Seq(Messages), [Next]_vars PROVE published' \in Seq(Messages)
  OBVIOUS
<1>1. CASE Publish
  <2>1. Len(published) + 1 \in Messages
    BY <1>1, RedisLinkAssumption DEF Publish, Messages
  <2>2. Append(published, Len(published) + 1) \in Seq(Messages)
    BY <2>1, AppendProperties
  <2>3. published' = published \/ published' = Append(published, Len(published) + 1)
    BY <1>1 DEF Publish
  <2>4. QED
    BY <2>2, <2>3
<1>2. CASE Start \/ Timeout \/ WriteEnds \/ Stops \/ Starts \/ UNCHANGED vars
  BY <1>2 DEF Start, Timeout, NewSockets, WriteEnds, Stops, Starts, vars, history
<1>3. ASSUME NEW k \in Roles, Handler(k) \/ Answered(k) \/ Serves(k) \/ \E full \in BOOLEAN : Ends(k, full)
      PROVE  published' \in Seq(Messages)
  BY <1>3 DEF Handler, WriteFails, WriteBegins, Read, ReadFails, Answered, Serves, Ends, history
<1>4. QED
  BY <1>1, <1>2, <1>3 DEF Next

LEMMA NextLink == Whole /\ [Next]_vars => Link'
<1> SUFFICES ASSUME Whole, [Next]_vars PROVE Link'
  OBVIOUS
<1>1. Typed'
  BY NextIInv DEF Whole, IInv
<1>2. CASE UNCHANGED vars
  BY <1>2 DEF vars, thread, net, Whole, Link, Typed, Sockets, Shape, Matching
<1>3. CASE Starts
  BY <1>3 DEF Starts, thread, Whole, Link, Typed, Sockets, Shape, Matching
<1>4. ASSUME NEW k \in Roles, WriteFails(k) \/ ReadFails(k) PROVE Link'
  BY <1>1, <1>4, LoseLink DEF WriteFails, ReadFails
<1>5. ASSUME NEW k \in Roles, Handler(k) PROVE Link'
  BY <1>4, <1>5, WriteBeginsLink, ReadLink DEF Handler
<1>6. QED
  BY <1>2, <1>3, <1>5, StartLink, TimeoutLink, WriteEndsLink, PublishLink, AnsweredLink, StopsLink,
     EndsLink, ServesLink DEF Next

LEMMA InitWhole == Init => Whole
BY InitIInv, InitLink, EmptySeq DEF Whole, Init

LEMMA NextWhole == Whole /\ [Next]_vars => Whole'
BY NextIInv, NextLink, PublishedSeq DEF Whole

LEMMA WholeMatches == Whole => CallbacksMatch
<1> SUFFICES ASSUME Whole PROVE CallbacksMatch
  OBVIOUS
<1>1. sock["pub"] \in {"connecting", "open"} =>
        Len(ac["pub"].replies) = Len(ac["pub"].obuf) + Len(wire["pub"]) + Len(back["pub"])
  BY DEF Whole, Link, Matching
<1>2. ASSUME NEW k \in Roles, ac[k].life = "live", back[k] # <<>>
      PROVE  Expected(ac[k], Head(back[k]))
  <2>1. CASE k = "sub"
    BY <1>2, <2>1 DEF Whole, Link, Shape, Expected
  <2>2. CASE k = "pub"
    <3> DEFINE a == ac["pub"]
               b == back["pub"]
    <3>1. b \in Seq({Value, TooMany}) /\ b # <<>> /\ a.replies \in Seq(PublishCommands)
      BY <1>2, <2>2 DEF Whole, Link, Shape
    <3>2. sock["pub"] \in {"open", "eof"}
      BY <3>1 DEF Whole, Link, Sockets, Matching, Roles
    <3>3. Len(b) \in Nat /\ Len(b) # 0
      BY <3>1
    <3>4. CASE sock["pub"] = "open"
      <4>1. Len(a.replies) = Len(a.obuf) + Len(wire["pub"]) + Len(b)
        BY <3>4, <1>1
      <4>2. Len(a.obuf) \in Nat /\ Len(wire["pub"]) \in Nat
        BY DEF Whole, Link, Shape
      <4>3. Len(a.replies) # 0
        BY <3>3, <4>1, <4>2, LastWithin
      <4>4. QED
        BY <2>2, <4>3 DEF Expected
    <3>5. CASE sock["pub"] = "eof" /\ b = <<TooMany>>
      BY <2>2, <3>5 DEF Expected, TooMany
    <3>6. CASE sock["pub"] = "eof" /\ Len(b) <= Len(a.replies)
      BY <2>2, <3>1, <3>3, <3>6 DEF Expected
    <3>7. QED
      BY <3>2, <3>4, <3>5, <3>6 DEF Whole, Link, Matching
  <2>3. QED
    BY <2>1, <2>2 DEF Roles
<1>3. QED
  BY <1>1, <1>2 DEF CallbacksMatch

\* A callback is pending for every command that was written or waits to be, and for no
\* other, whatever part of the output buffer the socket takes and whatever the reactor
\* adds in the middle of the write handler; a reply for which none is pending comes to a
\* subscribed context or is an error line, as the assertion of async.c:464 has it.
THEOREM CallbacksAreMatched == Spec => []CallbacksMatch
<1>1. QED
  BY InitWhole, NextWhole, WholeMatches, PTL DEF Spec
-----------------------------------------------------------------------------
(* What is under way is in order                                           *)

Below(A, B) == \A a \in A, b \in B : a < b
Rising(s) == \A i, j \in DOMAIN s : i < j => s[i] < s[j]

\* Of commands, and of the messages among what the server pushes.
Args(s) == {s[i].arg : i \in DOMAIN s}
RisingArgs(s) == \A i, j \in DOMAIN s : i < j => s[i].arg < s[j].arg

IsMsg(r) == r.kind = "push" /\ r.op = "message"
Msgs(s) == {s[i].msg : i \in {j \in DOMAIN s : IsMsg(s[j])}}
RisingMsgs(s) == \A i, j \in DOMAIN s : i < j /\ IsMsg(s[i]) /\ IsMsg(s[j]) => s[i].msg < s[j].msg

\* From the reactor to the server.
Upstream ==
    LET w == wire["pub"]
        o == ac["pub"].obuf
    IN  /\ received \in Seq(Messages)
        /\ Rising(received) /\ RisingArgs(w) /\ RisingArgs(o)
        /\ Below(ToSet(received), Args(w)) /\ Below(ToSet(received), Args(o)) /\ Below(Args(w), Args(o))
        /\ Below(ToSet(received) \cup Args(w) \cup Args(o), {Len(published) + 1})

\* From the server to the clients.
Downstream ==
    LET b == back["sub"]
    IN  /\ delivered \in Seq(Messages)
        /\ Rising(delivered) /\ RisingMsgs(b) /\ Below(ToSet(delivered), Msgs(b))
        /\ ToSet(delivered) \subseteq ToSet(received) /\ Msgs(b) \subseteq ToSet(received)

\* Sequences of commands that are cut, joined and extended.
LEMMA CutArgs ==
    ASSUME NEW S, NEW q \in Seq(S), NEW n \in 0 .. Len(q), RisingArgs(q)
    PROVE  LET p == SubSeq(q, 1, n)
               r == SubSeq(q, n + 1, Len(q))
           IN  /\ Args(p) \subseteq Args(q) /\ Args(r) \subseteq Args(q)
               /\ RisingArgs(p) /\ RisingArgs(r) /\ Below(Args(p), Args(r))
<1> DEFINE p == SubSeq(q, 1, n)
           r == SubSeq(q, n + 1, Len(q))
<1>1. /\ DOMAIN q = 1 .. Len(q) /\ Len(q) \in Nat /\ n \in Nat /\ n <= Len(q)
      /\ DOMAIN p = 1 .. n /\ \A i \in 1 .. n : p[i] = q[i]
  OBVIOUS
<1>2. DOMAIN r = 1 .. Len(q) - n /\ \A i \in 1 .. Len(q) - n : r[i] = q[i + n] /\ i + n \in DOMAIN q
  OBVIOUS
<1> HIDE DEF p, r
<1>3. Args(p) \subseteq Args(q) /\ RisingArgs(p)
  BY <1>1 DEF Args, RisingArgs
<1>4. Args(r) \subseteq Args(q)
  BY <1>2 DEF Args
<1>5. RisingArgs(r)
  <2>1. ASSUME NEW i \in DOMAIN r, NEW j \in DOMAIN r, i < j PROVE r[i].arg < r[j].arg
    <3>1. i + n \in DOMAIN q /\ j + n \in DOMAIN q /\ i + n < j + n
      BY <1>1, <1>2, <2>1
    <3>2. QED
      BY <1>2, <3>1 DEF RisingArgs
  <2>2. QED
    BY <2>1 DEF RisingArgs
<1>6. Below(Args(p), Args(r))
  <2>1. ASSUME NEW i \in DOMAIN p, NEW j \in DOMAIN r PROVE p[i].arg < r[j].arg
    <3>1. i \in DOMAIN q /\ j + n \in DOMAIN q /\ i < j + n
      BY <1>1, <1>2
    <3>2. QED
      BY <1>1, <1>2, <3>1 DEF RisingArgs
  <2>2. QED
    BY <2>1 DEF Below, Args
<1>7. QED
  BY <1>3, <1>4, <1>5, <1>6 DEF p, r

LEMMA JoinArgs ==
    ASSUME NEW S, NEW p \in Seq(S), NEW q \in Seq(S), RisingArgs(p), RisingArgs(q), Below(Args(p), Args(q))
    PROVE  RisingArgs(p \o q) /\ Args(p \o q) = Args(p) \cup Args(q)
<1> DEFINE r == p \o q
<1>1. /\ Len(p) \in Nat /\ Len(q) \in Nat /\ DOMAIN p = 1 .. Len(p) /\ DOMAIN q = 1 .. Len(q)
      /\ DOMAIN r = 1 .. Len(p) + Len(q)
      /\ \A i \in DOMAIN r : r[i] = IF i <= Len(p) THEN p[i] ELSE q[i - Len(p)]
  OBVIOUS
<1> HIDE DEF r
<1>2. RisingArgs(r)
  <2>1. ASSUME NEW i \in DOMAIN r, NEW j \in DOMAIN r, i < j PROVE r[i].arg < r[j].arg
    <3>1. CASE j <= Len(p)
      <4>1. i \in DOMAIN p /\ j \in DOMAIN p /\ r[i] = p[i] /\ r[j] = p[j]
        BY <1>1, <2>1, <3>1
      <4>2. QED
        BY <2>1, <4>1 DEF RisingArgs
    <3>2. CASE i <= Len(p) /\ ~(j <= Len(p))
      <4>1. i \in DOMAIN p /\ j - Len(p) \in DOMAIN q /\ r[i] = p[i] /\ r[j] = q[j - Len(p)]
        BY <1>1, <2>1, <3>2
      <4>2. p[i].arg \in Args(p) /\ q[j - Len(p)].arg \in Args(q)
        BY <4>1 DEF Args
      <4>3. QED
        BY <4>1, <4>2 DEF Below
    <3>3. CASE ~(i <= Len(p))
      <4>1. /\ i - Len(p) \in DOMAIN q /\ j - Len(p) \in DOMAIN q /\ i - Len(p) < j - Len(p)
            /\ r[i] = q[i - Len(p)] /\ r[j] = q[j - Len(p)]
        BY <1>1, <2>1, <3>3
      <4>2. QED
        BY <4>1 DEF RisingArgs
    <3>4. QED
      BY <1>1, <3>1, <3>2, <3>3
  <2>2. QED
    BY <2>1 DEF RisingArgs
<1>3. Args(r) \subseteq Args(p) \cup Args(q)
  <2>1. ASSUME NEW i \in DOMAIN r PROVE r[i].arg \in Args(p) \cup Args(q)
    <3>1. CASE i <= Len(p)
      <4>1. i \in DOMAIN p /\ r[i] = p[i]
        BY <1>1, <3>1
      <4>2. QED
        BY <4>1 DEF Args
    <3>2. CASE ~(i <= Len(p))
      <4>1. i - Len(p) \in DOMAIN q /\ r[i] = q[i - Len(p)]
        BY <1>1, <3>2
      <4>2. QED
        BY <4>1 DEF Args
    <3>3. QED
      BY <3>1, <3>2
  <2>2. QED
    BY <2>1 DEF Args
<1>4. Args(p) \subseteq Args(r)
  <2>1. \A i \in DOMAIN p : i \in DOMAIN r /\ r[i] = p[i]
    BY <1>1
  <2>2. QED
    BY <2>1 DEF Args
<1>5. Args(q) \subseteq Args(r)
  <2>1. ASSUME NEW i \in DOMAIN q PROVE i + Len(p) \in DOMAIN r /\ r[i + Len(p)] = q[i]
    <3>1. i + Len(p) \in DOMAIN r /\ ~(i + Len(p) <= Len(p)) /\ (i + Len(p)) - Len(p) = i
      BY <1>1
    <3>2. QED
      BY <1>1, <3>1
  <2>2. QED
    BY <2>1 DEF Args
<1>6. QED
  BY <1>2, <1>3, <1>4, <1>5 DEF r

LEMMA AppendArgs ==
    ASSUME NEW S, NEW q \in Seq(S), NEW e \in S, RisingArgs(q), Below(Args(q), {e.arg})
    PROVE  RisingArgs(Append(q, e)) /\ Args(Append(q, e)) = Args(q) \cup {e.arg}
<1> DEFINE r == Append(q, e)
<1>1. /\ Len(q) \in Nat /\ DOMAIN q = 1 .. Len(q) /\ DOMAIN r = 1 .. Len(q) + 1
      /\ \A i \in DOMAIN q : i \in DOMAIN r /\ r[i] = q[i]
      /\ Len(q) + 1 \in DOMAIN r /\ r[Len(q) + 1] = e
  OBVIOUS
<1> HIDE DEF r
<1>2. \A i \in DOMAIN r : i \in DOMAIN q \/ i = Len(q) + 1
  BY <1>1
<1>3. \A i \in DOMAIN q : q[i].arg < e.arg
  BY DEF Below, Args
<1>4. Args(r) = Args(q) \cup {e.arg}
  BY <1>1, <1>2 DEF Args
<1>5. RisingArgs(r)
  <2>1. ASSUME NEW i \in DOMAIN r, NEW j \in DOMAIN r, i < j PROVE r[i].arg < r[j].arg
    <3>1. i \in DOMAIN q
      BY <1>1, <2>1
    <3>2. QED
      BY <1>1, <1>2, <1>3, <2>1, <3>1 DEF RisingArgs
  <2>2. QED
    BY <2>1 DEF RisingArgs
<1>6. QED
  BY <1>4, <1>5 DEF r

LEMMA TailArgs ==
    ASSUME NEW S, NEW q \in Seq(S), q # <<>>, RisingArgs(q)
    PROVE  /\ Args(Tail(q)) \subseteq Args(q) /\ Head(q).arg \in Args(q)
           /\ RisingArgs(Tail(q)) /\ Below({Head(q).arg}, Args(Tail(q)))
<1> DEFINE r == Tail(q)
<1>1. /\ Len(q) \in Nat /\ DOMAIN q = 1 .. Len(q) /\ DOMAIN r = 1 .. Len(q) - 1
      /\ \A i \in DOMAIN r : r[i] = q[i + 1] /\ i + 1 \in DOMAIN q /\ 1 < i + 1
      /\ 1 \in DOMAIN q /\ Head(q) = q[1]
  OBVIOUS
<1> HIDE DEF r
<1>2. Args(r) \subseteq Args(q) /\ Head(q).arg \in Args(q)
  BY <1>1 DEF Args
<1>3. RisingArgs(r)
  <2>1. ASSUME NEW i \in DOMAIN r, NEW j \in DOMAIN r, i < j PROVE r[i].arg < r[j].arg
    <3>1. i + 1 < j + 1
      BY <1>1, <2>1
    <3>2. QED
      BY <1>1, <3>1 DEF RisingArgs
  <2>2. QED
    BY <2>1 DEF RisingArgs
<1>4. Below({Head(q).arg}, Args(r))
  BY <1>1 DEF RisingArgs, Below, Args
<1>5. QED
  BY <1>2, <1>3, <1>4 DEF r

\* The same of the messages that the server pushes, and of histories.
LEMMA AppendMsgs ==
    ASSUME NEW S, NEW q \in Seq(S), NEW e \in S, RisingMsgs(q), IsMsg(e) => Below(Msgs(q), {e.msg})
    PROVE  /\ RisingMsgs(Append(q, e))
           /\ Msgs(Append(q, e)) = IF IsMsg(e) THEN Msgs(q) \cup {e.msg} ELSE Msgs(q)
<1> DEFINE r == Append(q, e)
<1>1. /\ Len(q) \in Nat /\ DOMAIN q = 1 .. Len(q) /\ DOMAIN r = 1 .. Len(q) + 1
      /\ \A i \in DOMAIN q : i \in DOMAIN r /\ r[i] = q[i]
      /\ Len(q) + 1 \in DOMAIN r /\ r[Len(q) + 1] = e
  OBVIOUS
<1> HIDE DEF r
<1>2. \A i \in DOMAIN r : i \in DOMAIN q \/ i = Len(q) + 1
  BY <1>1
<1>3. \A i \in DOMAIN q : IsMsg(e) /\ IsMsg(q[i]) => q[i].msg < e.msg
  BY DEF Below, Msgs
<1>4. Msgs(r) = IF IsMsg(e) THEN Msgs(q) \cup {e.msg} ELSE Msgs(q)
  BY <1>1, <1>2 DEF Msgs
<1>5. RisingMsgs(r)
  <2>1. ASSUME NEW i \in DOMAIN r, NEW j \in DOMAIN r, i < j, IsMsg(r[i]), IsMsg(r[j]) PROVE r[i].msg < r[j].msg
    <3>1. i \in DOMAIN q
      BY <1>1, <2>1
    <3>2. QED
      BY <1>1, <1>2, <1>3, <2>1, <3>1 DEF RisingMsgs
  <2>2. QED
    BY <2>1 DEF RisingMsgs
<1>6. QED
  BY <1>4, <1>5 DEF r

LEMMA TailMsgs ==
    ASSUME NEW S, NEW q \in Seq(S), q # <<>>, RisingMsgs(q)
    PROVE  /\ Msgs(Tail(q)) \subseteq Msgs(q) /\ RisingMsgs(Tail(q))
           /\ IsMsg(Head(q)) => Head(q).msg \in Msgs(q) /\ Below({Head(q).msg}, Msgs(Tail(q)))
<1> DEFINE r == Tail(q)
<1>1. /\ Len(q) \in Nat /\ DOMAIN q = 1 .. Len(q) /\ DOMAIN r = 1 .. Len(q) - 1
      /\ \A i \in DOMAIN r : r[i] = q[i + 1] /\ i + 1 \in DOMAIN q /\ 1 < i + 1
      /\ 1 \in DOMAIN q /\ Head(q) = q[1]
  OBVIOUS
<1> HIDE DEF r
<1>2. Msgs(r) \subseteq Msgs(q) /\ (IsMsg(Head(q)) => Head(q).msg \in Msgs(q))
  BY <1>1 DEF Msgs
<1>3. RisingMsgs(r)
  <2>1. ASSUME NEW i \in DOMAIN r, NEW j \in DOMAIN r, i < j, IsMsg(r[i]), IsMsg(r[j]) PROVE r[i].msg < r[j].msg
    <3>1. i + 1 < j + 1
      BY <1>1, <2>1
    <3>2. QED
      BY <1>1, <2>1, <3>1 DEF RisingMsgs
  <2>2. QED
    BY <2>1 DEF RisingMsgs
<1>4. IsMsg(Head(q)) => Below({Head(q).msg}, Msgs(r))
  BY <1>1 DEF RisingMsgs, Below, Msgs
<1>5. QED
  BY <1>2, <1>3, <1>4 DEF r

LEMMA AppendRising ==
    ASSUME NEW S, NEW h \in Seq(S), NEW m \in S, Rising(h), Below(ToSet(h), {m})
    PROVE  Rising(Append(h, m)) /\ ToSet(Append(h, m)) = ToSet(h) \cup {m}
<1> DEFINE r == Append(h, m)
<1>1. /\ Len(h) \in Nat /\ DOMAIN h = 1 .. Len(h) /\ DOMAIN r = 1 .. Len(h) + 1
      /\ \A i \in DOMAIN h : i \in DOMAIN r /\ r[i] = h[i]
      /\ Len(h) + 1 \in DOMAIN r /\ r[Len(h) + 1] = m
  OBVIOUS
<1> HIDE DEF r
<1>2. \A i \in DOMAIN r : i \in DOMAIN h \/ i = Len(h) + 1
  BY <1>1
<1>3. \A i \in DOMAIN h : h[i] < m
  BY DEF Below, ToSet
<1>4. ToSet(r) = ToSet(h) \cup {m}
  BY <1>1, <1>2 DEF ToSet
<1>5. Rising(r)
  <2>1. ASSUME NEW i \in DOMAIN r, NEW j \in DOMAIN r, i < j PROVE r[i] < r[j]
    <3>1. i \in DOMAIN h
      BY <1>1, <2>1
    <3>2. QED
      BY <1>1, <1>2, <1>3, <2>1, <3>1 DEF Rising
  <2>2. QED
    BY <2>1 DEF Rising
<1>6. QED
  BY <1>4, <1>5 DEF r

LEMMA ArgsAre == ASSUME NEW S, NEW q \in Seq(S) PROVE \A x \in Args(q) : \E e \in S : x = e.arg
<1>1. \A i \in DOMAIN q : q[i] \in S
  BY ElementOfSeq, LenProperties
<1>2. QED
  BY <1>1 DEF Args

LEMMA MembersAre == ASSUME NEW S, NEW h \in Seq(S) PROVE ToSet(h) \subseteq S
<1>1. \A i \in DOMAIN h : h[i] \in S
  BY ElementOfSeq, LenProperties
<1>2. QED
  BY <1>1 DEF ToSet

LEMMA NothingRises == /\ Args(<<>>) = {} /\ RisingArgs(<<>>) /\ Rising(<<>>) /\ ToSet(<<>>) = {}
                      /\ Msgs(<<>>) = {} /\ RisingMsgs(<<>>)
                      /\ Msgs(<<TooMany>>) = {} /\ RisingMsgs(<<TooMany>>)
<1>1. DOMAIN <<>> = {} /\ DOMAIN <<TooMany>> = {1} /\ <<TooMany>>[1] = TooMany
  OBVIOUS
<1>2. ~IsMsg(TooMany)
  BY DEF IsMsg, TooMany
<1>3. QED
  BY <1>1, <1>2 DEF Args, RisingArgs, Rising, ToSet, Msgs, RisingMsgs
-----------------------------------------------------------------------------
(* The steps keep the order                                                *)

Ordered == Whole /\ Upstream /\ Downstream

\* A step that at most loses what is on its way to the server, or from it.
QuietUp ==
    /\ received' = received /\ published' = published
    /\ wire'["pub"] \in {wire["pub"], <<>>} /\ ac'["pub"].obuf \in {ac["pub"].obuf, <<>>}

QuietDown ==
    /\ received' = received /\ delivered' = delivered
    /\ back'["sub"] \in {back["sub"], <<>>, <<TooMany>>}

LEMMA QuietUpstream == Upstream /\ QuietUp => Upstream'
<1> SUFFICES ASSUME Upstream, QuietUp PROVE Upstream'
  OBVIOUS
<1> DEFINE w == wire'["pub"]
           o == ac'["pub"].obuf
<1>1. /\ RisingArgs(w) /\ RisingArgs(o)
      /\ Args(w) \subseteq Args(wire["pub"]) /\ Args(o) \subseteq Args(ac["pub"].obuf)
  BY NothingRises DEF QuietUp, Upstream
<1>2. received' = received /\ published' = published
  BY DEF QuietUp
<1> HIDE DEF w, o
<1>3. /\ Below(ToSet(received), Args(w)) /\ Below(ToSet(received), Args(o)) /\ Below(Args(w), Args(o))
      /\ Below(ToSet(received) \cup Args(w) \cup Args(o), {Len(published) + 1})
  BY <1>1 DEF Upstream, Below
<1>4. QED
  BY <1>1, <1>2, <1>3 DEF Upstream, w, o

LEMMA QuietDownstream == Downstream /\ QuietDown => Downstream'
<1> SUFFICES ASSUME Downstream, QuietDown PROVE Downstream'
  OBVIOUS
<1> DEFINE b == back'["sub"]
<1>1. RisingMsgs(b) /\ Msgs(b) \subseteq Msgs(back["sub"])
  BY NothingRises DEF QuietDown, Downstream
<1>2. received' = received /\ delivered' = delivered
  BY DEF QuietDown
<1> HIDE DEF b
<1>3. Below(ToSet(delivered), Msgs(b)) /\ Msgs(b) \subseteq ToSet(received)
  BY <1>1 DEF Downstream, Below
<1>4. QED
  BY <1>1, <1>2, <1>3 DEF Downstream, b

LEMMA QuietOrder == Upstream /\ Downstream /\ QuietUp /\ QuietDown => Upstream' /\ Downstream'
BY QuietUpstream, QuietDownstream

LEMMA StartQuiet == Whole /\ Start => QuietUp /\ QuietDown
<1> SUFFICES ASSUME Whole, Start PROVE QuietUp /\ QuietDown
  OBVIOUS
<1>1. PICK life \in Outcomes : /\ ac' = [ac EXCEPT !.sub = SubContext(life)]
                               /\ NewSockets({"sub"}, [k \in {"sub"} |-> life])
  BY DEF Start
<1>2. ac'["pub"] = ac["pub"]
  BY <1>1 DEF Whole, Link, Typed, Roles
<1>3. wire'["pub"] = wire["pub"] /\ back'["sub"] = <<>> /\ UNCHANGED history
  BY <1>1 DEF NewSockets, Roles
<1>4. QED
  BY <1>2, <1>3 DEF QuietUp, QuietDown, history

LEMMA TimeoutQuiet == Whole /\ Timeout => QuietUp /\ QuietDown
<1> SUFFICES ASSUME Whole, Timeout PROVE QuietUp /\ QuietDown
  OBVIOUS
<1> DEFINE down == {k \in Roles : ~flag[k]}
<1>1. PICK out \in [Roles -> Outcomes] :
        LET sub == IF flag.sub THEN ac.sub ELSE SubContext(out.sub)
            pub == PubContext(out["pub"])
        IN  /\ ac' = IF "pub" \notin down THEN [ac EXCEPT !.sub = sub]
                     ELSE [pub |-> pub,
                           sub |-> IF pub.life = "live" THEN SetDisconnectCallback(sub, "pub") ELSE sub]
            /\ NewSockets(down, out)
  BY DEF Timeout
<1>2. out["pub"] \in {"live", "failed"}
  BY <1>1 DEF Outcomes, Roles
<1>3. ac'["pub"] = ac["pub"] \/ ac'["pub"] = PubContext(out["pub"])
  BY <1>1 DEF Whole, Link, Typed, Roles
<1>4. ac'["pub"].obuf \in {ac["pub"].obuf, <<>>}
  BY <1>2, <1>3, PubContextEmpty
<1>5. /\ wire'["pub"] \in {wire["pub"], <<>>} /\ back'["sub"] \in {back["sub"], <<>>}
      /\ UNCHANGED history
  BY <1>1 DEF NewSockets, Roles
<1>6. QED
  BY <1>4, <1>5 DEF QuietUp, QuietDown, history

LEMMA LoseQuiet ==
    ASSUME Whole, NEW k \in Roles, NEW c, Lose(k, c), UNCHANGED history
    PROVE  QuietUp /\ QuietDown
<1>1. ac'["pub"] = ac["pub"] \/ ac'["pub"] = Context("freed")
  BY DEF Lose, Freed, Whole, Link, Typed, Roles
<1>2. ac'["pub"].obuf \in {ac["pub"].obuf, <<>>}
  BY <1>1, ContextEmpty
<1>3. wire'["pub"] \in {wire["pub"], <<>>} /\ back'["sub"] \in {back["sub"], <<>>}
  BY DEF Lose, Whole, Link, Sockets, Roles
<1>4. QED
  BY <1>2, <1>3 DEF QuietUp, QuietDown, history

LEMMA WriteEndsQuiet == Whole /\ WriteEnds => QuietUp /\ QuietDown
<1> SUFFICES ASSUME Whole, WriteEnds PROVE QuietUp /\ QuietDown
  OBVIOUS
<1>1. at \in Roles /\ ac' = [ac EXCEPT ![at] = WriteDone(@, done)] /\ UNCHANGED <<net, history>>
  BY DEF WriteEnds, Whole, IInv, Typed
<1>2. ac'["pub"].obuf = ac["pub"].obuf
  <2>1. DOMAIN ac["pub"] = Fields
    BY DEF Whole, IInv, Told, Roles
  <2>2. ac'["pub"] = ac["pub"] \/ ac'["pub"] = WriteDone(ac["pub"], done)
    BY <1>1 DEF Whole, Link, Typed, Roles
  <2>3. QED
    BY <2>1, <2>2, WriteDoneOn
<1>3. QED
  BY <1>1, <1>2 DEF QuietUp, QuietDown, net, history

LEMMA NetworkQuiet ==
    Whole /\ (Stops \/ Starts \/ \E k \in Roles : Answered(k) \/ \E full \in BOOLEAN : Ends(k, full))
        => QuietUp /\ QuietDown
<1>1. Whole /\ Stops => QuietUp /\ QuietDown
  BY DEF Stops, thread, history, Whole, Link, Sockets, Roles, QuietUp, QuietDown
<1>2. Starts => QuietUp /\ QuietDown
  BY DEF Starts, thread, history, QuietUp, QuietDown
<1>3. ASSUME NEW k \in Roles, Answered(k) PROVE QuietUp /\ QuietDown
  BY <1>3 DEF Answered, thread, history, QuietUp, QuietDown
<1>4. ASSUME Whole, NEW k \in Roles, NEW full \in BOOLEAN, Ends(k, full) PROVE QuietUp /\ QuietDown
  BY <1>4 DEF Ends, thread, history, Whole, Link, Sockets, Roles, QuietUp, QuietDown
<1>5. QED
  BY <1>1, <1>2, <1>3, <1>4

\* What the socket takes keeps its place before what it leaves.
LEMMA WriteBeginsOrder == ASSUME Ordered, NEW k \in Roles, WriteBegins(k) PROVE Upstream' /\ Downstream'
<1>1. PICK n \in 0 .. Len(ac[k].obuf) :
        /\ ac'[k].obuf = SubSeq(ac[k].obuf, n + 1, Len(ac[k].obuf))
        /\ wire'[k] = IF sock[k] = "eof" THEN wire[k] ELSE wire[k] \o SubSeq(ac[k].obuf, 1, n)
        /\ \A r \in Roles \ {k} : ac'[r] = ac[r] /\ wire'[r] = wire[r]
  BY WriteBeginsEffect DEF Ordered
<1>2. UNCHANGED <<back, history>>
  BY DEF WriteBegins
<1>3. Downstream'
  BY <1>2 DEF Ordered, Downstream, history
<1>4. CASE k = "sub"
  <2>1. QuietUp
    BY <1>1, <1>2, <1>4 DEF QuietUp, history, Roles
  <2>2. QED
    BY <1>3, <2>1, QuietUpstream DEF Ordered
<1>5. CASE k = "pub"
  <2> DEFINE q == ac["pub"].obuf
             w == wire["pub"]
             p == SubSeq(q, 1, n)
             r == SubSeq(q, n + 1, Len(q))
  <2>1. q \in Seq(PublishCommands) /\ w \in Seq(PublishCommands) /\ n \in 0 .. Len(q)
    BY <1>1, <1>5 DEF Ordered, Whole, Link, Shape
  <2>2. RisingArgs(q) /\ RisingArgs(w)
    BY DEF Ordered, Upstream
  <2>3. /\ Args(p) \subseteq Args(q) /\ Args(r) \subseteq Args(q)
        /\ RisingArgs(p) /\ RisingArgs(r) /\ Below(Args(p), Args(r))
    <3> HIDE DEF q
    <3>1. QED
      BY <2>1, <2>2, CutArgs
  <2>4. p \in Seq(PublishCommands)
    BY <2>1, SubWritten
  <2>5. ac'["pub"].obuf = r /\ (wire'["pub"] = w \/ wire'["pub"] = w \o p)
    BY <1>1, <1>5
  <2>6. Below(Args(w), Args(p))
    BY <2>3 DEF Ordered, Upstream, Below
  <2>7. RisingArgs(w \o p) /\ Args(w \o p) = Args(w) \cup Args(p)
    <3> HIDE DEF w, p
    <3>1. QED
      BY <2>1, <2>2, <2>3, <2>4, <2>6, JoinArgs
  <2>8. /\ RisingArgs(wire'["pub"]) /\ RisingArgs(ac'["pub"].obuf)
        /\ Args(wire'["pub"]) \subseteq Args(w) \cup Args(p) /\ Args(ac'["pub"].obuf) = Args(r)
    <3> HIDE DEF w, p, r
    <3>1. QED
      BY <2>2, <2>3, <2>5, <2>7
  <2>9. /\ Below(ToSet(received), Args(w) \cup Args(p)) /\ Below(ToSet(received), Args(r))
        /\ Below(Args(w) \cup Args(p), Args(r))
        /\ Below(ToSet(received) \cup Args(w) \cup Args(p) \cup Args(r), {Len(published) + 1})
    BY <2>3 DEF Ordered, Upstream, Below
  <2>10. received' = received /\ published' = published
    BY <1>2 DEF history
  <2> HIDE DEF w, p, r, q
  <2>11. Upstream'
    <3> DEFINE v == wire'["pub"]
               o == ac'["pub"].obuf
    <3>1. RisingArgs(v) /\ RisingArgs(o) /\ Args(v) \subseteq Args(w) \cup Args(p) /\ Args(o) = Args(r)
      BY <2>8
    <3> HIDE DEF v, o
    <3>2. /\ Below(ToSet(received), Args(v)) /\ Below(ToSet(received), Args(o)) /\ Below(Args(v), Args(o))
          /\ Below(ToSet(received) \cup Args(v) \cup Args(o), {Len(published) + 1})
      BY <2>9, <3>1 DEF Below
    <3>3. received \in Seq(Messages) /\ Rising(received)
      BY DEF Ordered, Upstream
    <3>4. QED
      BY <2>10, <3>1, <3>2, <3>3 DEF Upstream, v, o
  <2>12. QED
    BY <1>3, <2>11
<1>6. QED
  BY <1>4, <1>5 DEF Roles

\* A message is published after all before it.
LEMMA PublishOrder == Ordered /\ Publish => Upstream' /\ Downstream'
<1> SUFFICES ASSUME Ordered, Publish PROVE Upstream' /\ Downstream'
  OBVIOUS
<1> DEFINE a == ac["pub"]
           q == a.obuf
           w == wire["pub"]
           m == Len(published) + 1
           cmd == Publishing(m)
           d == Command(a, cmd)
<1>1. UNCHANGED <<net, received, delivered>>
  BY DEF Publish
<1>2. Downstream'
  BY <1>1 DEF Ordered, Downstream, net
<1>3. m \in Messages /\ m \in Nat /\ Len(published) \in Nat
  BY RedisLinkAssumption DEF Publish, Messages, Ordered, Whole
<1>4. published' = published \/ published' = Append(published, m)
  BY DEF Publish
<1>5. Len(published') = Len(published) \/ Len(published') = m
  BY <1>3, <1>4, AppendProperties DEF Ordered, Whole
<1>6. cmd \in PublishCommands /\ cmd.arg = m /\ cmd.op = "publish"
  BY <1>3 DEF Publishing, PublishCommands
<1>7. ac'["pub"] = a \/ (ac'["pub"] = d /\ published' = Append(published, m))
  BY DEF Publish, Ordered, Whole, Link, Typed, Roles
<1>8. DOMAIN a = Fields
  BY DEF Ordered, Whole, IInv, Told, Roles
<1>9. q \in Seq(PublishCommands) /\ RisingArgs(q) /\ RisingArgs(w) /\ received \in Seq(Messages) /\ Rising(received)
      /\ Below(ToSet(received), Args(w)) /\ Below(ToSet(received), Args(q)) /\ Below(Args(w), Args(q))
      /\ Below(ToSet(received) \cup Args(w) \cup Args(q), {m})
  BY DEF Ordered, Upstream, Whole, Link, Shape
<1>10. \A x \in ToSet(received) \cup Args(w) \cup Args(q) : x \in Nat
  <2>1. w \in Seq(PublishCommands)
    BY DEF Ordered, Whole, Link, Shape
  <2>2. \A x \in Args(w) \cup Args(q) : x \in Nat
    <3>1. \A e \in PublishCommands : e.arg \in Nat
      BY DEF PublishCommands, Messages
    <3> HIDE DEF w, q
    <3>2. QED
      BY <1>9, <2>1, <3>1, ArgsAre
  <2>3. \A x \in ToSet(received) : x \in Nat
    <3>1. ToSet(received) \subseteq Messages
      BY <1>9, MembersAre
    <3>2. QED
      BY <3>1 DEF Messages
  <2>4. QED
    BY <2>2, <2>3
<1> HIDE DEF cmd, m
<1>11. d = a \/ d.obuf = Append(q, cmd)
  BY <1>8, CommandOn
<1> HIDE DEF q, w, a, d
<1>12. RisingArgs(Append(q, cmd)) /\ Args(Append(q, cmd)) = Args(q) \cup {m}
  <2>1. Below(Args(q), {cmd.arg})
    BY <1>6, <1>9 DEF Below
  <2>2. QED
    BY <1>6, <1>9, <2>1, AppendArgs
<1>13. wire'["pub"] = w /\ received' = received
  BY <1>1 DEF net, w
<1> DEFINE o == ac'["pub"].obuf
<1>14. \/ o = q
       \/ o = Append(q, cmd) /\ published' = Append(published, m)
  BY <1>7, <1>11 DEF q
<1> HIDE DEF o
<1>15. /\ RisingArgs(o) /\ Below(ToSet(received), Args(o)) /\ Below(Args(w), Args(o))
  <2>1. Below(ToSet(received), Args(q) \cup {m}) /\ Below(Args(w), Args(q) \cup {m})
    BY <1>9 DEF Below
  <2>2. CASE o = q
    BY <1>9, <2>2
  <2>3. CASE o = Append(q, cmd)
    BY <1>12, <2>1, <2>3
  <2>4. QED
    BY <1>14, <2>2, <2>3
<1>16. Below(ToSet(received) \cup Args(w) \cup Args(o), {Len(published') + 1})
  <2>1. CASE o = q
    <3>1. Len(published') + 1 = m \/ Len(published') + 1 = m + 1
      BY <1>3, <1>5 DEF m
    <3>2. \A x \in Nat : x < m => x < m + 1
      BY <1>3
    <3>3. \A x \in ToSet(received) \cup Args(w) \cup Args(o) : x \in Nat /\ x < m
      BY <1>9, <1>10, <2>1 DEF Below
    <3>4. QED
      BY <3>1, <3>2, <3>3 DEF Below
  <2>2. CASE o = Append(q, cmd) /\ published' = Append(published, m)
    <3>1. Len(published') + 1 = m + 1
      BY <1>3, <2>2, AppendProperties DEF m, Ordered, Whole
    <3>2. \A x \in Nat : x < m \/ x = m => x < m + 1
      BY <1>3
    <3>3. \A x \in ToSet(received) \cup Args(w) \cup Args(o) : x \in Nat /\ (x < m \/ x = m)
      BY <1>3, <1>9, <1>10, <1>12, <2>2 DEF Below
    <3>4. QED
      BY <3>1, <3>2, <3>3 DEF Below
  <2>3. QED
    BY <1>14, <2>1, <2>2
<1>17. Upstream'
  BY <1>9, <1>13, <1>15, <1>16 DEF Upstream, o
<1>18. QED
  BY <1>2, <1>17

\* The server takes the first command on its way, and what it hands to the daemon
\* comes after all that it handed it before.
LEMMA ServesOrder == ASSUME Ordered, NEW k \in Roles, Serves(k) PROVE Upstream' /\ Downstream'
<1>1. ac' = ac /\ published' = published /\ delivered' = delivered
  BY DEF Serves, thread
<1>2. CASE k = "sub"
  <2>1. received' = received /\ wire'["pub"] = wire["pub"]
    BY <1>2, ServesSub DEF Ordered
  <2>2. QuietUp
    BY <1>1, <2>1 DEF QuietUp
  <2>3. PICK p \in Pushes : p.op = "subscribe" /\ back'["sub"] = Append(back["sub"], p)
    BY <1>2, ServesSub DEF Ordered
  <2>4. RisingMsgs(back'["sub"]) /\ Msgs(back'["sub"]) = Msgs(back["sub"])
    <3>1. ~IsMsg(p)
      BY <2>3 DEF IsMsg
    <3>2. back["sub"] \in Seq(Pushes \cup {TooMany}) /\ RisingMsgs(back["sub"])
      BY DEF Ordered, Whole, Link, Shape, Downstream
    <3>3. RisingMsgs(Append(back["sub"], p)) /\ Msgs(Append(back["sub"], p)) = Msgs(back["sub"])
      <4> DEFINE S == Pushes \cup {TooMany}
                 b == back["sub"]
      <4>1. b \in Seq(S) /\ RisingMsgs(b) /\ p \in S
        BY <3>2
      <4> HIDE DEF S, b
      <4>2. RisingMsgs(Append(b, p)) /\ Msgs(Append(b, p)) = Msgs(b)
        BY <3>1, <4>1, AppendMsgs
      <4>3. QED
        BY <4>2 DEF b
    <3>4. QED
      BY <2>3, <3>3
  <2>5. Downstream'
    BY <1>1, <2>1, <2>4 DEF Ordered, Downstream
  <2>6. QED
    BY <2>2, <2>5, QuietUpstream DEF Ordered
<1>3. CASE k = "pub"
  <2> DEFINE w == wire["pub"]
             q == ac["pub"].obuf
             b == back["sub"]
             m == Head(w).arg
             p == Push("message", Last(Channels), m)
  <2>1. /\ w # <<>> /\ wire'["pub"] = Tail(w) /\ Head(w) \in PublishCommands
        /\ received' = Append(received, m) /\ back'["sub"] \in {b, Append(b, p)}
    BY <1>3, ServesPub DEF Ordered
  <2>2. m \in Messages /\ m \in Nat
    BY <2>1 DEF PublishCommands, Messages
  <2>3. /\ w \in Seq(PublishCommands) /\ received \in Seq(Messages) /\ delivered \in Seq(Messages)
        /\ b \in Seq(Pushes \cup {TooMany})
        /\ RisingArgs(w) /\ RisingArgs(q) /\ RisingMsgs(b) /\ Rising(received) /\ Rising(delivered)
    BY DEF Ordered, Whole, Link, Shape, Upstream, Downstream
  <2>4. /\ Below(ToSet(received), Args(w)) /\ Below(ToSet(received), Args(q)) /\ Below(Args(w), Args(q))
        /\ Below(ToSet(received) \cup Args(w) \cup Args(q), {Len(published) + 1})
    BY DEF Ordered, Upstream
  <2>5. /\ Below(ToSet(delivered), Msgs(b))
        /\ ToSet(delivered) \subseteq ToSet(received) /\ Msgs(b) \subseteq ToSet(received)
    BY DEF Ordered, Downstream
  <2>6. /\ Args(Tail(w)) \subseteq Args(w) /\ m \in Args(w)
        /\ RisingArgs(Tail(w)) /\ Below({m}, Args(Tail(w)))
    <3> HIDE DEF w
    <3>1. QED
      BY <2>1, <2>3, TailArgs
  <2>7. p \in Pushes \cup {TooMany} /\ p.msg = m
    <3>1. p \in Pushes
      BY <2>2, LastChannel, PushIs
    <3>2. p.msg = m
      BY DEF Push
    <3>3. QED
      BY <3>1, <3>2
  <2> HIDE DEF w, q, b, m, p
  <2>8. Rising(Append(received, m)) /\ ToSet(Append(received, m)) = ToSet(received) \cup {m}
        /\ Append(received, m) \in Seq(Messages)
    <3>1. Below(ToSet(received), {m})
      BY <2>4, <2>6 DEF Below
    <3>2. QED
      BY <2>2, <2>3, <3>1, AppendRising, AppendProperties
  <2>9. Upstream'
    <3> DEFINE R == ToSet(received) \cup {m}
               v == Tail(w)
    <3> HIDE DEF v
    <3>1. /\ Below(R, Args(v)) /\ Below(R, Args(q)) /\ Below(Args(v), Args(q))
          /\ Below(R \cup Args(v) \cup Args(q), {Len(published) + 1})
      BY <2>4, <2>6 DEF Below, v
    <3>2. ToSet(received') = R /\ Rising(received') /\ received' \in Seq(Messages)
      BY <2>1, <2>8
    <3>3. wire'["pub"] = v /\ ac'["pub"].obuf = q /\ RisingArgs(v) /\ RisingArgs(q)
      BY <1>1, <2>1, <2>3, <2>6 DEF q, v
    <3> HIDE DEF R
    <3>4. QED
      BY <1>1, <3>1, <3>2, <3>3 DEF Upstream
  <2>10. Below(ToSet(delivered), {m}) /\ Below(Msgs(b), {m})
    BY <2>4, <2>5, <2>6 DEF Below
  <2>11. RisingMsgs(Append(b, p)) /\ Msgs(Append(b, p)) \subseteq Msgs(b) \cup {m}
    BY <2>3, <2>7, <2>10, AppendMsgs
  <2>12. Downstream'
    <3> DEFINE c == back'["sub"]
    <3>1. RisingMsgs(c) /\ Msgs(c) \subseteq Msgs(b) \cup {m}
      BY <2>1, <2>3, <2>11
    <3> HIDE DEF c
    <3>2. Below(ToSet(delivered), Msgs(c))
      BY <2>5, <2>10, <3>1 DEF Below
    <3>3. ToSet(received') = ToSet(received) \cup {m}
      BY <2>1, <2>8
    <3>4. QED
      BY <1>1, <2>3, <2>5, <3>1, <3>2, <3>3 DEF Downstream, c
  <2>13. QED
    BY <2>9, <2>12
<1>4. QED
  BY <1>2, <1>3 DEF Roles

\* The first of what the server pushed is delivered.
LEMMA ReadOrder == ASSUME Ordered, NEW k \in Roles, Read(k) PROVE Upstream' /\ Downstream'
<1> DEFINE r == Head(back[k])
<1>1. received' = received /\ published' = published /\ back[k] # <<>>
  BY DEF Read
<1>2. CASE Closes(ac[k], r)
  <2>1. Lose(k, ac[k]) /\ UNCHANGED history
    BY <1>2 DEF Read, history
  <2>2. QED
    BY <2>1, LoseQuiet, QuietOrder DEF Ordered
<1>3. CASE ~Closes(ac[k], r)
  <2>1. /\ ac' = [ac EXCEPT ![k] = Took(@, r)] /\ back' = [back EXCEPT ![k] = Tail(@)] /\ wire' = wire
        /\ delivered' = IF HandsOver(k, r) THEN Append(delivered, r.msg) ELSE delivered
    BY <1>3 DEF Read
  <2>2. QuietUp
    <3>1. DOMAIN ac["pub"] = Fields
      BY DEF Ordered, Whole, IInv, Told, Roles
    <3>2. ac'["pub"] = ac["pub"] \/ ac'["pub"] = Took(ac["pub"], r)
      BY <2>1 DEF Ordered, Whole, Link, Typed, Roles
    <3>3. ac'["pub"].obuf = ac["pub"].obuf
      BY <3>1, <3>2, TookOn
    <3>4. QED
      BY <1>1, <2>1, <3>3 DEF QuietUp
  <2>3. CASE k = "pub"
    <3>1. back'["sub"] = back["sub"] /\ delivered' = delivered
      BY <2>1, <2>3 DEF HandsOver, Ordered, Whole, Link, Sockets, Roles
    <3>2. QuietDown
      BY <1>1, <3>1 DEF QuietDown
    <3>3. QED
      BY <2>2, <3>2, QuietOrder DEF Ordered
  <2>4. CASE k = "sub"
    <3> DEFINE b == back["sub"]
               m == r.msg
    <3>1. b \in Seq(Pushes \cup {TooMany}) /\ b # <<>> /\ r = Head(b) /\ RisingMsgs(b)
      BY <1>1, <2>4 DEF Ordered, Whole, Link, Shape, Downstream
    <3>2. back'["sub"] = Tail(b)
      BY <2>1, <2>4 DEF Ordered, Whole, Link, Sockets, Roles
    <3>3. /\ Msgs(Tail(b)) \subseteq Msgs(b) /\ RisingMsgs(Tail(b))
          /\ IsMsg(r) => m \in Msgs(b) /\ Below({m}, Msgs(Tail(b)))
      <4> HIDE DEF b
      <4>1. /\ Msgs(Tail(b)) \subseteq Msgs(b) /\ RisingMsgs(Tail(b))
            /\ IsMsg(Head(b)) => Head(b).msg \in Msgs(b) /\ Below({Head(b).msg}, Msgs(Tail(b)))
        BY <3>1, TailMsgs
      <4>2. QED
        BY <3>1, <4>1
    <3>4. r \in Pushes
      BY <1>3, <2>4, ReadsPush DEF Ordered
    <3>5. HandsOver(k, r) <=> IsMsg(r)
      BY <2>4, <3>4 DEF Pushes, HandsOver, IsMsg
    <3>6. /\ delivered \in Seq(Messages) /\ received \in Seq(Messages) /\ Rising(delivered)
          /\ Below(ToSet(delivered), Msgs(b))
          /\ ToSet(delivered) \subseteq ToSet(received) /\ Msgs(b) \subseteq ToSet(received)
      BY DEF Ordered, Upstream, Downstream
    <3> HIDE DEF b, m, r
    <3>7. CASE IsMsg(r)
      <4>1. delivered' = Append(delivered, m)
        BY <2>1, <2>4, <3>5, <3>7 DEF m
      <4>2. m \in Messages /\ Below(ToSet(delivered), {m})
        <5>1. m \in ToSet(received) /\ ToSet(received) \subseteq Messages
          BY <3>3, <3>6, <3>7, MembersAre
        <5>2. QED
          BY <3>3, <3>6, <3>7, <5>1 DEF Below
      <4>3. /\ Rising(Append(delivered, m)) /\ ToSet(Append(delivered, m)) = ToSet(delivered) \cup {m}
            /\ Append(delivered, m) \in Seq(Messages)
        BY <3>6, <4>2, AppendRising, AppendProperties
      <4>4. Below(ToSet(delivered) \cup {m}, Msgs(Tail(b)))
        BY <3>3, <3>6, <3>7 DEF Below
      <4>5. Downstream'
        BY <1>1, <3>2, <3>3, <3>6, <3>7, <4>1, <4>3, <4>4 DEF Downstream
      <4>6. QED
        BY <2>2, <4>5, QuietUpstream DEF Ordered
    <3>8. CASE ~IsMsg(r)
      <4>1. delivered' = delivered
        BY <2>1, <3>5, <3>8
      <4>2. Below(ToSet(delivered), Msgs(Tail(b)))
        BY <3>3, <3>6 DEF Below
      <4>3. Downstream'
        BY <1>1, <3>2, <3>3, <3>6, <4>1, <4>2 DEF Downstream
      <4>4. QED
        BY <2>2, <4>3, QuietUpstream DEF Ordered
    <3>9. QED
      BY <3>7, <3>8
  <2>5. QED
    BY <2>3, <2>4 DEF Roles
<1>4. QED
  BY <1>2, <1>3

LEMMA NextOrder == Ordered /\ [Next]_vars => Upstream' /\ Downstream'
<1> SUFFICES ASSUME Ordered, [Next]_vars PROVE Upstream' /\ Downstream'
  OBVIOUS
<1>1. CASE UNCHANGED vars
  BY <1>1 DEF vars, thread, net, history, Ordered, Upstream, Downstream
<1>2. CASE Start \/ Timeout \/ WriteEnds \/ Stops \/ Starts
           \/ \E k \in Roles : Answered(k) \/ \E full \in BOOLEAN : Ends(k, full)
  BY <1>2, StartQuiet, TimeoutQuiet, WriteEndsQuiet, NetworkQuiet, QuietOrder DEF Ordered
<1>3. ASSUME NEW k \in Roles, WriteFails(k) \/ ReadFails(k) PROVE Upstream' /\ Downstream'
  <2>1. UNCHANGED history /\ \E c : Lose(k, c)
    BY <1>3 DEF WriteFails, ReadFails
  <2>2. QED
    BY <2>1, LoseQuiet, QuietOrder DEF Ordered
<1>4. ASSUME NEW k \in Roles, Handler(k) PROVE Upstream' /\ Downstream'
  BY <1>3, <1>4, WriteBeginsOrder, ReadOrder DEF Handler
<1>5. ASSUME NEW k \in Roles, Serves(k) PROVE Upstream' /\ Downstream'
  BY <1>5, ServesOrder
<1>6. QED
  BY <1>1, <1>2, <1>4, <1>5, PublishOrder DEF Next

LEMMA InitOrder == Init => Upstream /\ Downstream
<1> SUFFICES ASSUME Init PROVE Upstream /\ Downstream
  OBVIOUS
<1>1. wire["pub"] = <<>> /\ back["sub"] = <<>> /\ received = <<>> /\ delivered = <<>>
  BY DEF Init, Roles
<1>2. ac["pub"].obuf = <<>>
  BY ContextEmpty DEF Init, Roles
<1>3. QED
  BY <1>1, <1>2, NothingRises, EmptySeq DEF Upstream, Downstream, Below

\* Messages reach the server in the order of their publication, and the clients in the
\* order of the server, none twice and none that the server did not get, through any
\* number of messages, partial writes, lost connections and restarts of the server
\* (redis_thread.c:26-46 and 114-123, async.c:412-563).
THEOREM DeliveredInOrderOnce == Spec => []InOrderOnce
<1>1. Init => Ordered
  BY InitWhole, InitOrder DEF Ordered
<1>2. Ordered /\ [Next]_vars => Ordered'
  BY NextWhole, NextOrder DEF Ordered
<1>3. Ordered => InOrderOnce
  BY DEF Ordered, Upstream, Downstream, Rising, InOrderOnce
<1>4. QED
  BY <1>1, <1>2, <1>3, PTL DEF Spec

\* Which steps the clients and the server see.
LEMMA PublishRelays == Ordered /\ Publish => [Bus!Next]_history
<1> SUFFICES ASSUME Ordered, Publish PROVE [Bus!Next]_history
  OBVIOUS
<1>1. received' = received /\ delivered' = delivered
  BY DEF Publish
<1>2. published' = published \/ published' = Append(published, Len(published) + 1)
  BY DEF Publish
<1>3. QED
  BY <1>1, <1>2 DEF Bus!Next, Bus!Publish, history

LEMMA ServesRelays == ASSUME Ordered, NEW k \in Roles, Serves(k) PROVE [Bus!Next]_history
<1>1. published' = published /\ delivered' = delivered
  BY DEF Serves
<1>2. CASE k = "sub"
  BY <1>1, <1>2, ServesSub DEF Ordered, history
<1>3. CASE k = "pub"
  <2> DEFINE w == wire["pub"]
             m == Head(w).arg
  <2>1. w # <<>> /\ Head(w) \in PublishCommands /\ received' = Append(received, m)
    BY <1>3, ServesPub DEF Ordered
  <2>2. m \in Nat /\ m >= 1
    BY <2>1 DEF PublishCommands, Messages
  <2>3. m \in Args(w)
    <3>1. w \in Seq(PublishCommands) /\ RisingArgs(w)
      BY DEF Ordered, Whole, Link, Shape, Upstream
    <3> HIDE DEF w
    <3>2. Head(w).arg \in Args(w)
      BY <2>1, <3>1, TailArgs
    <3>3. QED
      BY <3>2
  <2> HIDE DEF m, w
  <2>4. m < Len(published) + 1 /\ \A x \in ToSet(received) : x < m
    BY <2>3 DEF Ordered, Upstream, Below, w
  <2>5. m \in 1 .. Len(published)
    <3>1. Len(published) \in Nat
      BY DEF Ordered, Whole
    <3>2. QED
      BY <2>2, <2>4, <3>1
  <2>6. Bus!Follows(m, received)
    BY <2>4 DEF Bus!Follows, ToSet
  <2>7. Bus!Accept
    BY <1>1, <2>1, <2>5, <2>6 DEF Bus!Accept
  <2>8. QED
    BY <2>7 DEF Bus!Next
<1>4. QED
  BY <1>2, <1>3 DEF Roles

LEMMA ReadRelays == ASSUME Ordered, NEW k \in Roles, Read(k) PROVE [Bus!Next]_history
<1> DEFINE r == Head(back[k])
<1>1. received' = received /\ published' = published /\ back[k] # <<>>
  BY DEF Read
<1>2. CASE delivered' = delivered
  BY <1>1, <1>2 DEF history
<1>3. CASE ~Closes(ac[k], r) /\ HandsOver(k, r) /\ delivered' = Append(delivered, r.msg)
  <2> DEFINE b == back["sub"]
  <2>1. b \in Seq(Pushes \cup {TooMany}) /\ b # <<>> /\ r = Head(b) /\ RisingMsgs(b)
    BY <1>1, <1>3 DEF HandsOver, Ordered, Whole, Link, Shape, Downstream
  <2>2. r \in Pushes
    BY <1>3, ReadsPush DEF HandsOver, Ordered
  <2>3. IsMsg(r)
    BY <1>3, <2>2 DEF HandsOver, Pushes, IsMsg
  <2>4. r.msg \in Msgs(b)
    <3> HIDE DEF b
    <3>1. IsMsg(Head(b)) => Head(b).msg \in Msgs(b)
      BY <2>1, TailMsgs
    <3>2. QED
      BY <2>1, <2>3, <3>1
  <2> HIDE DEF r
  <2>5. r.msg \in ToSet(received) /\ \A x \in ToSet(delivered) : x < r.msg
    BY <2>4 DEF Ordered, Downstream, Below
  <2>6. PICK i \in DOMAIN received : received[i] = r.msg
    BY <2>5 DEF ToSet
  <2>7. Bus!Follows(received[i], delivered) /\ delivered' = Append(delivered, received[i])
    BY <1>3, <2>5, <2>6 DEF Bus!Follows, ToSet
  <2>8. Bus!Deliver
    BY <1>1, <2>7 DEF Bus!Deliver
  <2>9. QED
    BY <2>8 DEF Bus!Next
<1>4. QED
  BY <1>2, <1>3 DEF Read

LEMMA NextRelays == Ordered /\ [Next]_vars => [Bus!Next]_history
<1> SUFFICES ASSUME Ordered, [Next]_vars PROVE [Bus!Next]_history
  OBVIOUS
<1>1. CASE UNCHANGED vars
  BY <1>1 DEF vars, history
<1>2. CASE Start \/ Timeout \/ WriteEnds \/ Stops \/ Starts
  BY <1>2 DEF Start, Timeout, NewSockets, WriteEnds, Stops, Starts, history
<1>3. ASSUME NEW k \in Roles, Answered(k) \/ \E full \in BOOLEAN : Ends(k, full)
      PROVE  UNCHANGED history
  BY <1>3 DEF Answered, Ends, history
<1>4. ASSUME NEW k \in Roles, Handler(k) PROVE [Bus!Next]_history
  <2>1. CASE Read(k)
    BY <2>1, ReadRelays
  <2>2. CASE WriteFails(k) \/ WriteBegins(k) \/ ReadFails(k)
    BY <2>2 DEF WriteFails, WriteBegins, ReadFails, history
  <2>3. QED
    BY <1>4, <2>1, <2>2 DEF Handler
<1>5. QED
  BY <1>1, <1>2, <1>3, <1>4, PublishRelays, ServesRelays DEF Next

\* The link implements Relay: what the reactor publishes through myredis_publish, the
\* server takes over and myredisOnMessage hands to the clients may be lost, but is not made
\* up, repeated or overtaken, whatever the network and the server do.
THEOREM LinkRelays == Spec => IsRelay
<1>1. Init => Ordered /\ Bus!Init
  BY InitWhole, InitOrder DEF Ordered, Init, Bus!Init
<1>2. Ordered /\ [Next]_vars => Ordered' /\ [Bus!Next]_history
  BY NextWhole, NextOrder, NextRelays DEF Ordered
<1>3. QED
  BY <1>1, <1>2, PTL DEF Spec, IsRelay, Bus!Spec, history
-----------------------------------------------------------------------------
(* Types                                                                   *)

\* The contexts' states and callbacks.
CastAs(c) == /\ c.life \in {"null", "failed", "live", "freed"}
             /\ {c.onConnect, c.onDisconnect} \subseteq Roles \cup {None}
Cast == \A k \in Roles : CastAs(ac[k])

\* What the others keep.
Kept ==
    /\ started \in BOOLEAN /\ crashed \in BOOLEAN /\ done \in BOOLEAN
    /\ server \in {"up", "down"} /\ subs \subseteq ToSet(Channels) /\ faults \in 0 .. MaxFaults

LEMMA NewKept ==
    ASSUME Kept, NEW K, NEW out, \A k \in K : out[k] \in Outcomes, NewSockets(K, out),
           started' \in BOOLEAN, crashed' = crashed, done' = done
    PROVE  Kept'
<1>1. faults' \in 0 .. MaxFaults
  <2>1. CASE server = "up" /\ \E k \in K : out[k] = "failed"
    BY <2>1, RedisLinkAssumption DEF Kept, NewSockets, Outcomes
  <2>2. CASE ~(server = "up" /\ \E k \in K : out[k] = "failed")
    BY <2>2 DEF Kept, NewSockets
  <2>3. QED
    BY <2>1, <2>2
<1>2. QED
  BY <1>1 DEF Kept, NewSockets

LEMMA NextKept == Ordered /\ Kept /\ [Next]_vars => Kept'
<1> SUFFICES ASSUME Ordered, Kept, [Next]_vars PROVE Kept'
  OBVIOUS
<1>1. CASE UNCHANGED vars
  BY <1>1 DEF vars, thread, net, Kept
<1>2. CASE Start
  <2>1. PICK life \in Outcomes : NewSockets({"sub"}, [k \in {"sub"} |-> life])
    BY <1>2 DEF Start
  <2>2. started' \in BOOLEAN /\ crashed' = crashed /\ done' = done
    BY <1>2 DEF Start
  <2>3. QED
    BY <2>1, <2>2, NewKept
<1>3. CASE Timeout
  <2>1. PICK out \in [Roles -> Outcomes] : NewSockets({k \in Roles : ~flag[k]}, out)
    BY <1>3 DEF Timeout
  <2>2. started' \in BOOLEAN /\ crashed' = crashed /\ done' = done
    BY <1>3 DEF Timeout, Kept
  <2>3. QED
    BY <2>1, <2>2, NewKept
<1>4. CASE WriteEnds \/ Publish \/ Starts
  BY <1>4 DEF WriteEnds, Publish, Starts, thread, net, Kept
<1>5. CASE Stops
  BY <1>5, RedisLinkAssumption DEF Stops, thread, Kept
<1>6. ASSUME NEW k \in Roles, Handler(k) PROVE Kept'
  <2>1. CASE WriteFails(k) \/ ReadFails(k)
    BY <2>1 DEF WriteFails, ReadFails, Lose, Kept
  <2>2. CASE WriteBegins(k)
    BY <2>2 DEF WriteBegins, Kept
  <2>3. CASE Read(k)
    BY <2>3 DEF Read, Lose, Kept
  <2>4. QED
    BY <1>6, <2>1, <2>2, <2>3 DEF Handler
<1>7. ASSUME NEW k \in Roles, Answered(k) PROVE Kept'
  BY <1>7 DEF Answered, thread, Kept
<1>8. ASSUME NEW k \in Roles, NEW full \in BOOLEAN, Ends(k, full) PROVE Kept'
  BY <1>8, RedisLinkAssumption DEF Ends, thread, Kept
<1>9. ASSUME NEW k \in Roles, Serves(k) PROVE Kept'
  <2>1. /\ started' = started /\ crashed' = crashed /\ done' = done
        /\ server' = server /\ faults' = faults
    BY <1>9 DEF Serves, thread
  <2>2. CASE k = "sub"
    <3>1. wire["sub"] \in Seq(SubscribeCommands) /\ wire["sub"] # <<>>
      BY <1>9, <2>2 DEF Serves, Ordered, Whole, Link, Shape
    <3>2. Head(wire["sub"]) \in SubscribeCommands
      BY <3>1, HeadTailProperties
    <3>3. subs' \subseteq ToSet(Channels)
      BY <1>9, <2>2, <3>2 DEF Serves, SubscribeCommands, Kept
    <3>4. QED
      BY <2>1, <3>3 DEF Kept
  <2>3. CASE k = "pub"
    <3>1. Head(wire["pub"]) \in PublishCommands
      BY <1>9, <2>3, ServesPub DEF Ordered
    <3>2. subs' = subs
      BY <1>9, <2>3, <3>1 DEF Serves, PublishCommands
    <3>3. QED
      BY <2>1, <3>2 DEF Kept
  <2>4. QED
    BY <2>2, <2>3 DEF Roles
<1>10. QED
  BY <1>1, <1>2, <1>3, <1>4, <1>5, <1>6, <1>7, <1>8, <1>9 DEF Next

LEMMA ContextCast == ASSUME NEW life \in {"null", "failed", "live", "freed"} PROVE CastAs(Context(life))
BY DEF CastAs, Context, Roles, None

LEMMA MadeCast ==
    ASSUME NEW life \in {"live", "failed"}
    PROVE  CastAs(SubContext(life)) /\ CastAs(PubContext(life))
<1>1. CASE life = "failed"
  <2>1. SubContext(life) = Context("failed") /\ PubContext(life) = Context("failed")
    BY <1>1 DEF SubContext, PubContext
  <2>2. QED
    BY <2>1, ContextCast
<1>2. CASE life = "live"
  BY <1>2, SubContextTold, PubContextTold DEF Told, CastAs, Roles, None
<1>3. QED
  BY <1>1, <1>2

LEMMA CallbackCast ==
    ASSUME NEW c, DOMAIN c = Fields, CastAs(c), NEW k \in Roles PROVE CastAs(SetDisconnectCallback(c, k))
<1>1. CASE c.onDisconnect # None
  BY <1>1 DEF SetDisconnectCallback
<1>2. CASE c.onDisconnect = None
  <2> DEFINE d == SetDisconnectCallback(c, k)
  <2>1. d.life = c.life /\ d.onConnect = c.onConnect /\ d.onDisconnect = k
    BY <1>2, FieldsAre DEF SetDisconnectCallback
  <2> HIDE DEF d
  <2>2. CastAs(d)
    BY <2>1 DEF CastAs
  <2>3. QED
    BY <2>2 DEF d
<1>3. QED
  BY <1>1, <1>2

\* A step that leaves the contexts, but for one that keeps what it is or is freed.
LEMMA KeptCast ==
    ASSUME Ordered, Cast, NEW k \in Roles, NEW d, Keeps(ac[k], d) \/ d = Freed(ac[k]), ac' = [ac EXCEPT ![k] = d]
    PROVE  Cast'
<1>1. CastAs(d)
  <2>1. CASE Keeps(ac[k], d)
    BY <2>1 DEF Keeps, Cast, CastAs
  <2>2. CASE d = Freed(ac[k])
    BY <2>2, ContextCast DEF Freed
  <2>3. QED
    BY <2>1, <2>2
<1>2. ac'[k] = d /\ \A r \in Roles \ {k} : ac'[r] = ac[r]
  BY DEF Ordered, Whole, Link, Typed
<1>3. QED
  BY <1>1, <1>2 DEF Cast

LEMMA NextCast == Ordered /\ Cast /\ [Next]_vars => Cast'
<1> SUFFICES ASSUME Ordered, Cast, [Next]_vars PROVE Cast'
  OBVIOUS
<1> USE DEF Cast
<1>1. CASE Start
  <2>1. PICK life \in Outcomes : ac' = [ac EXCEPT !.sub = SubContext(life)]
    BY <1>1 DEF Start
  <2>2. CastAs(SubContext(life))
    BY <2>1, MadeCast DEF Outcomes
  <2>3. ac'["sub"] = SubContext(life) /\ ac'["pub"] = ac["pub"]
    BY <2>1 DEF Ordered, Whole, Link, Typed, Roles
  <2>4. QED
    BY <2>2, <2>3 DEF Roles
<1>2. CASE Timeout
  <2>1. PICK out \in [Roles -> Outcomes] :
          LET sub == IF flag.sub THEN ac.sub ELSE SubContext(out.sub)
              pub == PubContext(out["pub"])
          IN  ac' = IF "pub" \notin {k \in Roles : ~flag[k]} THEN [ac EXCEPT !.sub = sub]
                    ELSE [pub |-> pub,
                          sub |-> IF pub.life = "live" THEN SetDisconnectCallback(sub, "pub") ELSE sub]
    BY <1>2 DEF Timeout
  <2>2. out["sub"] \in {"live", "failed"} /\ out["pub"] \in {"live", "failed"}
    BY <2>1 DEF Outcomes, Roles
  <2> DEFINE sub == IF flag["sub"] THEN ac["sub"] ELSE SubContext(out["sub"])
             pub == PubContext(out["pub"])
  <2>3. CastAs(sub) /\ CastAs(pub) /\ DOMAIN sub = Fields
    BY <2>2, MadeCast, SubContextTold DEF Ordered, Whole, IInv, Told, Roles
  <2> HIDE DEF sub, pub
  <2>4. CastAs(SetDisconnectCallback(sub, "pub"))
    BY <2>3, CallbackCast DEF Roles
  <2>5. \/ ac'["sub"] = sub /\ ac'["pub"] = ac["pub"]
        \/ ac'["sub"] \in {sub, SetDisconnectCallback(sub, "pub")} /\ ac'["pub"] = pub
    BY <2>1 DEF sub, pub, Ordered, Whole, Link, Typed, Roles
  <2>6. QED
    BY <2>3, <2>4, <2>5 DEF Roles
<1>3. CASE WriteEnds
  <2>1. at \in Roles /\ ac' = [ac EXCEPT ![at] = WriteDone(ac[at], done)]
    BY <1>3 DEF WriteEnds, Ordered, Whole, IInv, Typed
  <2>2. Keeps(ac[at], WriteDone(ac[at], done))
    BY <2>1, WriteDoneKeeps DEF Ordered, Whole, IInv, Told
  <2>3. QED
    BY <2>1, <2>2, KeptCast
<1>4. CASE Publish
  <2>1. CASE ac' = ac
    BY <2>1
  <2>2. CASE \E cmd : ac' = [ac EXCEPT !["pub"] = Command(ac["pub"], cmd)]
    BY <2>2, CommandKeeps, KeptCast DEF Ordered, Whole, IInv, Told, Roles
  <2>3. QED
    BY <1>4, <2>1, <2>2 DEF Publish
<1>5. ASSUME NEW k \in Roles, NEW c, Lose(k, c) PROVE Cast'
  <2>1. ac' = [ac EXCEPT ![k] = Freed(ac[k])]
    BY <1>5 DEF Lose
  <2>2. QED
    BY <2>1, KeptCast
<1>6. ASSUME NEW k \in Roles, WriteBegins(k) PROVE Cast'
  <2>1. PICK n : ac' = [ac EXCEPT ![k] = Wrote(Connected(ac[k]), n)]
    BY <1>6 DEF WriteBegins
  <2>2. Keeps(ac[k], Wrote(Connected(ac[k]), n))
    BY WroteKeeps DEF Ordered, Whole, IInv, Told
  <2>3. QED
    BY <2>1, <2>2, KeptCast
<1>7. ASSUME NEW k \in Roles, Read(k) PROVE Cast'
  <2> DEFINE r == Head(back[k])
  <2>1. CASE Closes(ac[k], r)
    BY <1>5, <1>7, <2>1 DEF Read
  <2>2. CASE ~Closes(ac[k], r)
    <3>1. ac' = [ac EXCEPT ![k] = Took(ac[k], r)]
      BY <1>7, <2>2 DEF Read
    <3>2. Keeps(ac[k], Took(ac[k], r))
      BY TookKeeps DEF Ordered, Whole, IInv, Told
    <3>3. QED
      BY <3>1, <3>2, KeptCast
  <2>3. QED
    BY <2>1, <2>2
<1>8. ASSUME NEW k \in Roles, WriteFails(k) \/ ReadFails(k) PROVE Cast'
  BY <1>5, <1>8 DEF WriteFails, ReadFails
<1>9. CASE UNCHANGED ac
  BY <1>9
<1>10. CASE \/ UNCHANGED vars \/ Stops \/ Starts
            \/ \E k \in Roles : Answered(k) \/ Serves(k) \/ \E full \in BOOLEAN : Ends(k, full)
  BY <1>9, <1>10 DEF vars, thread, Stops, Starts, Answered, Serves, Ends
<1>11. QED
  BY <1>1, <1>2, <1>3, <1>4, <1>6, <1>7, <1>8, <1>10 DEF Next, Handler

\* The variables of RedisLink keep their types; the contexts are in one of the four
\* states a redisAsyncContext of redis_thread.c is in and have the callbacks of the
\* thread, and the histories hold messages that were published.
THEOREM TypeCorrect == Spec => []TypeOK
<1>1. Init => Ordered /\ Kept /\ Cast
  <2>1. Init => Kept
    <3> SUFFICES ASSUME Init PROVE Kept
      OBVIOUS
    <3>1. started = FALSE /\ crashed = FALSE /\ done = FALSE /\ server = "up" /\ subs = {} /\ faults = 0
      BY DEF Init
    <3>2. faults \in 0 .. MaxFaults
      BY <3>1, RedisLinkAssumption
    <3>3. QED
      BY <3>1, <3>2 DEF Kept
  <2>2. Init => Cast
    BY ContextCast DEF Init, Cast
  <2>3. QED
    BY <2>1, <2>2, InitWhole, InitOrder DEF Ordered
<1>2. Ordered /\ Kept /\ Cast /\ [Next]_vars => Ordered' /\ Kept' /\ Cast'
  BY NextWhole, NextOrder, NextKept, NextCast DEF Ordered
<1>3. Ordered /\ Kept /\ Cast => TypeOK
  BY DEF Ordered, Whole, IInv, Typed, Link, Sockets, Upstream, Downstream, Kept, Cast, CastAs, TypeOK
<1>4. QED
  BY <1>1, <1>2, <1>3, PTL DEF Spec
=============================================================================
