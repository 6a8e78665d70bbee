------------------------------- MODULE RedisLink -------------------------------
(***************************************************************************)
(* The redis thread of wsd (api/websockets/wsd/redis_thread.c): one        *)
(* connection that subscribes ("sub") and one that publishes ("pub"), each *)
(* an AsyncContext with a flag that says whether it is thought to be       *)
(* connected; the event loop, its periodic timer, the reactor thread that  *)
(* publishes, and the redis server.                                        *)
(*                                                                         *)
(* The handlers of the event loop run without the semaphore, so that the   *)
(* reactor's Publish may come between the write of redisAsyncHandleWrite   *)
(* and the bookkeeping after it: WriteBegins, WriteEnds.  Everything else  *)
(* a handler does is one step.  A reply is taken by a step of its own.     *)
(***************************************************************************)
EXTENDS AsyncContext, Naturals, Sequences, SequencesExt, FiniteSets

CONSTANTS
    Channels,   \* the four channels of redis_connect_server, in its order
    MaxMsgs,    \* bound: messages published
    MaxFaults   \* bound: connections cut, refused by a running server, or
                \* without a socket, and restarts of the server

ASSUME RedisLinkAssumption ==
    /\ Channels \in Seq(ToSet(Channels)) /\ IsInjective(Channels) /\ Len(Channels) = 4
    /\ MaxMsgs \in Nat /\ MaxFaults \in Nat

Roles == {"sub", "pub"}
Idle == "idle"

VARIABLES
    started,    \* the redis thread has run redis_connect_server
    flag,       \* redis_server_connected, redis_pubserver_connected
    ac,         \* redis_server_obj, redis_pubserver_obj
    at,         \* the role in the middle of redisAsyncHandleWrite, or Idle
    done,       \* its local variable
    crashed,    \* the process has used a context that is not there
    sock,       \* the connection, as the kernel has it
    wire, back, \* commands and replies on their way
    server, subs, faults,   \* the server, the channels the daemon is subscribed to
    published, received, delivered  \* history: by the reactor, by the server, to clients

thread == <<started, flag, ac, at, done, crashed>>
net == <<sock, wire, back, server, subs, faults>>
history == <<published, received, delivered>>
vars == <<thread, net, history>>

Messages == 1 .. MaxMsgs

TypeOK ==
    /\ started \in BOOLEAN /\ crashed \in BOOLEAN /\ done \in BOOLEAN
    /\ flag \in [Roles -> BOOLEAN]
    /\ at \in Roles \cup {Idle}
    /\ \A k \in Roles : /\ ac[k].life \in {"null", "failed", "live", "freed"}
                        /\ {ac[k].onConnect, ac[k].onDisconnect} \subseteq Roles \cup {None}
    /\ sock \in [Roles -> {"none", "connecting", "refused", "open", "eof"}]
    /\ server \in {"up", "down"} /\ subs \subseteq ToSet(Channels)
    /\ faults \in 0 .. MaxFaults
    /\ \A h \in {published, received, delivered} : h \in Seq(Messages)

Init ==
    /\ started = FALSE /\ crashed = FALSE /\ at = Idle /\ done = FALSE
    /\ flag = [k \in Roles |-> FALSE]
    /\ ac = [k \in Roles |-> Context("null")]
    /\ sock = [k \in Roles |-> "none"]
    /\ wire = [k \in Roles |-> <<>>] /\ back = [k \in Roles |-> <<>>]
    /\ server = "up" /\ subs = {} /\ faults = 0
    /\ published = <<>> /\ received = <<>> /\ delivered = <<>>

Publishing(m) == [op |-> "publish", arg |-> m]
Subscribing(ch) == [op |-> "subscribe", arg |-> ch]
Subscribed(c, i) == Command(c, Subscribing(Channels[i]))
-----------------------------------------------------------------------------
(* The redis thread: connecting                                            *)

\* What redisAsyncConnect may return.  connect() to a port of this host that
\* nobody listens on fails at once more often than not, and then
\* redisContextWaitReady closes the socket; so does a process without sockets.
Outcomes == IF server = "down" \/ faults < MaxFaults THEN {"live", "failed"} ELSE {"live"}

\* Variant: the subscriptions are left to the connect callback, which has none.
SubContextBare(life) ==
    IF life = "failed" THEN Context("failed")
    ELSE SetDisconnectCallback(SetConnectCallback(Attach(Context("live")), "sub"), "sub")

\* redis_connect_server.  On failure it returns early, the flag up.
SubContext(life) ==
    IF life = "failed" THEN Context("failed")
    ELSE LET c == SetDisconnectCallback(SetConnectCallback(Attach(Context("live")), "sub"), "sub")
         IN  Subscribed(Subscribed(Subscribed(Subscribed(c, 1), 2), 3), 4)

\* redis_pubconnect_server.  The disconnect callback goes to the other context.
PubContext(life) ==
    IF life = "failed" THEN Context("failed")
    ELSE SetConnectCallback(Attach(Context("live")), "pub")

\* The socket of the roles K that were connected with outcomes out is new.
NewSockets(K, out) ==
    /\ sock' = [k \in Roles |-> IF k \notin K THEN sock[k]
                                ELSE IF out[k] = "live" THEN "connecting" ELSE "none"]
    /\ wire' = [k \in Roles |-> IF k \in K THEN <<>> ELSE wire[k]]
    /\ back' = [k \in Roles |-> IF k \in K THEN <<>> ELSE back[k]]
    /\ faults' = IF server = "up" /\ \E k \in K : out[k] = "failed" THEN faults + 1 ELSE faults
    /\ UNCHANGED <<server, subs, history>>

\* redis_evloop_start, up to ev_loop.
Start == \E life \in Outcomes :
    /\ ~started /\ started' = TRUE
    /\ flag' = [flag EXCEPT !.sub = TRUE]
    /\ ac' = [ac EXCEPT !.sub = SubContext(life)]
    /\ NewSockets({"sub"}, [k \in {"sub"} |-> life])
    /\ UNCHANGED <<at, done, crashed>>

\* timeout_cb, under the semaphore.
Timeout == \E out \in [Roles -> Outcomes] :
    LET down == {k \in Roles : ~flag[k]}
        sub == IF flag.sub THEN ac.sub ELSE SubContext(out.sub)
        pub == PubContext(out["pub"])
    IN  /\ started /\ at = Idle /\ ~crashed /\ down # {}
        /\ flag' = [k \in Roles |-> TRUE]
        /\ ac' = IF "pub" \notin down THEN [ac EXCEPT !.sub = sub]
                 ELSE [pub |-> pub,
                       sub |-> IF pub.life = "live" THEN SetDisconnectCallback(sub, "pub") ELSE sub]
        /\ NewSockets(down, out)
        /\ UNCHANGED <<started, at, done, crashed>>
-----------------------------------------------------------------------------
(* The redis thread: the event loop                                        *)

\* Variant: the flag stays up when an attempt to connect fails.
LoseSilently(k, c) ==
    /\ ac' = [ac EXCEPT ![k] = Freed(@)]
    /\ flag' = [r \in Roles |-> flag[r] /\ ~(c.connected /\ c.onDisconnect = r)]
    /\ sock' = [sock EXCEPT ![k] = "none"]
    /\ wire' = [wire EXCEPT ![k] = <<>>] /\ back' = [back EXCEPT ![k] = <<>>]
    /\ subs' = IF k = "sub" THEN {} ELSE subs

\* The context, then in state c, is freed and its socket closed: after a failed attempt to connect
\* by way of its connect callback, after a connection by way of its disconnect
\* callback, which puts the flag down.  Pending callbacks only write to the log.
Lose(k, c) ==
    LET told == IF c.connected THEN c.onDisconnect ELSE c.onConnect
    IN  /\ ac' = [ac EXCEPT ![k] = Freed(@)]
        /\ flag' = [r \in Roles |-> flag[r] /\ told # r]
        /\ sock' = [sock EXCEPT ![k] = "none"]
        /\ wire' = [wire EXCEPT ![k] = <<>>] /\ back' = [back EXCEPT ![k] = <<>>]
        /\ subs' = IF k = "sub" THEN {} ELSE subs

Handles(k) == started /\ at = Idle /\ ~crashed /\ ac[k].life = "live"

\* redisAsyncHandleWrite on a socket with an error, or that the server closed: a
\* connection lost before its first event counts as failed or as made.
WriteFails(k) ==
    /\ Handles(k) /\ ac[k].writing
    /\ \/ sock[k] = "refused" /\ Lose(k, ac[k])
       \/ sock[k] = "eof" /\ \E c \in {ac[k], Connected(ac[k])} : Lose(k, c)
    /\ UNCHANGED <<started, at, done, crashed, server, faults, history>>

\* redisAsyncHandleWrite up to the end of redisBufferWrite: the first event of a
\* connection calls the connect callback, and the socket takes n commands.
WriteBegins(k) ==
    /\ Handles(k) /\ ac[k].writing /\ sock[k] \in {"open", "eof"}
    /\ \E n \in 0 .. Len(ac[k].obuf) :
        /\ n = 0 => ac[k].obuf = <<>>
        /\ ac' = [ac EXCEPT ![k] = Wrote(Connected(@), n)]
        /\ flag' = [r \in Roles |-> flag[r] \/ (~ac[k].connected /\ ac[k].onConnect = r)]
        /\ wire' = IF sock[k] = "eof" THEN wire
                   ELSE [wire EXCEPT ![k] = @ \o SubSeq(ac[k].obuf, 1, n)]
        /\ done' = (n = Len(ac[k].obuf))
    /\ at' = k
    /\ UNCHANGED <<started, crashed, sock, back, server, subs, faults, history>>

\* The rest of redisAsyncHandleWrite: the watchers.
WriteEnds ==
    /\ at # Idle
    /\ ac' = [ac EXCEPT ![at] = WriteDone(@, done)]
    /\ at' = Idle
    /\ UNCHANGED <<started, flag, done, crashed, net, history>>

\* Variant: the answers to the subscriptions are handed to the clients, too.
HandsAllOver(k, r) == k = "sub" /\ r.kind = "push"

\* myredisOnMessage, the callback of the channels, hands what it gets to all clients,
\* the answers to the subscriptions excepted.
HandsOver(k, r) == k = "sub" /\ r.kind = "push" /\ r.op # "subscribe"

\* redisAsyncHandleRead: one reply, and its callback.  myredisOnReply only writes to
\* the log.
Read(k) ==
    /\ Handles(k) /\ ac[k].reading /\ back[k] # <<>>
    /\ LET r == Head(back[k])
       IN  IF Closes(ac[k], r)
           THEN /\ Lose(k, ac[k])
                /\ UNCHANGED delivered
           ELSE /\ ac' = [ac EXCEPT ![k] = Took(@, r)]
                /\ back' = [back EXCEPT ![k] = Tail(@)]
                /\ delivered' = IF HandsOver(k, r) THEN Append(delivered, r.msg) ELSE delivered
                /\ UNCHANGED <<flag, sock, wire, subs>>
    /\ UNCHANGED <<started, at, done, crashed, server, faults, published, received>>

\* redisAsyncHandleRead at the end of the stream.
ReadFails(k) ==
    /\ Handles(k) /\ ac[k].reading /\ back[k] = <<>> /\ sock[k] = "eof"
    /\ Lose(k, ac[k])
    /\ UNCHANGED <<started, at, done, crashed, server, faults, history>>
-----------------------------------------------------------------------------
(* The reactor thread                                                      *)

\* myredis_publish, called under the semaphore.  Nothing keeps it from a context
\* that was never made or was freed; memory that was freed may happen to bear it.
Publish ==
    /\ ~crashed /\ Len(published) < MaxMsgs
    /\ LET m == Len(published) + 1
       IN  CASE ac.pub.life = "null"  -> crashed' = TRUE /\ UNCHANGED <<ac, published>>
             [] ac.pub.life = "freed" -> crashed' \in BOOLEAN /\ published' = Append(published, m)
                                         /\ UNCHANGED ac
             [] OTHER -> /\ ac' = [ac EXCEPT !.pub = Command(@, Publishing(m))]
                         /\ published' = Append(published, m)
                         /\ UNCHANGED crashed
    /\ UNCHANGED <<started, flag, at, done, net, received, delivered>>
-----------------------------------------------------------------------------
(* The network and the server                                              *)

Push(op, ch, m) == [kind |-> "push", op |-> op, arg |-> ch, msg |-> m, left |-> 1]
Value == [kind |-> "value"]
TooMany == [kind |-> "error"]

\* An attempt to connect succeeds or fails.
Answered(k) ==
    /\ sock[k] = "connecting"
    /\ sock' = [sock EXCEPT ![k] = IF server = "up" THEN "open" ELSE "refused"]
    /\ UNCHANGED <<thread, wire, back, server, subs, faults, history>>

\* The server ends a connection: what it has not read is lost, what it has sent is
\* not.  With full, it is over its maxclients and says so.
Ends(k, full) ==
    /\ faults < MaxFaults /\ sock[k] = "open"
    /\ full => ~ac[k].connected
    /\ sock' = [sock EXCEPT ![k] = "eof"]
    /\ wire' = [wire EXCEPT ![k] = <<>>]
    /\ back' = IF full THEN [back EXCEPT ![k] = <<TooMany>>] ELSE back
    /\ subs' = IF k = "sub" THEN {} ELSE subs
    /\ faults' = faults + 1
    /\ UNCHANGED <<thread, server, history>>

Stops ==
    /\ server = "up" /\ faults < MaxFaults
    /\ server' = "down" /\ faults' = faults + 1
    /\ sock' = [k \in Roles |-> IF sock[k] = "open" THEN "eof" ELSE sock[k]]
    /\ wire' = [k \in Roles |-> <<>>] /\ subs' = {}
    /\ UNCHANGED <<thread, back, history>>

Starts ==
    /\ server = "down" /\ server' = "up"
    /\ UNCHANGED <<thread, sock, wire, back, subs, faults, history>>

\* The server executes a command.  The daemon is subscribed to its own channel.
Serves(k) ==
    /\ sock[k] = "open" /\ wire[k] # <<>>
    /\ LET cmd == Head(wire[k])
       IN  IF cmd.op = "subscribe"
           THEN /\ subs' = subs \cup {cmd.arg}
                /\ back' = [back EXCEPT ![k] = Append(@, Push("subscribe", cmd.arg, 0))]
                /\ UNCHANGED received
           ELSE /\ received' = Append(received, cmd.arg)
                /\ back' = [pub |-> Append(back.pub, Value),
                            sub |-> IF Last(Channels) \in subs
                                    THEN Append(back.sub, Push("message", Last(Channels), cmd.arg))
                                    ELSE back.sub]
                /\ UNCHANGED subs
    /\ wire' = [wire EXCEPT ![k] = Tail(@)]
    /\ UNCHANGED <<thread, sock, server, faults, published, delivered>>
-----------------------------------------------------------------------------
Handler(k) == WriteFails(k) \/ WriteBegins(k) \/ Read(k) \/ ReadFails(k)

Next ==
    \/ Start \/ Timeout \/ WriteEnds \/ Publish \/ Stops \/ Starts
    \/ \E k \in Roles : \/ Handler(k) \/ Answered(k) \/ Serves(k)
                        \/ \E full \in BOOLEAN : Ends(k, full)

\* The event loop serves its timer and its watchers, the kernel and a running
\* server answer.  Nothing makes a server that is down start.
Fairness ==
    /\ WF_vars(Start) /\ WF_vars(Timeout) /\ WF_vars(WriteEnds)
    /\ \A k \in Roles : WF_vars(Handler(k)) /\ WF_vars(Answered(k)) /\ WF_vars(Serves(k))

Spec == Init /\ [][Next]_vars /\ Fairness
-----------------------------------------------------------------------------
(* Properties                                                              *)

\* The flags tell the truth, or reconnecting would be forgotten or happen twice:
\* a flag that is down has no context to leak, and a context that is gone has its
\* flag down.  The exception is a publishing connection lost after it was made:
\* its disconnect callback was given to the other context (redis_thread.c:206).
FlagsTell == \A k \in Roles :
    /\ ~flag[k] => ac[k].life \in {"null", "freed"}
    /\ ac[k].life \in {"null", "freed"} /\ flag[k] => k = "pub" /\ ac[k].life = "freed"

\* The assertion of async.c:464, and what the publisher's replies rely on: for each
\* command that was written or waits to be, and for no other, a callback is
\* pending, across partial writes and what the reactor adds meanwhile.
CallbacksMatch ==
    /\ ac.pub.life = "live" /\ sock.pub \in {"connecting", "open"} =>
          Len(ac.pub.replies) = Len(ac.pub.obuf) + Len(wire.pub) + Len(back.pub)
    /\ \A k \in Roles : ac[k].life = "live" /\ back[k] # <<>> => Expected(ac[k], Head(back[k]))

\* Messages reach the server in the order of their publication and the clients in
\* the order of the server, each at most once, through any number of reconnections.
InOrderOnce ==
    /\ \A h \in {received, delivered} : \A i, j \in DOMAIN h : i < j => h[i] < h[j]
    /\ ToSet(delivered) \subseteq ToSet(received)

\* The link is a relay: whatever is cut, refused, written in part or published on a
\* connection that is not there, it loses messages, and does nothing else to them.
Bus == INSTANCE Relay
IsRelay == Bus!Spec

\* async.c:645: "Always schedule a write when the write buffer is non-empty".
WriteScheduled == \A k \in Roles :
    ac[k].life = "live" /\ ac[k].obuf # <<>> => ac[k].writing

\* However often connections are cut and the server restarts, the daemon ends up
\* subscribed to every channel, unless an attempt to connect failed at once
\* (redis_thread.c:152 leaves the flag up) or there is no server or no process.
SubscriptionHolds == <>[](\/ subs = ToSet(Channels)
                          \/ ac.sub.life = "failed" \/ server = "down" \/ crashed)
=============================================================================
