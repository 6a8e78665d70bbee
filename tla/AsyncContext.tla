----------------------------- MODULE AsyncContext -----------------------------
(***************************************************************************)
(* The asynchronous context of hiredis (api/websockets/hiredis/async.c on  *)
(* top of hiredis.c and net.c, attached to libev by adapters/libev.h), as  *)
(* operators on a record.  A command is [op, arg], a reply [kind, arg]:    *)
(*   "push"   an array: subscribe, unsubscribe or message, of channel arg  *)
(*   "error"  an error line                                                *)
(*   "value"  anything else                                                *)
(* Monitor mode, patterns and running out of memory are left out.          *)
(***************************************************************************)
EXTENDS Naturals, Sequences

None == "none"

\* life: "null"    no context was made yet
\*       "failed"  redisAsyncConnect returned it with err set
\*       "live"    in use
\*       "freed"   the pointer is left, the memory is not
Context(life) ==
    [life |-> life, attached |-> FALSE, reading |-> FALSE, writing |-> FALSE,
     connected |-> FALSE, subscribed |-> FALSE, disconnecting |-> FALSE,
     onConnect |-> None, onDisconnect |-> None,
     replies |-> <<>>, invalid |-> <<>>, channels |-> {}, obuf |-> <<>>]

\* redisLibevAttach: from here on the watchers can be started.
Attach(c) == IF c.attached THEN c ELSE [c EXCEPT !.attached = TRUE]

\* _EL_ADD_WRITE and _EL_ADD_READ do nothing on a context that is not attached.
AddWrite(c) == [c EXCEPT !.writing = c.attached]
AddRead(c)  == [c EXCEPT !.reading = c.attached]
DelWrite(c) == [c EXCEPT !.writing = FALSE]

\* The first write event tells that the connection is established.
SetConnectCallback(c, fn) ==
    IF c.onConnect # None THEN c ELSE AddWrite([c EXCEPT !.onConnect = fn])

\* Only the first call counts.
SetDisconnectCallback(c, fn) ==
    IF c.onDisconnect # None THEN c ELSE [c EXCEPT !.onDisconnect = fn]

\* __redisAsyncCommand returns REDIS_ERR.
Refuses(c, cmd) ==
    c.disconnecting \/ (cmd.op = "unsubscribe" /\ ~c.subscribed)

\* Where the callback of cmd is kept: a subscription by its channel, and any
\* other command in the order of the replies, unless the context is subscribed.
Registered(c, cmd) ==
    IF cmd.op = "subscribe" THEN [c EXCEPT !.subscribed = TRUE, !.channels = @ \cup {cmd.arg}]
    ELSE IF cmd.op = "unsubscribe" THEN c
    ELSE IF c.subscribed THEN [c EXCEPT !.invalid = Append(@, cmd)]
    ELSE [c EXCEPT !.replies = Append(@, cmd)]

\* Variant: the callback is kept, the command is not appended.
CommandUnsent(c, cmd) ==
    IF Refuses(c, cmd) THEN c ELSE AddWrite(Registered(c, cmd))

\* __redisAsyncCommand.
Command(c, cmd) ==
    IF Refuses(c, cmd) THEN c
    ELSE AddWrite([Registered(c, cmd) EXCEPT !.obuf = Append(@, cmd)])

\* __redisAsyncHandleConnect on a socket without an error.
Connected(c) == [c EXCEPT !.connected = TRUE]

\* Variant: what the socket took stays in the buffer.
WroteKept(c, n) == c

\* redisBufferWrite: n commands taken by the socket.
Wrote(c, n) == [c EXCEPT !.obuf = SubSeq(@, n + 1, Len(@))]

\* The end of redisAsyncHandleWrite, with what redisBufferWrite said of done.
WriteDone(c, done) == AddRead(IF done THEN DelWrite(c) ELSE AddWrite(c))

\* __redisAsyncFree: callbacks that are pending run with a NULL reply, the
\* watchers are stopped, the memory is freed.
Freed(c) == Context("freed")

\* A reply for which redisProcessCallbacks closes the connection.
Closes(c, r) == c.replies = <<>> /\ r.kind = "error"

\* The assertion of redisProcessCallbacks: a reply for no pending command can
\* only come to a subscribed context.
Expected(c, r) == c.replies # <<>> \/ r.kind = "error" \/ c.subscribed

\* redisProcessCallbacks and __redisGetSubscribeCallback: the context once the
\* callback of r has been found.
Took(c, r) ==
    IF c.replies # <<>> THEN [c EXCEPT !.replies = Tail(@)]
    ELSE IF r.kind # "push" THEN [c EXCEPT !.invalid = IF @ = <<>> THEN @ ELSE Tail(@)]
    ELSE IF r.op = "unsubscribe" /\ r.arg \in c.channels
    THEN [c EXCEPT !.channels = @ \ {r.arg}, !.subscribed = r.left # 0]
    ELSE c
=============================================================================
