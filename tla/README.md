# Verification of itstructure

IT Structure is a web application for keeping the inventory of a network. Most of the repository is
request and response over a database. What has state of its own and runs concurrently is the
WebSocket daemon `api/websockets/wsd` (C, three threads), the asynchronous client of the passport
`api/globals/libs/server/client3` (Python, greenlets), the servers it talks to, and the browser's
end of the WebSocket. This directory holds TLA+ models of the first two and of the libraries the
daemon is built with, what TLC checks of them, and what TLAPS proves of them. Paths below are
relative to `src/`.

## 1. Inventory

### wsd: reactor (`api/websockets/wsd/server.c`)

*State.* The listening socket; the list of `client_info`, one for each socket number, with
`close_it`, `ws_opened`, `crdate`, the `user_info` (session, uid) and the two io buffers.
*Operations.* `start_reactor` loops: take the semaphore, `process_clients`, give it back, sleep.
`process_clients` selects; accepts one connection if there is one; otherwise visits every client:
the timeout of the handshake and the PING, `process_client_read` (header or frame),
`process_client_write`, `close_client`. A socket over the limit of `select`, or a failing `select`,
closes all clients and restarts the server.
*Hard.* Clients are marked for closing from several places and threads; socket numbers are reused;
peers go away at any time, also by reset; buffers fill up.
*Correct when* a client that is gone, late or marked is closed, a client that is closed leaves no
trace, and what is queued is for those it is for.

### wsd: core (`core.c`, `bb.c`)

*State.* `s_core_process_sessions`, the clients to be looked up. *Operations.* Collect up to
`MAX_SESSIONS_CHECK` clients that presented a session, ask the passport about each over a blocking
socket, store the uid or mark the client. *Interacts* with the reactor through the clients' list,
under the one semaphore, which it holds for as long as the passport takes.
*Hard.* Pointers to clients are kept across the request; the request fails in several ways.
*Correct when* a client never has the uid of a session that is not its own, and every session is
looked up.

### wsd: users list (`users.c`)

*State.* A JSON array of users, each with its clients. *Operations.* Add, replace or remove a
client, and tell all listeners `login`, `connected`, `disconnected` or `quit`. Called by the reactor
(status, close) and by core (login, refusal). It is a cache of the clients' list, kept by hand.
*Correct when* it names exactly the open sockets of authenticated clients, and when who listens to
its announcements knows who is online.

### wsd: redis thread (`redis_thread.c`)

*State.* Two hiredis connections with a flag each. *Operations.* Deliver a message to the clients it
is addressed to; publish one, from the reactor thread; reconnect on a timer. *Hard.* Callbacks
registered on the wrong object, flags set before the attempt, contexts used from two threads.
*Correct when* a private message reaches its addressee's sockets and no other, messages keep their
order, a flag says what its connection is, and a lost link comes back.

### wsd: redis client (`api/websockets/hiredis`)

*State.* A context: its socket, output buffer, reader of replies and error; around it, in `async.c`,
the pending callbacks, the table of channels and the watchers of the event loop. *Operations.*
Connect, reconnect, free; format and append commands; write and read what the socket takes and gives;
match replies with callbacks. *Interacts* with the redis thread, which makes it, and with the
reactor, which publishes through it. *Hard.* Every system call may fail and has its own way out;
replies and commands are cut anywhere; the buffer grows through five string headers.
*Correct when* the k-th reply returned answers the k-th command, no descriptor is lost or closed for
another, and a failed connection is told.

### wsd: JSON (`parson.c`)

*State.* Values on the heap, each owned by the container it is in. *Operations.* Set, remove and get,
also by a path with dots; copy, free; read and write text. *Interacts* with the users list (kept as
text) and with clients' messages, in which the reactor sets the sender.
*Correct when* every value has one owner, a text that was written is read back equal, and a path that
is set is found.

### wsd: io buffers (`lists.c`)

*State.* `value`, `len`, `size`. *Operations.* `io_buff_push`, `io_buff_get`, `io_buff_free`.
*Correct when* the buffer is a queue of bytes with a NUL after them, inside its array.

### client3 (`api/globals/libs/server/client3`)

*State.* `Client.buffer` (commands by token), the status and `wait_until` of each;
`buffer_read`, `buffer_write`, `commands_to_send` with byte offsets, `deaduntil`, the socket.
*Operations.* `exec_command` appends a line and polls; the loop of the `Connector` reads lines,
hands answers to commands, connects, selects, reads and writes; `stop` ends it.
*Hard.* Writes take any part of the buffer, connections break inside a line, both buffers survive a
reconnect, answers come late or never, callers and loop are switched at every yield.
*Correct when* no command is executed twice, no call is answered that was not executed, and every
call returns.

### Others

| component | behaviour | here |
|---|---|---|
| tornado servers (`libs/server/tornado`) | per-connection read loops, a table of streams | planned |
| daemon (`libs/daemon`) | start, stop, restart with a pid file | planned |
| browser WebSocket (`iface/web/js/websockets.js`) | connect, reconnect, ping on timers | planned |
| web mixins (`api/web/misc/mixins`) | CRUD over a session shared by a module | planned |
| browser authorisation and API | forms, cookies, a handler table | planned last |
| db sessions, models, migrations | SQLAlchemy configuration and declarations | not modelled: data, and a pool that belongs to SQLAlchemy |
| web applications, user interface, scripts | routing, rendering, layout, set-up | not modelled: no state between requests |
| libsha | a vendored hash | not modelled: no state between calls |

## 2. Modules

| module | models | is |
|---|---|---|
| `UsersList` | `users.c` | operators on the set of `<<uid, cid>>` pairs |
| `UsersSet` | | what the users list promises |
| `UsersArray` | `users.c` | its arrays, changed in place |
| `UsersArrayProofs` | | its theorems |
| `Wsd` | `server.c`, `core.c`, `bb.c`, `redis_thread.c`, `lists.c`, `main.c` | the daemon: three threads, one semaphore |
| `MCWsd` | | the instances of `Wsd` |
| `WsdProofs` | | theorems about `Wsd` |
| `Fifo` | | what an io buffer promises |
| `IoBuffer` | `lists.c` | the array and its arithmetic |
| `WsFrames` | `server.c` 257-320, 500-697, 764-871, `ws.h` | the bytes of frames, in and out |
| `BufferProofs` | | theorems about `IoBuffer` and `WsFrames` |
| `AsyncContext` | `hiredis/async.c`, `adapters/libev.h` | operators on an asynchronous context |
| `Relay` | | what the link to redis promises |
| `RedisLink` | `redis_thread.c` | its two contexts, the event loop, the reactor that publishes, the server |
| `MCRedisLink`, `RedisLinkProofs` | | its instances, its theorems |
| `ReplyReader` | `hiredis/read.c` | operators on a reader |
| `CommandFormat` | `hiredis/hiredis.c` 188-570 | commands: their lengths, their bytes, and a server that reads them |
| `RedisContext` | `hiredis/hiredis.c` | a context in use, on top of `ReplyReader` |
| `RedisConnect` | `hiredis/net.c` | how a context gets and gives back its socket |
| `KeyMap` | | what a dictionary promises |
| `Dict`, `DictProofs` | `hiredis/dict.c` | chains, growth, iterators; theorems |
| `Sds` | `hiredis/sds.c`, `sds.h` | strings behind headers of five widths |
| `HiredisProofs` | | theorems about `RedisConnect`, `CommandFormat` and `Sds` |
| `JsonText` | `parson.c` | reading and writing text |
| `JsonTree`, `TreeProofs` | `parson.c` | values on the heap, and who owns them; theorems |
| `JsonStore` | | the two together: what is written is read back |
| `MCParts` | | instances of the parts that meet only through their callers |
| `Rpc` | | what `exec_command` promises |
| `Client3` | `client3/__init__.py`, `client3/connector.py` | callers, the connector's loop, the server, the network |
| `MCClient3`, `Client3Proofs` | | its instances, its theorems |

`Wsd` extends `UsersList`, `RedisLink` extends `AsyncContext`. `IoBuffer` implements `Fifo`, `Client3`
implements `Rpc`, `RedisLink` implements `Relay`, `Dict` implements `KeyMap` and `UsersArray`
implements `UsersSet`, each by an `INSTANCE` and a property of its run. `MCParts` puts nine parts side
by side, and a behaviour of it is one of one part. Definitions whose comment begins with *Variant* are
plausible mistakes in the definition that follows them. They are used by no specification; each breaks
a property, which shows that the property depends on that code.

### Wsd

A client is named by its socket number. `clients` is the set of occupied slots, `ci` their
`client_info`, `out` the number of messages in their write buffers. `sem` says which thread is
between `sem_wait` and `sem_post`; `todo`, `cur` and `batch` are what a thread has set aside.

* The reactor: `Accept`, `AcceptHigh`, `SelectFails` and `StartPass` are the ways in which
  `process_clients` begins. A pass visits each slot of `todo` in any order (the list's order cannot
  be observed): `VisitBegins`, at most a few `Recv...`, and `VisitEnds` with the write and
  `close_client`. No action of another thread that needs the semaphore comes between.
* Core: `CoreCollect`, a `CoreCheck` for each client collected, `CoreEnd`. `PassportFails` lets a
  request fail, and then what is parsed is what the stack buffer held before: `answer`.
* Redis: `RedisOnMessage`. `chan` holds the addressees of the messages on their way; a published
  message may be lost.
* Peers connect, close and reset, send anything the protocol knows, and let the timeout pass.

Abstractions. Frames and headers are the message they carry. A message is its addressee. A write
buffer counts its messages; over `OutMax` all counts are the same, since a frame is queued only
below the limit. Time is a Boolean for each client. Data that arrives between `select` and the visit
of its socket is as good as data that arrived before `select`, so what a visit reads is chosen when
it reads. `view` is a history variable: the set of users that a client who asked for the list, and
read every announcement since, believes to be online.

`Relogin`, `Resets` and `PassportFails` are not guards of the code. They bound the environment, so
that a property can be checked with and without the behaviour that breaks it.

### Client3

A line is two units, its head and its tail with the line end. That is enough for a write, a read or
a connection to end inside a line. `track` (`status`, `timed`, `tosend`, `ebyte`) is the bookkeeping
of commands; `ebyte` are the end offsets that `connector.py:249-268` adjusts by hand. `at` is where
the loop stands: gevent yields in `sleep`, in `connect` and in `select`, and these are the points
between which other greenlets run (`bbclient.py:3` patches the standard library).

* `Call`, `Poll`, `Stop` are the callers, `TimePasses` their clock. `max_trys` is 1, so that a call
  fails at once while the connector is dead.
* `LoopStarts` takes all whole lines and gives the answers out; `CheckConnected`, `ConnectSucceeds`
  and `ConnectFails` are `is_connected`; `ReadWrite` is the rest of an iteration with everything
  `select`, `recv` and `send` may return.
* `ServerReads`, `ServerAnswers` and `Break` are the environment: lines are executed in order,
  answered in any order or not at all, and a connection may end at any unit.

What is on its way when the client closes its socket is dropped. The server may in truth still read
it, and so execute a command after its call has failed; the model has these executions too, by
reading before the close. `Window` is what the connection holds on its way to the server: `send` takes
at least one unit and at most what is free, and without a free unit the socket is not writable, so that
`select`, which has no timeout (`connector.py:211`), returns only for what there is to read, or at the
end of the connection. A line
whose head came from another connection is no answer (`LinesOf`): it is not JSON, and
`process_answer` raises.

### IoBuffer

`value` is a function on `0 .. size - 1`. `Grown` is the doubling loop, `Written` the array after
the copy and the NUL, `Get` the `memmove` and the `memset`. Memory never written holds `Junk`, which
is part of no queue. `MinSize` stands for 1024. The width of `int` is not modelled: nothing here
limits `buffer_read`, but a length near 2^31 needs as much memory.

### RedisLink

`ac` are the two contexts, `flag` the two flags. What the event loop does in a handler is one step,
except that the reactor, which publishes under a semaphore the handlers do not take, may come between
the write of `redisAsyncHandleWrite` (`WriteBegins`) and its bookkeeping (`WriteEnds`). `Start` and
`Timeout` are `redis_evloop_start` and `timeout_cb`; each attempt to connect goes on or fails at once.
`Lose` is every way in which a context is freed: its connect callback tells of an attempt that failed,
its disconnect callback of a connection that ended. `Publish` on a context that is gone crashes, or
finds memory that still looks like it. The network cuts connections, and the server stops, starts,
answers and refuses. `subs` is what the server believes the daemon is subscribed to.

### The redis client's pieces

*RedisContext.* A call that waits is one step per system call, so that a socket may take and give any
`Sizes` at any point. A reply is a function from paths to nodes, as the reader's tasks build it.
`Commands` are the bytes of formatted commands; the server answers one when it is there to its last byte.
*CommandFormat.* A turn of a loop of `redisvFormatCommand` or `redisFormatSdsCommandArgv` is a step.
`SpaceRead` is a space of the format; `TextRead` is everything else in it, and what that adds to the
argument, nothing included, is any of `Pieces`, so that a format is any sequence of these. Then the
command is built argument by argument (`BuildArgument`), after the length was computed. `words` is
history: the words of the format, whatever is interpolated. The redis server is external: it goes by the
protocol (`ServerReadsCount`, `ServerReadsArgument`) and is given as many bytes as the call returned.
*RedisConnect.* One step per system call, each of which may fail, for all seven ways to connect. The
descriptors of the process are in the model, and other threads take and give back numbers.
*Dict.* A slot of `table` is a sequence of entries. `Hash` is a parameter, chosen so that keys collide
before and after the table grows. `dictReplace` begins with `ReplaceBegins`; if there is no room the size
is looked for (`DoubleSize`, `_dictNextPower`), a second table made (`Allocate`), and the entries moved
into it, one step for each turn of a loop of `dictExpand` (`NextChain`, `MoveEntry`, `Remap`); then the
entry is stored. `new` is that second table with its own `used`, `task` the call that runs. An iterator
keeps the entry it returns and the next one, and the calls made while one is open are those of
`async.c`: deleting the entry it returned. The refusal of `dict.c:94` is left out, since the size asked
for is never less than `used`. `InitialSize` stands for 4, and is 2 in the instance.
*Sds.* `mem` is the allocation, `len` and `type` the header. `Span` says how many values a field of each
header type has; all that is assumed of it is that type 5 is the narrowest and that the widest holds
twice any length there is. In the instance the fields have 1 to 5 bits instead of 5 to 64, so that five
bytes pass through several headers. Memory never written holds `Unset`.

### UsersArray

`list` is the array of users, each with the array of its clients and their status. A call of
`userslist_mng` (`Begin`) walks and shortens it, one step for each turn of a loop of
`userslist_getrm_user`: `PassUser`, `DropUser` and `EnterClients` are the outer loop, `VisitClient` and
`LeaveClients` the inner one, `walk` their indices and the user found; `Removed` and `Added` are what
follows the walk. Nobody else sees the arrays before the call returns, for they are parsed from a text
and written back as one. `before` is history: what was listed when the call began. `UsersSet` is the same
list as a set, by the operators of `UsersList` that `Wsd` uses, so that what is proved of `Wsd` rests on
what the arrays do. Socket number 0, which `main.c:190` frees, is in the instance: with it, `cid_remove`
means all clients of the user (`users.c:60`), and `UsersSet` says so. The sockets of `Wsd` have other
numbers.

### JSON and frames

*JsonText* reads and writes text as sequences of characters, with escapes, surrogate pairs and the
nesting limit. The control characters have names (`Controls`); an escape `\uXXXX` below 128 is the
character it stands for, and one above is opaque, as it is to what escapes.
*JsonTree* keeps values in cells that are reused after a free; `Allocated` is malloc.
What a value owns (`Below`) is the least set that holds it and the items of all its values, so that what
recurses in the code through a value that is there, like `json_value_free`, is one step without a
recursive operator. What builds a value takes steps: `making` is the stack of C with the values that the
parser (`ReadValue`) or `json_value_deep_copy` (`BeginCopy`, `CopyItem`) has begun, each of which is
trimmed if it was read and then added to the one around it (`AddToParent`) or returned (`Return`).
`ReadValue` begins any value where one may come, so that any text is read; a text that is no JSON is
refused at any point with all that was made of it (`Refuse`). A path is one of two names, like all that
the daemon uses (`server.c:338-339`, `server.c:418-425`), so that `DotSet` and `DotGet` do not recurse.
A value that has a parent is refused by all that would attach it (`Apart`); that nobody puts a value
into itself, or frees one that has a parent, is for the callers to see to. *JsonStore* reads the values on
the heap back from their text by `JsonText`.
*WsFrames* scales the bytes: of `Base` values the upper half are negative as `char`s, so that the
lengths put together with `|` go wrong as they do in `server.c:658`; a length has eight bytes, as in the
code, and what is added to it wraps as a `size_t` does. Every frame of the browser has its own mask, and
masking may be any operation (`Xor`) that undoes itself. Each turn of the loop of `process_client_read`
is a step: it waits (`Waits`), ends at a closing frame (`Closes`), takes two bytes of a frame it does not
know (`Refuses`), processes a frame (`Takes`), or reads past the buffer (`Overruns`). The word "close"
marks the client and the loop goes on; a client that is marked is written to once more before it is
closed. The answer to "ping" is an array without a NUL (`server.c:506`), so that what `strlen` makes of
it is any of `Hellos`. `sent` and `queued` are history: what the browser sent, and the messages that got
into `buffer_write`.

## 3. Runs

| run | shows | bounds |
|---|---|---|
| `wsd_safety` | `TypeOK`, `AuthSound`, `UsersListComplete`, `ViewAccurate`, `HeldSlotsLive`, `PrivateDelivery`, `CloseIsFinal` | three socket numbers, the third over the limit; two users, a session each; two connections; one message in redis; buffers full after one message; second sessions allowed |
| `wsd_liveness` | `UsersListExact`, `HandshakeTimeout`, `PeerGoneIsClosed`, `SessionIsAnswered` | one user on two sockets, one session per connection, with resets and failing requests; core looks up one client in a round, so that another waits for the next |
| `wsd_refused` | `RefusedIsClosed` is violated | one client |
| `wsd_relogin` | `UsersListExact` is violated by a second session | one user, two sockets |
| `wsd_reset` | `WriteFailureIsLocal` is violated by a reset | one user, two sockets |
| `wsd_passport` | `AuthSound` is violated by a failed request | two users |
| `redis_link` | `TypeOK`, `FlagsTell`, `CallbacksMatch`, `InOrderOnce`, `SubscriptionHolds`, `IsRelay` | the four channels, two messages, three faults |
| `redis_wakeup` | `WriteScheduled` is violated by a publication during a write | as above, three messages |
| `parts` | `TypeOK`, `Terminated`, `IsQueue` (io buffer); `FramesInStep`; `CommandsWhole` (commands); `RepliesInOrder` (context); `DescriptorsAccounted`, `ErrorsTold` (connecting); `IsMap`, `UsedCounts` (dictionary); `UsersTypeOK`, `ListedOnce`, `IsUsersList` (users list); `StringKept` (strings); `OneOwner`, `TextKept`, `DotSetReaches` (JSON) | below |
| `client3` | `TypeOK`, `OffsetsExact`, `SentIsOut`, `KeepsPromise`; `EveryCallReturns`, when the server reads | two calls; the first attempt and one more connection may fail or break; the connection holds a line and a half |
| `client3_unread` | `EveryCallReturns` is violated when the server does not read | the connection holds one line, and does not break |
| `client3_noreconnect` | `EveryCallReturns` is violated without `do_reconnect` | one connection that breaks, which holds one line |

The bounds of `parts`: the io buffer has two bytes and NUL, pushes up to 3, up to 5 held, least size 2.
Frames: three, for both directions together, of every kind of length, with an unknown opcode, a pong, a
close, both words and a length whose last byte is negative, and a message that is too long; bytes of four
values, read and written in pieces of up to 8. Commands: two arguments of up to ten bytes, the first number
with two figures. The context: two commands, replies
of every type in nested arrays up to the ninth level and one beyond, pieces of 9 and 100 bytes and the
rest. Connecting: numbers 0 to 3, two addresses, three retries. The dictionary: five keys of which three
collide. The users list: two users, the socket numbers 0 to 2, three clients listed. Strings: up to
five bytes, two to a call, headers of 1 to 5 bits. JSON: three values at a time, two names, containers that
have room for one value at first, texts with one container in another; for the reading back, seven texts
of clients, three of which are refused, with control characters bare and by their escapes.

Why the bounds are enough. In `Wsd` two clients make every relation the properties speak of: one is
visited, refused or closed while the other is collected, told or written to, and socket numbers are
reused within the two connections, since the second may get the number of the first. Two users tell whose
session and whose message it is. A buffer that is full after one message makes dropped frames frequent.
In `Client3` one command may be cut anywhere while the other is appended after it, sent whole or
answered, and a break lets the remains of one connection meet the next; that further breaks add nothing
is what the proofs show. A connection that holds less than two lines makes the second wait for room,
whole or in part. In `RedisLink` three
faults lose a link, its replacement and once more, in each of the ways there are; two messages are enough
for one to be overtaken, repeated or left behind. In `parts` a user with two clients is walked while the
other comes before or after it, and the sizes are scaled down, so that each limit (least size, width of a
header, growth of a table, nesting, 1024 of a `recv`) is reached and passed within the bound. The safety
properties of `Wsd`, `Client3`, `IoBuffer`, `WsFrames`, `RedisLink`, `RedisConnect`, `CommandFormat`,
`UsersArray`, `Sds`, `Dict` and `JsonTree` do not rest on the bounds, as they are proved for all values
of the constants (section 5).

Deadlock is checked for `Wsd`, where a process that has crashed or exited stutters by `Gone`. It is off
for `Client3`, since after `stop()` the loop ends and nothing is left to do; for `RedisLink`, since a
process that crashed does nothing more and the environment is bounded; and for `parts`, in which a
connection that is to be closed or whose bounds are used up may do nothing more.

## 4. Fairness

*Wsd.* Every thread gives the semaphore back and then sleeps (`usleep`, the event loop's wait), while
the others are waiting in `sem_wait`. A thread that waits gets it: strong fairness for `Select`,
`CoreCollect` and `RedisOnMessage`. What a thread has begun it finishes: weak fairness for the
visits, the lookups and `Restart`. The passport answers or the request fails; the clock advances.
Nothing is assumed of peers. Passes visit their clients: `select` returns 0 only if no socket is
readable or writable, and then the pass ends before the loop over the clients (`server.c:951`). A
client's socket is normally writable.

*Client3.* Greenlets that are ready run (weak fairness for the loop and for each `Poll`), and time
passes: that is `FairSpec`, which assumes nothing of the server. The loop is fair, but `select` is not
made to return: while the connection is full and silent, `ReadWrite` is not enabled. `ReadingSpec` adds
that the server reads what was sent (`ServerReads`), and nothing else: it need not answer. The tornado
servers read the next line when they have answered one (`libs/server/tornado/tcp/__init__.py:52-55`, or
at once, `connection2.py:44-49`), and every path of `Commands.process` answers. A command that raises,
or a peer that is stopped and keeps its connection open, ends that, and then `client3_unread` shows a
call that never returns.
Connections fail finitely often, by `MaxBreaks`; with `do_reconnect` and a server that is never reachable
again, the commands left in the write buffer have no timeout either.

*RedisLink.* The event loop serves its timer and its watchers, and ends the handler it is in (weak
fairness for `Timeout`, for the handlers of each context and for `WriteEnds`); the kernel ends attempts
to connect, and a server that runs executes what it got. Nothing makes a server that is down start
again. `SubscriptionHolds` is stated for faults that end, which the bound sees to, and it excludes the
attempt that failed at once: `redis_thread.c:152` leaves its flag up, and nothing tries again.

Liveness is stated up to what really ends the service. `Halted` in `Wsd`: the process is gone, or it
has no free socket while connections wait, when `accept` fails and every pass ends there
(`server.c:960`). In `Client3`: calls made before `stop()`.

## 5. What is proved

TLAPS proves the following for every value of the constants that satisfies the assumptions which the
modules name: `WsdAssumption`, `Client3Assumption` and `IoBufferAssumption` state the constants' types;
`RedisLinkAssumption` that there are four channels, which differ; `UsersArrayAssumption` that sockets
have natural numbers; `DictAssumption` that every key has a natural hash and the first size is not 0;
`SdsAssumption` that bytes are told apart, that the first header is the narrowest, and that no string in
the memory there is overflows the widest; `FramesAssumption` that the opcodes differ, that masking twice
is not masking, that messages are bytes, and that a frame of the browser gives its length in a way that
holds it; `FormatAssumption` that arguments and pieces are of bytes, and that a command fits the `int` in
which `redisvFormatCommand` computes its length; `TreeAssumption` that the bounds are numbers, a
container has room for one value at first, and a scalar is no container. Nothing else is assumed.

**Wsd.** `TypeCorrect` is inductive by itself. Two invariants are built on it:

* `Held` says what a thread may rely on while it has the semaphore. `HeldSlotsLive`
  is not inductive alone. It needs `Locks` (what a thread set aside is empty while it has not the
  semaphore, and the slot visited is one to be visited) and `UnmarkedAhead` (no slot still to be
  visited is marked). With these, no step of the reactor can touch a slot core has collected.
  `SlotsAreHeld` follows.
* `Listed` adds `Presented` (only a client that presented a session has a uid) to
  `UsersListComplete` and `ViewAccurate`. The core of the argument are `RemovalAnnounced` and
  `AdditionAnnounced`: whoever believed the list before an announcement believes it after. It yields
  `UsersAreListed` and `ViewsAreAccurate`.

`ListIsExact` assumes `~Relogin`: without a second session on a connection the list has no entry too
many. `AuthIsSound` and `DeliveryIsPrivate` assume `~PassportFails`. The assumptions are needed:
`wsd_relogin` and `wsd_passport` show what happens without them. `ClosingIsFinal` needs `Held` only.

**IoBuffer.** `BufferInv` is `TypeOK` with `Terminated`: there is room for the NUL in every state, which
is what keeps all indices inside the array (`Roomy`). `BufferIsQueue` maps each step to one of
`Fifo`: `PushPuts`, `GetTakes`, `FreeClears`.

**WsFrames.** `FramesStayInStep` rests on `Orderly`, which holds as long as no frame was sent that wsd
does not stay in step with. `InOrder` says that what is in `buffer_read` and what is on its way are,
together, the frames that were not processed, one behind the other (`Joined`: there are places where
they end), and `OutOrder` the same of `buffer_write`, the browser's bytes and the messages it has not
shown. That frames do not run into each other is then that each side sees the length of the first frame
in the bytes it has, however few: `Digits` (eight bytes give back the number), `LengthRead`, `WholeRead`
(the loop waits for exactly the frame), `PayloadRead` and `ExtentRead`. From there `recv` and `send` only
move bytes from the head of one sequence to the end of another (`Moved`), a frame taken is the first of
those that are joined (`JoinedRest`), and one sent the last (`JoinedMore`). `Waiting` is what makes the
other half of the property inductive: where the loop ended, the next frame is not whole or closes.

**Client3.** `TypeOK` with `OffsetsExact` would be inductive; `SentIsOut` and `KeepsPromise` need
`Placed`, which follows the end of every command. It is in the write buffer, on its way to the
server, or executed, and never in two of these places; a head in the write buffer is followed by
its tail; an answer exists only for what was executed. From it `OffsetsAreExact`, `SentLeft` and
`PromiseKept`, the refinement of `Rpc`. The proof does not use `DoReconnect` or `MaxBreaks`.

**RedisLink.** `FlagsTell` is not inductive: whether losing a context puts its flag down depends on
the callbacks it has. `Told` says which those are, and `Typed` what the contexts' fields are; no command,
write or reply changes them (`CommandKeeps`, `WroteKeeps`, `WriteDoneKeeps`, `TookKeeps`). `Told` is
where the mistake of `redis_thread.c:206` shows: the publishing context has no disconnect callback.

`CallbacksMatch` relates the pending callbacks of the publishing context to what is in its buffer, on
the wire and among the answers. `Shape` says what can be in each of these at all, and `Matching` how many
there are in each state of the socket: while it connects or is open, a callback for each command and each
answer; after the server ended the connection, no more answers than callbacks, or the refusal alone. A
context that is lost takes all of them along, and a new one begins with none (`PubEmpty`).

`InOrderOnce` needs what is still on its way. `Upstream` says that what the server received, what is on
the wire and what is in the buffer follow each other in the order of publication, and `Downstream` the
same of what clients were given and what is on its way to them, all of which the server received. A loss
empties a part of one of them, a publication is above all of it. `LinkRelays` is the refinement of
`Relay`, step by step, from the same invariant.

**UsersArray.** `ArraysListOnce` and `ArraysAreTheList` need the state of the walk. `Once` says that no
user, and no client of a user, is twice in the arrays, in the middle of a removal too. `Walking` says
where the indices can be: only the user at the inner loop may be without clients, and no user behind the
walk is the one looked for, except the one that was found and has lost its client. `Inside` says that in
the inner loop no client behind it is the one to be removed, and `Kept` that whatever the call is not
about (`Away`) is listed as it was `before`. That the inner loop does not step back after a removal is
harmless because of `Once`: what it skips has another number. From these every walk ends with the set
`UsersList` asks for, and the last step of each call is the step of `UsersSet`.

**Sds.** `Holds` is `StringKept` with what makes it inductive: `RoomFor` says that the length fits the
field of the header it is in and the memory behind it, and that `alloc` tells of both, except in type 5,
which has no such field. `ReqTypeFits` and `RoomMade` are the core: the header `sdsMakeRoomFor` chooses
holds the room it makes, from whichever header the string comes. `Bare` is `Holds` without the NUL, for
the loop of `sdscatfmt` writes it only at the end (`PieceBare`, `CatFmtHolds`); for each call there is one
lemma. Type 5 needs care in `sdsIncrLen` and `sdscatfmt`, and gets it because room for one more byte is
never made in that type.

**Dict.** `CountIsExact` and `TableIsMap` rest on `Tabled`: in each of the two tables an entry is in the
chain its hash asks for and no key is there twice (`Tidy`), no key is in both (`Apart`), and `UsedCounts`.
While the table grows, `Growing` says that the chains behind the index are empty; so when `dictExpand`
stops, at the last chain or because `used` is 0, the old table is empty, by the first or by the
second, and `RemapHolds` has lost nothing. For the steps of a growth the lemmas show that what is
`Stored` in both tables together is unchanged: they are invisible in `KeyMap`. `Iterates` relates the
iterator to the table: the entry it returned is no longer ahead, and the next one it saved is in the
same chain, also after the returned one was unlinked (`FromStays`, `DeleteHolds`). `Hash` may be any
function, also one that sends every key to one chain, and the keys need not be finitely many.

**JsonTree.** `OneOwner` says that owners and what they own know each other; it is not inductive, since
freeing a value frees all below it. `TreeInv` adds to it what that takes. `Owned` and `Listed` are the two
directions of ownership, and `Acyclic` says that nothing is in itself: without it, freeing an item could
free the container that is about to forget it. `AllSound` has the rest of `OneOwner` and that an object
has a name for each item, without which `Filled` and `Index` mean nothing; `Typed` are the types.
`FramesOK` says that what the parser and the copy have on the stack is on the heap, belongs to nobody and
is there once, and that what is copied is of the same kind as its copy; so an innermost value can be added to the
one around it without closing a circle. All that changes the graph of owners is one of three steps: a
new value (`FreshGraph`), a value without a parent put into a container it does not hold
(`LinkedGraph`), and a set taken away that is closed under ownership (`CutGraph`). `Below` is not
computed in these proofs: `BelowIsLeast` says that it is the least closed set, which is all that is used
of it. `AllocatedOK`, `ArrayAddOK`, `ObjectAddOK`, `ReplacedOK`, `RemovedOK`, `WithoutOK` and `ClearedOK` say of
each operator that it leaves the heap in order, each by these three. `ValuesHaveOneOwner` follows. For `PathsReach`
the lemmas about sets say where the value is afterwards as well (`HasSet`, `MemberAdded`, `DotSetNew`): it is
of use that freeing the old value does not take away the object on the way, which is `Acyclic` again.

**RedisConnect.** `Accounted` and `FailuresTold` assume `MaxFd \in Nat` only. `DescriptorsAccounted`
needs `OneHeld` (a descriptor of the context is the one in `fd`), `Held` (from `socket` on there is
one) and `Stale` (otherwise `fd` is no number, or one that `redisReconnect` closed).

**CommandFormat.** `CommandsAreWhole` rests on `CommandInv`. In the loop over a format (`FormatInv`) the
arguments and the one begun are the words that were read, and in every loop `totlen` is the length of what
will be built of the arguments behind it (`FormatInv`, `CountInv`). Such a length is a sum, for which no
recursion is used: `Sums` says of a sequence of places that each is the one before and the length of an
argument, and the invariants say that there is one. While the command is built and after (`BuildInv`) its
bytes at these places are what they should be (`Shows`), and what the server has read ends at one of them.
`CountsFigures` is the arithmetic: `countDigits`, which divides by ten thousand, finds the
width of the numeral `sprintf` writes, for every number that fits an `int`. Then the length computed is
the length built. The server finds the same number in the figures because two numbers have different
numerals (`NumeralsDiffer`), and the end of the line where it is because no figure is a CR (`LineRead`);
what bytes an argument has does not matter, since they are not looked at.

**Model-checked only.** The liveness properties (`HandshakeTimeout`, `PeerGoneIsClosed`,
`SessionIsAnswered`, `EveryCallReturns`, `SubscriptionHolds`), which rest on fairness, and all of the
violations. `RepliesInOrder` and `TextKept` speak of what recursive operators compute of data of any depth: a statement for every value would need an
induction over that data, which the prover cannot do.

## 6. Findings

1. *A client the passport refuses is never closed* (`core.c:57`, run `wsd_refused`). It is marked
   between two passes, and no pass looks at a marked client again.
2. *A second session leaves a ghost in the users list* (`server.c:386`, `wsd_relogin`). The uid is
   forgotten before its entry is removed. The half that still holds is `UsersListComplete`.
3. *A connection reset by its peer ends the daemon* (`server.c:862`, `wsd_reset`). The result of
   `send` is kept in a `size_t`.
4. *A failed request to the passport can authenticate* (`bb.c:100`, `wsd_passport`). An
   uninitialised buffer is parsed.
5. *A call without reconnection can wait for ever* (`client3/__init__.py:112`,
   `client3_noreconnect`). Only a command that has been sent has a timeout.
6. *A call to a server that does not read can wait for ever* (`client3/connector.py:211`,
   `client3_unread`). `select` has no timeout, and a command that there is no room for is not sent.
7. *A publication during a write may not be written* (`async.c:551`, `redis_wakeup`).
   `redisAsyncHandleWrite` stops the watcher for a buffer that the reactor thread has just added to
   (`redis_thread.c:122`); the message waits for the next one.

What else the models made explicit, stated in the properties as their exceptions:

* The publishing link, once made and lost, is not made again (`redis_thread.c:206` gives its disconnect
  callback to the other context): `FlagsTell`. An attempt that fails at once leaves the flag up
  (`redis_thread.c:152`): `SubscriptionHolds`.
* After a frame with an unknown opcode its mask and payload are parsed as frames (`server.c:571`):
  `OutOfStep` of `FramesInStep`.
* A byte over 127 of a 64-bit length sets all the bits above it (`server.c:658`): the loop waits for
  bytes that never come, or reads past the buffer. `OutOfStep` again.
* A connection may fail and leave `err` at 0: with `REDIS_REUSEADDR` when `SO_REUSEADDR` is refused
  (`net.c:360`) or when no local port is free after all retries (`net.c:386`), and when the timeout for a
  path is out of range (`net.c:457`). A failure of `getaddrinfo` is told. `ErrorsTold`.
* A message whose "from" is not an object keeps it: `json_object_dotset_value` sets nothing where the
  path is blocked, and `server.c:424` does not look at the result. `DotSetReaches`.
* `redisReconnect` keeps the number of the descriptor it closed, and a later `redisFree` may close
  another thread's; number 0 is never closed: `DescriptorsAccounted`.

## 7. Not modelled, and the plan

Left out of `Wsd`: the bytes of headers, the order and the links of the clients' list, options and
daemonisation. Left out of `WsFrames`: the limit of the stack buffer for a 16-bit length
(`server.c:589`), FIN, fragmentation and the mask bit, which the code does not look at, the width of the
`int` that counts bytes, failures of `recv` and `send` (in `Wsd`), and how a buffer grows (`IoBuffer`).
Left out of `UsersArray`: names, addresses and pages, and the text made of the list, whose terminating
NUL is written one byte past its memory (`users.c:187-189`; nothing reads it there). Left out of the
redis client: thread-safety of its memory beyond the lost wake-up (two threads in one `sds` is undefined
behaviour without outcomes to enumerate), monitor mode and patterns, keep-alive and timeouts of `send`
and `recv`, running out of memory, the syntax of conversions, commands longer than an `int` can say,
splitting, joining, quoting and `printf` of strings. Left out of JSON: numbers that are not whole, paths
of more than two names, validation of UTF-8, comments, files, schemas, running out of memory. Left out of
`Client3`: the contents of lines, pings (calls like others), lines no call waits for, the pacing of the
loop, a caller's own `timeout` argument (a timeout is a point in time). The line a subclass pushes on
connecting (`bbclient.py:10-12`) is appended after what the last connection left; the model, like the
base class, has no such line.

Hazards without a property. The models have these behaviours. For most of them nothing in the repository
says what should happen instead, so that there is no claim to check; a property that states one as its
exception is not counted for it:

* Socket 1024 is one past an `fd_set` (`server.c:968`); what the bit overwrites is the compiler's choice.
* With connections waiting and no free socket, `accept` fails and no client is visited (`server.c:960`);
  a request to the passport that fails loses its socket (`bb.c:47`). Both end in `Halted`, which the
  liveness properties of `Wsd` exempt.
* A passport that never answers keeps the semaphore (`bb.c:53`): the fairness of core assumes it away,
  and without it no liveness property of `Wsd` holds.
* A frame dropped for a full buffer (`server.c:298`), or as too big (`server.c:276`), is lost to its
  reader: `ViewAccurate` exempts who lost one. What `TypeOK` bounds is the buffer.
* The rest of a frame with an unknown opcode (`server.c:571`), a 64-bit length (`server.c:658`), and the
  two mistakes with the flags of the redis links (`redis_thread.c:206`, `redis_thread.c:152`), are
  exceptions as said above.

A `select` that times out would end the pass before the clients are visited (`server.c:951`); the write
set makes it return before, unless every send buffer is full.

Next, in this order:

1. `WsClient`: the browser's reconnect and ping timers; then composed with the handshake of `Wsd`.
2. `Daemon` and the tornado servers; then the browser's authorisation.
3. The links of the clients' list.
4. Theorems: of `ReplyReader`, with the tasks of a reply as a relation in place of the recursive `Tree`.
