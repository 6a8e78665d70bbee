------------------------------ MODULE RedisConnect ------------------------------
(***************************************************************************)
(* How a hiredis context gets and gives back its socket                    *)
(* (api/websockets/hiredis/net.c, hiredis.c:592-777): connecting over the  *)
(* addresses of a host or to a path, reconnecting and freeing, one step    *)
(* per system call, each of which may fail.  The descriptors of the whole  *)
(* process are there, for other threads take the numbers that are free.    *)
(* Number 0 is one of them: main.c:190 closes it.                          *)
(***************************************************************************)
EXTENDS Integers

CONSTANTS
    MaxFd,      \* bound: the largest descriptor
    MaxAddrs,   \* bound: addresses of a host
    Retries     \* REDIS_CONNECT_RETRIES

VARIABLES
    pc,         \* "gone", a step of connecting, "connected" or "failed"
    fd, err, type, options,   \* the context; its flags and source address
    left, reuses,             \* locals of _redisContextConnectTcp
    again,      \* a call of redisReconnect made the attempt
    owner       \* who has each descriptor open

context == <<fd, err, type, options>>
nvars == <<pc, context, left, reuses, again, owner>>

Descriptors == 0 .. MaxFd
Option(unix, blocking) ==
    [unix |-> unix, blocking |-> blocking, reuse |-> FALSE, source |-> FALSE, badTimeout |-> FALSE]

\* A timeout comes with a blocking connect, a source address with another.
Options ==
    {[Option(u, TRUE) EXCEPT !.badTimeout = b] : u \in BOOLEAN, b \in BOOLEAN} \cup
    {[Option(FALSE, FALSE) EXCEPT !.reuse = r, !.source = s] : r \in BOOLEAN, s \in BOOLEAN} \cup
    {Option(TRUE, FALSE)}

ConnectInit ==
    /\ pc = "gone" /\ fd = 0 /\ err = FALSE /\ type = "tcp" /\ options = Option(FALSE, FALSE)
    /\ left = 0 /\ reuses = 0 /\ again = FALSE
    /\ owner = [d \in Descriptors |-> "nobody"]

\* close(2) of d, whoever has it.
Closed(d) == [owner EXCEPT ![d] = "nobody"]

\* What a socket is given: the lowest number that is free.
Lowest(d) == owner[d] = "nobody" /\ \A e \in 0 .. d - 1 : owner[e] # "nobody"

\* The call returns REDIS_ERR, with an error in the context or without.
Fails(told) == pc' = "failed" /\ err' = (err \/ told) /\ UNCHANGED <<type, options, left, reuses, again>>
FailsHolding(told) == Fails(told) /\ UNCHANGED <<fd, owner>>

\* Variant: the descriptor is closed, and nothing is told.
FailsSilently == Fails(FALSE) /\ fd' = -1 /\ owner' = Closed(fd)

\* redisContextCloseFd, and REDIS_ERR.
FailsClosing == Fails(TRUE) /\ fd' = -1 /\ owner' = Closed(fd)

Goes(step) == pc' = step /\ UNCHANGED <<context, left, reuses, again, owner>>

Begins(o) == IF o.unix THEN "socket" ELSE "resolve"

\* redisConnect, redisConnectUnix and their variants: redisContextInit leaves 0 in
\* fd, and TCP is the type of a context that has none yet.
Connect == \E o \in Options :
    /\ pc = "gone"
    /\ fd' = 0 /\ err' = FALSE /\ type' = "tcp" /\ options' = o
    /\ left' = 1 /\ reuses' = 0 /\ again' = FALSE /\ pc' = Begins(o)
    /\ UNCHANGED owner

\* redisConnectFd, of a descriptor that the caller has.
ConnectFd == \E d \in Descriptors :
    /\ pc = "gone" /\ owner[d] = "other"
    /\ fd' = d /\ err' = FALSE /\ type' = "tcp" /\ pc' = "connected" /\ again' = FALSE
    /\ options' = Option(FALSE, TRUE)
    /\ owner' = [owner EXCEPT ![d] = "context"]
    /\ UNCHANGED <<left, reuses>>

\* redisContextTimeoutMsec, then getaddrinfo, for IPv4 and after it for IPv6.
Resolve ==
    /\ pc = "resolve"
    /\ \/ FailsHolding(TRUE)
       \/ ~options.badTimeout /\ \E n \in 1 .. MaxAddrs :
            /\ left' = n /\ reuses' = 0 /\ pc' = "socket" /\ type' = "tcp"
            /\ UNCHANGED <<fd, err, options, again, owner>>

\* The end of an address: the next one is tried, or there is no socket.
NextAddress == IF left > 1 THEN /\ left' = left - 1 /\ pc' = "socket"
                                /\ UNCHANGED <<err, type, options, reuses, again>>
               ELSE Fails(TRUE)

\* socket(2).  REDIS_CONN_UNIX is set once the socket does not block.
OpenSocket ==
    /\ pc = "socket"
    /\ \/ NextAddress /\ UNCHANGED <<fd, owner>>
       \/ \E d \in Descriptors :
          /\ Lowest(d) /\ fd' = d /\ owner' = [owner EXCEPT ![d] = "context"]
          /\ pc' = "nonblock"
          /\ UNCHANGED <<err, type, options, left, reuses, again>>

\* redisSetBlocking(c,0).  To a path, a bad timeout is seen here and not told.
SetNonBlocking ==
    /\ pc = "nonblock"
    /\ \/ FailsClosing
       \/ /\ options.unix /\ options.badTimeout
          /\ pc' = "failed" /\ type' = "unix" /\ UNCHANGED <<fd, err, options, left, reuses, again, owner>>
       \/ /\ ~(options.unix /\ options.badTimeout)
          /\ pc' = IF options.source THEN "bind" ELSE "connect"
          /\ type' = IF options.unix THEN "unix" ELSE type
          /\ UNCHANGED <<fd, err, options, left, reuses, again, owner>>

\* The source address: that SO_REUSEADDR cannot be set is not told.
Bind ==
    /\ pc = "bind"
    /\ \/ FailsHolding(TRUE)
       \/ options.reuse /\ FailsHolding(FALSE)
       \/ Goes("connect")

\* redisContextWaitReady, after an EINPROGRESS or another error of connect(2): it
\* fails with the socket closed, or with the error of the socket and the socket.
WaitReady(inProgress) ==
    \/ FailsClosing
    \/ inProgress /\ FailsHolding(TRUE)
    \/ inProgress /\ Goes("finish")

\* connect(2): it succeeds, there is no route, no local port is left, or something
\* else.  The last try to find a local port fails without a word.
ConnectSocket ==
    /\ pc = "connect"
    /\ \/ Goes("finish")
       \/ WaitReady(options.blocking)
       \/ /\ ~options.unix /\ fd' = -1 /\ owner' = Closed(fd) /\ NextAddress
       \/ /\ ~options.unix /\ options.reuse
          /\ IF reuses + 1 >= Retries THEN FailsHolding(FALSE)
             ELSE /\ reuses' = reuses + 1 /\ fd' = -1 /\ owner' = Closed(fd) /\ pc' = "socket"
                  /\ UNCHANGED <<err, type, options, left, again>>

\* redisSetBlocking(c,1) and redisSetTcpNoDelay.
Finish ==
    /\ pc = "finish"
    /\ \/ (options.blocking \/ ~options.unix) /\ FailsClosing
       \/ Goes("connected")

\* An error while the connection is used.
Breaks == pc = "connected" /\ FailsHolding(TRUE)

\* What the context has of the options: its type is TCP until it got a socket to a
\* path, and only then is the timeout of a path in it (net.c:438-451).
Remembered ==
    [options EXCEPT !.unix = type = "unix", !.badTimeout = @ /\ (options.unix => type = "unix")]

\* Variant: fd is closed only where the error was set.
ReconnectLeaking ==
    /\ pc \in {"connected", "failed"}
    /\ owner' = IF fd > 0 /\ err THEN Closed(fd) ELSE owner
    /\ err' = FALSE /\ again' = TRUE /\ left' = 1 /\ reuses' = 0
    /\ pc' = IF type = "unix" THEN "socket" ELSE "resolve"
    /\ options' = Remembered
    /\ UNCHANGED <<fd, type>>

\* redisReconnect: fd keeps the number that was closed.  A context that has no type
\* is taken for one of TCP, on which redisContextConnectBindTcp sets the source.
Reconnect ==
    /\ pc \in {"connected", "failed"}
    /\ owner' = IF fd > 0 THEN Closed(fd) ELSE owner
    /\ err' = FALSE /\ again' = TRUE /\ left' = 1 /\ reuses' = 0
    /\ pc' = IF type = "unix" THEN "socket" ELSE "resolve"
    /\ options' = Remembered
    /\ UNCHANGED <<fd, type>>

\* redisFree: not of descriptor 0.
FreeContext ==
    /\ pc \in {"connected", "failed"}
    /\ owner' = IF fd > 0 THEN Closed(fd) ELSE owner
    /\ pc' = "gone"
    /\ UNCHANGED <<context, left, reuses, again>>

\* redisFreeKeepFd: the caller has the descriptor.
FreeKeepFd ==
    /\ pc = "connected"
    /\ owner' = [owner EXCEPT ![fd] = "other"]
    /\ pc' = "gone"
    /\ UNCHANGED <<context, left, reuses, again>>

\* Other threads open and close descriptors of theirs.
Others == \E d \in Descriptors :
    /\ \/ Lowest(d) /\ owner' = [owner EXCEPT ![d] = "other"]
       \/ owner[d] = "other" /\ owner' = Closed(d)
    /\ UNCHANGED <<pc, context, left, reuses, again>>

ConnectNext ==
    \/ Connect \/ ConnectFd \/ Resolve \/ OpenSocket \/ SetNonBlocking \/ Bind
    \/ ConnectSocket \/ Finish \/ Breaks \/ Reconnect \/ FreeContext \/ FreeKeepFd \/ Others

ConnectSpec == ConnectInit /\ [][ConnectNext]_nvars
-----------------------------------------------------------------------------
(* Properties                                                              *)

\* Whatever fails on the way, no socket is left open that no context has, except
\* one with number 0, which redisFree and redisReconnect do not close; and a context
\* does not close a descriptor of another thread, except when redisReconnect failed
\* before it had a socket: then fd still has the number it closed.
DescriptorsAccounted == \A d \in Descriptors :
    /\ owner[d] = "context" /\ d # 0 => pc # "gone" /\ d = fd
    /\ pc \in {"connected", "failed"} /\ d = fd /\ d # 0 /\ owner[d] # "context"
          => again /\ pc = "failed"

\* A context without an error is connected, or its callers, redisAsyncConnect
\* among them, go on with one that is not.  Three failures are not told: net.c:360
\* and 386, both with REDIS_REUSEADDR, and a bad timeout for a path, net.c:457.
ErrorsTold == pc = "failed" /\ ~err => options.reuse \/ (options.unix /\ options.badTimeout)
=============================================================================
