------------------------------- MODULE Client3 -------------------------------
(***************************************************************************)
(* The asynchronous TCP client api/globals/libs/server/client3: one        *)
(* greenlet runs the loop of the Connector, every call of                  *)
(* Client.exec_command polls in a greenlet of its own, and greenlets are   *)
(* switched only where gevent yields: in sleep, in connect and in select.  *)
(*                                                                         *)
(* A line of the protocol, a command or its answer, is two units: its head *)
(* and its tail with the line end, so that a send, a read or a connection  *)
(* can end in the middle of a line.  The server executes the lines it      *)
(* receives whole and answers them in any order, or never.                 *)
(***************************************************************************)
EXTENDS Naturals, Sequences, FiniteSets

CONSTANTS
    Cmds,         \* commands, named by their tokens
    DoReconnect,  \* Connector.do_reconnect
    MaxBreaks,    \* bound: connections broken or refused after the first attempt
    Window        \* units the two ends hold that the server has not read

ASSUME Client3Assumption ==
    DoReconnect \in BOOLEAN /\ MaxBreaks \in Nat /\ Window \in Nat \ {0}

VARIABLES
    call,     \* exec_command: idle, waiting (its token is in Client.buffer),
              \* answered or failed
    status,   \* Command.status: 0 new, 1 sending, 2 sent, 3 recv, 4 error
    timed,    \* Command.wait_until is not None
    late,     \* crdate + timeout has passed
    is_exit,  \* Client.is_exit and Connector.is_exit
    at,       \* where the loop of the Connector is
    conn,     \* the socket: none, up, or broken by the peer or the network
    dead,     \* Connector.deaduntil: no, until a time, or forever
    wbuf,     \* Connector.buffer_write
    rbuf,     \* Connector.buffer_read
    tosend,   \* keys of Connector.commands_to_send
    ebyte,    \* the end offset each of them has there
    toserver, toclient,  \* units on the way
    owed,     \* commands executed on this connection and not yet answered
    executed, \* how often the server executed each command
    breaks

caller == <<call, late>>
conns  == <<conn, dead, toserver, toclient, owed, breaks>>
track  == <<status, timed, tosend, ebyte>>
vars   == <<caller, track, is_exit, at, conns, wbuf, rbuf, executed>>

Unit == [of : Cmds, tail : BOOLEAN]
Line(c) == <<[of |-> c, tail |-> FALSE], [of |-> c, tail |-> TRUE]>>
Keep(s, n) == SubSeq(s, 1, n)
Drop(s, n) == SubSeq(s, n + 1, Len(s))

TypeOK ==
    /\ call \in [Cmds -> {"idle", "waiting", "answered", "failed"}]
    /\ status \in [Cmds -> 0 .. 4]
    /\ timed \in [Cmds -> BOOLEAN] /\ late \in [Cmds -> BOOLEAN] /\ is_exit \in BOOLEAN
    /\ at \in {"start", "callback", "connecting", "select", "stopped"}
    /\ conn \in {"none", "up", "broken"} /\ dead \in {"no", "until", "forever"}
    /\ wbuf \in Seq(Unit) /\ rbuf \in Seq(Unit)
    /\ toserver \in Seq(Unit) /\ toclient \in Seq(Unit)
    /\ tosend \subseteq Cmds /\ owed \subseteq Cmds
    /\ ebyte \in [Cmds -> Nat] /\ executed \in [Cmds -> Nat] /\ breaks \in Nat

\* mark_dead.
DeadMark == IF DoReconnect THEN "until" ELSE "forever"

\* Client.__init__ has tried to connect once.
Init ==
    /\ call = [c \in Cmds |-> "idle"] /\ status = [c \in Cmds |-> 0]
    /\ timed = [c \in Cmds |-> FALSE] /\ late = [c \in Cmds |-> FALSE]
    /\ is_exit = FALSE /\ at = "start" /\ breaks = 0
    /\ \/ conn = "up" /\ dead = "no"
       \/ conn = "none" /\ dead = DeadMark
    /\ wbuf = <<>> /\ rbuf = <<>> /\ toserver = <<>> /\ toclient = <<>>
    /\ tosend = {} /\ ebyte = [c \in Cmds |-> 0]
    /\ owed = {} /\ executed = [c \in Cmds |-> 0]

-----------------------------------------------------------------------------
(* Callers: exec_command                                                   *)

Waiting == {c \in Cmds : call[c] = "waiting"}

\* commands_mark_failed.
MarkedFailed == [c \in Cmds |-> IF c \in Waiting THEN 4 ELSE status[c]]

\* Refused while the connector is dead, else put in the write buffer; the
\* connector's being stopped is not looked at.
Call(c) ==
    /\ call[c] = "idle"
    /\ IF dead # "no"
       THEN /\ call' = [call EXCEPT ![c] = "failed"]
            /\ UNCHANGED <<status, tosend, ebyte, wbuf>>
       ELSE /\ call' = [call EXCEPT ![c] = "waiting"]
            /\ status' = [status EXCEPT ![c] = 1]
            /\ wbuf' = wbuf \o Line(c)
            /\ tosend' = tosend \cup {c}
            /\ ebyte' = [ebyte EXCEPT ![c] = Len(wbuf) + 2]
    /\ UNCHANGED <<timed, late, is_exit, at, conns, rbuf, executed>>

TimePasses(c) ==
    /\ call[c] = "waiting" /\ ~late[c]
    /\ late' = [late EXCEPT ![c] = TRUE]
    /\ UNCHANGED <<call, track, is_exit, at, conns, wbuf, rbuf, executed>>

\* Command.run_once, polled until it returns or raises.
Poll(c) ==
    /\ call[c] = "waiting"
    /\ \/ /\ status[c] = 3
          /\ call' = [call EXCEPT ![c] = "answered"]
          /\ UNCHANGED status
       \/ /\ status[c] = 4 \/ (status[c] # 3 /\ timed[c] /\ late[c])
          /\ call' = [call EXCEPT ![c] = "failed"]
          /\ status' = [status EXCEPT ![c] = 4]
    /\ UNCHANGED <<timed, late, tosend, ebyte, is_exit, at, conns, wbuf, rbuf, executed>>

\* Variant: stop() says nothing to the calls that wait.
StopSilently ==
    /\ ~is_exit
    /\ is_exit' = TRUE
    /\ UNCHANGED <<caller, track, at, conns, wbuf, rbuf, executed>>

\* Client.stop.
Stop ==
    /\ ~is_exit
    /\ is_exit' = TRUE /\ status' = MarkedFailed
    /\ UNCHANGED <<caller, timed, tosend, ebyte, at, conns, wbuf, rbuf, executed>>

-----------------------------------------------------------------------------
(* The loop of the Connector                                               *)

\* The client gives up its socket: what is on the way goes with it.
Closed == conn' = "none" /\ toserver' = <<>> /\ toclient' = <<>> /\ owed' = {}

Ends(buf) == {i \in 1 .. Len(buf) : buf[i].tail}

\* The first n units of buf are its whole lines.
AreWhole(buf, n) == Ends(buf) \subseteq 1 .. n /\ (n = 0 \/ n \in Ends(buf))

\* The lines of buf that are what was sent, not a tail glued to a head that
\* was left from another connection.
LinesOf(buf) == {c \in Cmds : \E i \in Ends(buf) \ {1} :
                    /\ SubSeq(buf, i - 1, i) = Line(c)
                    /\ i = 2 \/ buf[i - 2].tail}

\* Connector.run up to the end of the callback, Client.run_once: all whole
\* lines are taken; answers go to the calls that still wait.
LoopStarts ==
    /\ at = "start"
    /\ IF is_exit
       THEN /\ at' = "stopped" /\ Closed
            /\ UNCHANGED <<rbuf, status>>
       ELSE /\ at' = "callback"
            /\ \E n \in 0 .. Len(rbuf) : AreWhole(rbuf, n) /\ rbuf' = Drop(rbuf, n)
            /\ status' = [c \in Cmds |-> IF c \in LinesOf(rbuf) \cap Waiting
                                         THEN 3 ELSE status[c]]
            /\ UNCHANGED <<conn, toserver, toclient, owed>>
    /\ UNCHANGED <<caller, timed, tosend, ebyte, is_exit, dead, breaks, wbuf, executed>>

\* run_once up to its first yield: is_connected connects if it has to.
CheckConnected ==
    /\ at = "callback"
    /\ at' = IF dead # "no" THEN "start"
             ELSE IF conn = "none" THEN "connecting" ELSE "select"
    /\ UNCHANGED <<caller, track, is_exit, conns, wbuf, rbuf, executed>>

\* Connector.socket: on_connect marks the waiting calls; neither the buffers
\* nor commands_to_send are emptied.
ConnectSucceeds ==
    /\ at = "connecting" /\ at' = "select"
    /\ conn' = "up" /\ status' = MarkedFailed
    /\ UNCHANGED <<caller, timed, tosend, ebyte, is_exit, dead, toserver, toclient, owed,
                   breaks, wbuf, rbuf, executed>>

ConnectFails ==
    /\ at = "connecting" /\ at' = "start"
    /\ breaks < MaxBreaks /\ breaks' = breaks + 1
    /\ dead' = DeadMark
    /\ UNCHANGED <<caller, track, is_exit, conn, toserver, toclient, owed, wbuf, rbuf, executed>>

DeadExpires ==
    /\ dead = "until" /\ dead' = "no"
    /\ UNCHANGED <<caller, track, is_exit, at, conn, toserver, toclient, owed, breaks,
                   wbuf, rbuf, executed>>

\* Variant: what a partial write has taken stays in the buffer.
UnsentAll(count) == IF count < Len(wbuf) THEN wbuf ELSE <<>>

\* buffer_write once its first count units have been written.
Unsent(count) == Drop(wbuf, count)

\* Variant: the offsets are moved before they are compared.
TestSentMovedFirst(count) ==
    LET moved == [c \in Cmds |-> IF c \in tosend THEN ebyte[c] - count ELSE ebyte[c]]
        sent  == {c \in tosend : moved[c] <= 0}
    IN  /\ status' = [c \in Cmds |-> IF c \in sent THEN 2 ELSE status[c]]
        /\ timed' = [c \in Cmds |-> timed[c] \/ c \in sent]
        /\ ebyte' = moved
        /\ tosend' = {c \in tosend \ sent : status[c] <= 1}

\* Variant: the offsets of what is still to be sent are left as they were.
TestSentUnmoved(count) ==
    LET sent == {c \in tosend : ebyte[c] <= count}
    IN  /\ status' = [c \in Cmds |-> IF c \in sent THEN 2 ELSE status[c]]
        /\ timed' = [c \in Cmds |-> timed[c] \/ c \in sent]
        /\ tosend' = {c \in tosend \ sent : status[c] <= 1}
        /\ UNCHANGED ebyte

\* Variant: the offset of the line's start is compared.
TestSentByStart(count) ==
    LET sent == {c \in tosend : ebyte[c] <= count + 1}
    IN  /\ status' = [c \in Cmds |-> IF c \in sent THEN 2 ELSE status[c]]
        /\ timed' = [c \in Cmds |-> timed[c] \/ c \in sent]
        /\ ebyte' = [c \in Cmds |-> IF c \in tosend \ sent THEN ebyte[c] - count ELSE ebyte[c]]
        /\ tosend' = {c \in tosend \ sent : status[c] <= 1}

\* After count units have been written: the commands that are out are sent
\* (even those marked failed meanwhile), the others move up.
TestSent(count) ==
    LET sent == {c \in tosend : ebyte[c] <= count}
    IN  /\ status' = [c \in Cmds |-> IF c \in sent THEN 2 ELSE status[c]]
        /\ timed' = [c \in Cmds |-> timed[c] \/ c \in sent]
        /\ ebyte' = [c \in Cmds |-> IF c \in tosend \ sent THEN ebyte[c] - count ELSE ebyte[c]]
        /\ tosend' = {c \in tosend \ sent : status[c] <= 1}

\* run_once once select has returned, which has no timeout: fr and fw are what it
\* found ready, got and count the units read and written.  A socket is written to
\* as far as there is room, or when it is broken.
ReadWrite(fr, fw, got, count) ==
    LET room   == Window - Len(toserver)
        eof    == fr /\ got = 0
        failed == fw /\ ~eof /\ wbuf # <<>> /\ count = 0
    IN  /\ at = "select" /\ at' = "start"
        /\ fr \/ fw
        /\ got > 0 => fr
        /\ fw => conn = "broken" \/ room > 0
        /\ conn = "up" => count <= room
        /\ count > 0 => fw /\ ~eof
        /\ eof \/ failed => conn = "broken"
        /\ rbuf' = rbuf \o Keep(toclient, got)
        /\ wbuf' = Unsent(count)
        /\ IF eof \/ failed
           THEN Closed /\ dead' = DeadMark
           ELSE /\ toclient' = Drop(toclient, got)
                /\ toserver' = IF conn = "up" THEN toserver \o Keep(wbuf, count) ELSE <<>>
                /\ UNCHANGED <<conn, dead, owed>>
        /\ IF fw THEN TestSent(count) ELSE UNCHANGED track
        /\ UNCHANGED <<caller, is_exit, breaks, executed>>

-----------------------------------------------------------------------------
(* The server and the network                                              *)

\* The server takes the next line; a line that is no command it ignores.
ServerReads ==
    \E i \in Ends(toserver) :
        /\ \A j \in Ends(toserver) : i <= j
        /\ toserver' = Drop(toserver, i)
        /\ \E S \in {{c \in Cmds : Keep(toserver, i) = Line(c)}} :
             /\ executed' = [c \in Cmds |-> IF c \in S THEN executed[c] + 1 ELSE executed[c]]
             /\ owed' = owed \cup S
        /\ UNCHANGED <<caller, track, is_exit, at, conn, dead, toclient, breaks, wbuf, rbuf>>

ServerAnswers(c) ==
    /\ conn = "up" /\ c \in owed
    /\ owed' = owed \ {c}
    /\ toclient' = toclient \o Line(c)
    /\ UNCHANGED <<caller, track, is_exit, at, conn, dead, toserver, breaks, wbuf, rbuf, executed>>

\* The connection ends: what the server had not read is lost, and any part of
\* what it sent.
Break ==
    /\ conn = "up" /\ breaks < MaxBreaks
    /\ conn' = "broken" /\ breaks' = breaks + 1
    /\ toserver' = <<>> /\ owed' = {}
    /\ \E n \in 0 .. Len(toclient) : toclient' = Keep(toclient, n)
    /\ UNCHANGED <<caller, track, is_exit, at, dead, wbuf, rbuf, executed>>

-----------------------------------------------------------------------------
Connector ==
    \/ LoopStarts \/ CheckConnected \/ ConnectSucceeds \/ ConnectFails
    \/ \E fr, fw \in BOOLEAN, got \in 0 .. Len(toclient), count \in 0 .. Len(wbuf) :
          ReadWrite(fr, fw, got, count)

Server == ServerReads \/ \E c \in Cmds : ServerAnswers(c)

Next ==
    \/ Connector \/ DeadExpires \/ Server \/ Break \/ Stop
    \/ \E c \in Cmds : Call(c) \/ TimePasses(c) \/ Poll(c)

Spec == Init /\ [][Next]_vars

(* Greenlets that are ready run, and clocks advance.  The server owes      *)
(* nothing: it may never read or answer.                                   *)
Fairness ==
    /\ WF_vars(Connector) /\ WF_vars(DeadExpires)
    /\ \A c \in Cmds : WF_vars(TimePasses(c)) /\ WF_vars(Poll(c))

FairSpec == Spec /\ Fairness

(* The server reads what it is sent; it may still never answer.            *)
ReadingSpec == FairSpec /\ WF_vars(ServerReads)
-----------------------------------------------------------------------------
(* Properties                                                              *)

\* The offsets of commands_to_send, adjusted by hand after every write, point
\* at the end of their own command in buffer_write: connector.py:253-259 takes
\* a command for sent by them alone.
OffsetsExact == \A c \in tosend :
    ebyte[c] \in 1 .. Len(wbuf) /\ wbuf[ebyte[c]] = [of |-> c, tail |-> TRUE]

\* A command said to be sent or answered has left the write buffer for good:
\* what was left by a broken connection is still sent on the next one, and the
\* commands marked failed in between may be marked sent (connector.py:254).
SentIsOut == \A c \in Cmds :
    status[c] \in {2, 3} => \A i \in 1 .. Len(wbuf) : wbuf[i].of # c

\* exec_command keeps what Rpc promises: no answer without execution, and no
\* second execution of a command whatever happens to the connection, although
\* both buffers survive it (connector.py:107 empties neither).
Promise == INSTANCE Rpc
KeepsPromise == Promise!Spec

\* __init__.py:57-64 and 112-114: a command has a timeout, and "terminated by
\* timeout" ends it.  A call made before stop() returns, if the server reads: the
\* loop waits in select (connector.py:211), and what it does not write has no timeout.
EveryCallReturns == \A c \in Cmds :
    (call[c] = "waiting" /\ ~is_exit) ~> (call[c] # "waiting")
=============================================================================
