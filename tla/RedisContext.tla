------------------------------ MODULE RedisContext ------------------------------
(***************************************************************************)
(* A context of hiredis in use (api/websockets/hiredis/hiredis.c): formatted *)
(* commands go into the output buffer, the socket takes and gives bytes    *)
(* as it likes, and the replies are read back one by one.  A call that     *)
(* waits, redisGetReply on a blocking context, is one step per system      *)
(* call.  The socket and the redis server are external.                    *)
(***************************************************************************)
EXTENDS ReplyReader

CONSTANTS
    Commands,   \* commands as CommandFormat makes them
    Replies,    \* what the server may answer (see Encoded)
    Sizes,      \* how many bytes the socket may take or give at once
    MaxCommands \* bound: commands appended

VARIABLES
    blocking, err, obuf, reader,   \* the redisContext
    pc,         \* where redisGetReply is: "idle", "write" or "read"
    wire, inbox, eof,              \* bytes under way, the server has closed
    asked, served, returned        \* history: commands, answers and replies

context == <<blocking, err, obuf, reader, pc>>
socket == <<wire, inbox, eof>>
cvars == <<context, socket, asked, served, returned>>

Init ==
    /\ blocking \in BOOLEAN /\ err = FALSE /\ obuf = <<>> /\ reader = NewReader /\ pc = "idle"
    /\ wire = <<>> /\ inbox = <<>> /\ eof = FALSE
    /\ asked = <<>> /\ served = <<>> /\ returned = <<>>

Crlf == <<"\r", "\n">>

\* %d, %i, %zu, and sdsll2str.
Decimal[n \in Nat] == IF n < 10 THEN <<Digits[n + 1]>> ELSE Append(Decimal[n \div 10], Digits[(n % 10) + 1])

-----------------------------------------------------------------------------
(* The caller                                                              *)

MayAsk == pc = "idle" /\ Len(asked) < MaxCommands

\* __redisAppendCommand, with the command that redisvAppendCommand and
\* redisAppendCommandArgv format, or one given to redisAppendFormattedCommand.
AppendCommand == MayAsk /\ \E cmd \in Commands :
    /\ obuf' = obuf \o cmd
    /\ asked' = Append(asked, cmd)
    /\ UNCHANGED <<blocking, err, reader, pc, socket, served, returned>>

\* redisvAppendCommand with a format that has an unknown conversion.
AppendFails ==
    /\ MayAsk /\ err' = TRUE
    /\ UNCHANGED <<blocking, obuf, reader, pc, socket, asked, served, returned>>

\* redisGetReplyFromReader, with the reader that has parsed what it had: it sets
\* the error, gives a reply, or goes on to next.  Only a call from "idle" may return
\* without a reply.
FromReader(p, next) ==
    /\ reader' = WithoutReply(p)
    /\ err' = (err \/ p.err)
    /\ returned' = IF ~p.err /\ Emitted(p) # NoReply THEN Append(returned, Emitted(p)) ELSE returned
    /\ pc' = IF p.err \/ Emitted(p) # NoReply THEN "idle" ELSE next

\* redisGetReply: what the reader holds comes first, and a context that does not
\* block has nothing more.
GetReply ==
    /\ pc = "idle"
    /\ FromReader(Parsed(reader), IF blocking THEN "write" ELSE "idle")
    /\ UNCHANGED <<blocking, obuf, socket, asked, served>>

CallFails == err' = TRUE /\ pc' = "idle" /\ UNCHANGED <<obuf, reader, wire, inbox, returned>>

\* sdsrange, or a new buffer when all was written.
Written(n) == SubSeq(obuf, n + 1, Len(obuf))

\* redisBufferWrite: by redisGetReply until the buffer is empty, or by the caller
\* of a context that does not block.  The error of a socket, EAGAIN on a blocking
\* one (its timeout) included, stays in the context.
BufferWrite ==
    /\ pc = "write" \/ (~blocking /\ pc = "idle" /\ obuf # <<>>)
    /\ \/ /\ ~err
          /\ \E n \in Sizes \cup {0} :
              LET k == Min({n, Len(obuf)})
              IN  /\ k > 0 \/ obuf = <<>>
                  /\ wire' = IF eof THEN wire ELSE wire \o SubSeq(obuf, 1, k)
                  /\ obuf' = Written(k)
                  /\ pc' = IF pc = "write" /\ obuf' = <<>> THEN "read" ELSE pc
          /\ UNCHANGED <<err, reader, inbox, returned>>
       \/ CallFails
    /\ UNCHANGED <<blocking, eof, asked, served>>

\* redisBufferRead, and in redisGetReply the reader after it.
BufferRead ==
    /\ pc = "read" \/ (~blocking /\ pc = "idle")
    /\ \/ /\ ~err /\ inbox # <<>>
          /\ \E n \in Sizes :
              LET k == Min({n, Len(inbox)})
                  fed == Feed(reader, SubSeq(inbox, 1, k))
              IN  /\ inbox' = SubSeq(inbox, k + 1, Len(inbox))
                  /\ IF pc = "read" THEN FromReader(Parsed(fed), "read")
                     ELSE reader' = fed /\ err' = (err \/ fed.err) /\ UNCHANGED <<pc, returned>>
          /\ UNCHANGED <<obuf, wire>>
       \/ CallFails
    /\ UNCHANGED <<blocking, eof, asked, served>>
-----------------------------------------------------------------------------
(* The server                                                              *)

\* The bytes of a reply [type, str, integer, element].
RECURSIVE Encoded(_)
Encoded(v) ==
    CASE v.type = "error"   -> <<"-">> \o v.str \o Crlf
      [] v.type = "status"  -> <<"+">> \o v.str \o Crlf
      [] v.type = "integer" -> <<":">> \o (IF v.integer < 0 THEN <<"-">> \o Decimal[-v.integer]
                                           ELSE Decimal[v.integer]) \o Crlf
      [] v.type = "string"  -> <<"$">> \o Decimal[Len(v.str)] \o Crlf \o v.str \o Crlf
      [] v.type = "nil"     -> <<"$", "-", "1">> \o Crlf
      [] v.type = "array"   -> FoldLeft(LAMBDA bytes, e : bytes \o Encoded(e),
                                        <<"*">> \o Decimal[Len(v.element)] \o Crlf, v.element)

\* The same reply as the tree that the reader makes of it.
RECURSIVE Tree(_, _)
Tree(v, path) ==
    FoldLeft(LAMBDA f, i : f @@ Tree(v.element[i], Append(path, i - 1)),
             path :> Node(v.type, v.str, v.integer, Len(v.element)),
             [i \in DOMAIN v.element |-> i])

RECURSIVE Depth(_)
Depth(v) == IF v.type # "array" THEN 0 ELSE 1 + Max({0} \cup {Depth(v.element[i]) : i \in DOMAIN v.element})

\* The next command is answered once it is there to the last byte.
Serve ==
    /\ ~eof /\ Len(served) < Len(asked)
    /\ LET cmd == asked[Len(served) + 1]
       IN  /\ Len(wire) >= Len(cmd) /\ SubSeq(wire, 1, Len(cmd)) = cmd
           /\ wire' = SubSeq(wire, Len(cmd) + 1, Len(wire))
    /\ \E v \in Replies : /\ inbox' = inbox \o Encoded(v)
                          /\ served' = Append(served, v)
    /\ UNCHANGED <<context, eof, asked, returned>>

Close ==
    /\ ~eof /\ eof' = TRUE /\ wire' = <<>>
    /\ UNCHANGED <<context, inbox, asked, served, returned>>

Next == AppendCommand \/ AppendFails \/ GetReply \/ BufferWrite \/ BufferRead \/ Serve \/ Close
-----------------------------------------------------------------------------
(* Properties                                                              *)

\* However the socket splits what is written and read, whatever was appended
\* before the first reply was asked for, and whichever call failed: the k-th
\* reply returned is the k-th answer of the server, which has answered the k-th
\* command, and the commands not answered are on their way, once and in order.
\* A reply nested too deeply is an error, never a wrong reply; and no
\* reply is held back once its last byte was read.
RepliesInOrder ==
    /\ eof \/ wire \o obuf = FlattenSeq(SubSeq(asked, Len(served) + 1, Len(asked)))
    /\ Len(returned) <= Len(served)
    /\ \A k \in DOMAIN returned :
          Depth(served[k]) < MaxDepth /\ returned[k] = Tree(served[k], <<-1>>)
    /\ ~err /\ inbox = <<>> /\ reader.pos = Len(reader.buf) => Len(returned) = Len(served)
=============================================================================
