------------------------------- MODULE MCParts -------------------------------
(***************************************************************************)
(* Instances of the parts that keep a state of their own and meet the rest *)
(* only through their callers: the io_buffer, the users list and the       *)
(* frames of wsd, its JSON values, and the pieces of hiredis.  A behaviour *)
(* is one of one part, chosen at the start; the others rest.               *)
(***************************************************************************)
EXTENDS IoBuffer, WsFrames, JsonTree, Dict, UsersArray, Sds, RedisConnect, CommandFormat, SequencesExt, TLC

VARIABLES
    part,
    blocking, cerr, obuf, reader, cpc, wire, inbox, eof, asked, served, returned

contextVars == <<blocking, cerr, obuf, reader, cpc, wire, inbox, eof, asked, served, returned>>
-----------------------------------------------------------------------------
(* A context of hiredis in use: a reply of every type, nested as deep as is *)
(* allowed and one deeper, an argument of ten bytes, empty ones and spaces. *)

Reply(t, str, integer, element) == [type |-> t, str |-> str, integer |-> integer, element |-> element]
Nested[d \in 0 .. 9] ==
    IF d = 0 THEN Reply("nil", <<>>, 0, <<>>) ELSE Reply("array", <<>>, 0, <<Nested[d - 1]>>)
Mixed == Reply("array", <<>>, 0,
    << Nested[7], Reply("string", <<"\r", "\n">>, 0, <<>>), Reply("string", <<>>, 0, <<>>),
       Reply("integer", <<>>, -1, <<>>), Reply("array", <<>>, 0, <<>>) >>)

Ten == [i \in 1 .. 10 |-> "1"]
Formatted(v) == FoldLeft(LAMBDA bytes, arg : bytes \o Bulk(arg), FirstLine(Len(v)), v)

Redis == INSTANCE RedisContext WITH
    pc <- cpc, err <- cerr,
    Discard <- 16,
    Commands <- {Formatted(<< <<"\r", "\n">>, Ten >>), Formatted(<< <<"G">>, <<>>, <<" ", "a", "b">> >>)},
    Replies <- {Mixed, Reply("status", <<"O", "\r", "K">>, 0, <<>>), Nested[9]},
    Sizes <- {9, 100},
    MaxCommands <- 2

RepliesInOrder == Redis!RepliesInOrder

\* Its commands: two arguments of up to ten bytes, empty ones, CR and LF.
FormatLetters == {"\r", "\n", "1"}
FormatPieces == {<<>>, <<"\r", "\n">>, Ten}
FormatVectors == {<<>>, << <<"\r", "\n">>, Ten >>}

\* Its dictionary: five keys, of which some collide in every size of the table.
TableHash == "a" :> 1 @@ "b" :> 3 @@ "c" :> 5 @@ "d" :> 0 @@ "e" :> 4

\* The strings of hiredis: fields of 1 to 5 bits, so that five bytes pass through four
\* types.
StringSpans == <<2, 4, 8, 16, 32>>

\* The JSON of wsd: three values at a time; a string with a quote, a backslash and a
\* control character; texts with escapes for a letter, for a NUL and for control
\* characters, a character beyond 16 bits, an end that nobody reads, a lone minus, and
\* three that are refused.
MemberNames == {<<"a">>, <<"b">>}
JsonScalars ==
    { [type |-> ty, num |-> 0, str |-> IF ty = "null" THEN <<>> ELSE <<"\"", "\\", "esc", "/", "n">>] :
      ty \in {"string", "null"} }

Json == INSTANCE JsonStore WITH
    Texts <- { <<"[", "-", "1", "0", " ", ",", "\"", "\\", "u", "0", "0", "6", "c", "\\", "u", "0", "0", "0", "0", "a", "\"", "]", "x">>,
               <<"\"", "\\", "u", "d", "8", "3", "d", "\\", "u", "d", "e", "0", "0", "\"">>,
               <<"\"", "\\", "u", "0", "0", "0", "A", "\\", "u", "0", "0", "1", "f", "\"">>,
               <<"-">>,
               <<"{", "\"", "a", "\"", ":", "0", "1", "}">>,
               <<"{", "\"", "a", "\"", ":", "1", ",", "\"", "a", "\"", ":", "2", "}">>,
               <<"\"", "\\", "u", "d", "8", "0", "0", "\"">> }

TextKept == part = "json" => Json!TextKept

\* Its frames: bytes of four values, so that 1 is a short length, 2 announces two
\* bytes of it and 3 eight; two lengths in eight bytes, of which the last is a char that
\* is not negative (17) or is (18); a pong without a payload, which is the word "close"
\* here too; a closing frame and one of an unknown kind.  One message is too long.
FrameOf(op, code, length) ==
    [op |-> op, code |-> code, mask |-> <<0, 3, 3, 0>>, data |-> [i \in 1 .. length |-> i % 4]]
KindsOfFrames ==
    { FrameOf(1, 1, 1), FrameOf(1, 2, 3), FrameOf(1, 3, 17), FrameOf(1, 3, 18),
      FrameOf(2, 0, 0), FrameOf(3, 0, 0), FrameOf(0, 1, 1) }
MessagesOut == {<<1>>, <<1, 2, 3>>, [i \in 1 .. 16 |-> 0]}
ByteXor(x, m) == (((x \div 2) + (m \div 2)) % 2) * 2 + ((x + m) % 2)
Ping == <<1>>
Close == <<>>
HelloWords == {<<2>>, <<2, 1>>}
RawText == <<3, 3>>
-----------------------------------------------------------------------------
Parts == {"io_buffer", "format", "context", "connect", "dict", "strings", "users", "json", "frames"}

PartsInit ==
    /\ part \in Parts
    /\ Init /\ FormatInit /\ Redis!Init /\ ConnectInit /\ DictInit /\ StringInit /\ UsersInit /\ TreeInit /\ FrameInit
    /\ part # "context" => blocking
    /\ part # "users" => call = CHOOSE c \in Calls : TRUE

\* What the other parts have stays.
OthersRest ==
    /\ UNCHANGED part
    /\ part # "io_buffer" => UNCHANGED vars
    /\ part # "format" => UNCHANGED fmtvars
    /\ part # "context" => UNCHANGED contextVars
    /\ part # "connect" => UNCHANGED nvars
    /\ part # "dict" => UNCHANGED dvars
    /\ part # "strings" => UNCHANGED svars
    /\ part # "users" => UNCHANGED uvars
    /\ part # "json" => UNCHANGED tvars
    /\ part # "frames" => UNCHANGED fvars

PartsNext ==
    \/ part = "io_buffer" /\ Next /\ OthersRest
    \/ part = "format" /\ FormatNext /\ OthersRest
    \/ part = "context" /\ Redis!Next /\ OthersRest
    \/ part = "connect" /\ ConnectNext /\ OthersRest
    \/ part = "dict" /\ DictNext /\ OthersRest
    \/ part = "strings" /\ StringNext /\ OthersRest
    \/ part = "users" /\ UsersNext /\ OthersRest
    \/ part = "json" /\ TreeNext /\ OthersRest
    \/ part = "frames" /\ FrameNext /\ OthersRest

PartsSpec ==
    PartsInit /\ [][PartsNext]_<<part, vars, fmtvars, contextVars, nvars, dvars, svars, uvars, tvars, fvars>>
=============================================================================
