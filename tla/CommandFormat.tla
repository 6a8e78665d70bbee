----------------------------- MODULE CommandFormat -----------------------------
(***************************************************************************)
(* How hiredis formats a command (api/websockets/hiredis/hiredis.c 192-566): *)
(* the length is computed first, argument by argument, the bytes are written *)
(* into memory of that length afterwards, and a server reads them back.  Each *)
(* turn of a loop is a step.                                               *)
(***************************************************************************)
EXTENDS Integers, Sequences, FiniteSetsExt

CONSTANTS
    Letters,    \* bytes
    Pieces,     \* what a part of a format may add to an argument
    Vectors,    \* argument vectors that callers have
    MaxSize,    \* bound: bytes of an argument
    MaxCount    \* bound: arguments

\* The length of a command fits an int, in which redisvFormatCommand computes it.
IntMax == 2147483647
CommandsFit == MaxCount * (MaxSize + 15) + 13 <= IntMax

ASSUME FormatAssumption ==
    /\ Pieces \subseteq Seq(Letters) /\ Vectors \subseteq Seq(Seq(Letters))
    /\ MaxSize \in Nat /\ MaxSize <= IntMax /\ MaxCount \in Nat /\ MaxCount <= IntMax /\ CommandsFit
    /\ \A v \in Vectors : Len(v) <= MaxCount /\ \A k \in DOMAIN v : Len(v[k]) <= MaxSize

VARIABLES
    stage,             \* "idle", a loop, or "built"
    argv, cur, touched, totlen, cmd, turn,   \* locals of redisvFormatCommand and the others
    words, spaced,  \* history: the words of the format, whether none or a space came last
    pos, count, taken \* the server: bytes it has read, the arguments it expects and has

locals == <<argv, cur, touched, totlen, cmd, turn>>
server == <<pos, count, taken>>
fmtvars == <<stage, locals, words, spaced, server>>
-----------------------------------------------------------------------------
(* Numbers                                                                 *)

CrLf == <<"\r", "\n">>
Figures == <<"0", "1", "2", "3", "4", "5", "6", "7", "8", "9">>
Powers == <<1, 10, 100, 1000, 10000, 100000, 1000000, 10000000, 100000000, 1000000000>>

\* %d and %zu of sprintf, %i and %u of sdscatfmt.
Width(n) == CHOOSE k \in 1 .. 10 : (k = 1 \/ Powers[k] <= n) /\ (k = 10 \/ n < Powers[k + 1])
Numeral(n) == [i \in 1 .. Width(n) |-> Figures[((n \div Powers[Width(n) - i + 1]) % 10) + 1]]

\* countDigits: what is left of v after t turns of the loop.
Left(v, t) == CASE t = 0 -> v [] t = 1 -> v \div 10000 [] t = 2 -> (v \div 10000) \div 10000

\* Variant: the tests are <= 10, <= 100 and so on, so that ten has one digit.
TestAtMost(v) == CHOOSE k \in 1 .. 4 : (k = 1 \/ Powers[k] < v) /\ v <= Powers[k + 1]

\* The tests of a turn.
Test(v) == CHOOSE k \in 1 .. 4 : (k = 1 \/ Powers[k] <= v) /\ v < Powers[k + 1]

CountDigits(v) ==
    LET t == CHOOSE t \in 0 .. 2 : Left(v, t) < 10000 /\ \A u \in 0 .. t - 1 : Left(v, u) >= 10000
    IN  4 * t + Test(Left(v, t))

\* bulklen.
BulkLen(len) == 1 + CountDigits(len) + 2 + len + 2
-----------------------------------------------------------------------------
(* The length                                                              *)

FormatInit ==
    /\ stage = "idle" /\ argv = <<>> /\ cur = <<>> /\ touched = FALSE /\ totlen = 0 /\ cmd = <<>> /\ turn = 0
    /\ words = <<>> /\ spaced = TRUE /\ pos = 0 /\ count = 0 /\ taken = <<>>

\* redisvFormatCommand begins.
Format == stage = "idle" /\ stage' = "format" /\ UNCHANGED <<locals, words, spaced, server>>

\* An argument is complete.
ArgumentEnds ==
    argv' = Append(argv, cur) /\ cur' = <<>> /\ touched' = FALSE /\ totlen' = totlen + BulkLen(Len(cur))

\* A space in the format.
SpaceRead ==
    /\ stage = "format"
    /\ IF touched THEN ArgumentEnds ELSE UNCHANGED <<argv, cur, touched, totlen>>
    /\ spaced' = TRUE
    /\ UNCHANGED <<stage, cmd, turn, words, server>>

\* A character of the format, or a conversion and the argument it interpolates.
TextRead ==
    /\ stage = "format" /\ Len(argv) < MaxCount
    /\ \E piece \in Pieces :
          /\ Len(cur) + Len(piece) <= MaxSize
          /\ cur' = cur \o piece /\ touched' = TRUE
          /\ words' = IF spaced THEN Append(words, piece) ELSE [words EXCEPT ![Len(words)] = @ \o piece]
    /\ spaced' = FALSE
    /\ UNCHANGED <<stage, argv, totlen, cmd, turn, server>>

\* The locals as they are before a call.
Forgotten ==
    /\ stage' = "idle" /\ argv' = <<>> /\ cur' = <<>> /\ touched' = FALSE /\ totlen' = 0 /\ cmd' = <<>> /\ turn' = 0
    /\ words' = <<>> /\ spaced' = TRUE /\ pos' = 0 /\ count' = 0 /\ taken' = <<>>

\* A conversion it does not know: all is freed.
FormatError == stage = "format" /\ Forgotten

\* The format ends: the last argument, and the length of the first line.
FirstLine(n) == <<"*">> \o Numeral(n) \o CrLf
FirstLineLen(n) == 1 + CountDigits(n) + 2

FormatEnds ==
    /\ stage = "format" /\ stage' = "build"
    /\ argv' = (IF touched THEN Append(argv, cur) ELSE argv) /\ cur' = <<>> /\ touched' = FALSE
    /\ totlen' = totlen + (IF touched THEN BulkLen(Len(cur)) ELSE 0) + FirstLineLen(Len(argv'))
    /\ cmd' = FirstLine(Len(argv'))
    /\ UNCHANGED <<turn, words, spaced, server>>

\* redisFormatCommandArgv and redisFormatSdsCommandArgv begin, and their first loop.
FormatArgv == stage = "idle" /\ stage' = "count" /\ \E v \in Vectors :
    /\ argv' = v /\ words' = v /\ totlen' = FirstLineLen(Len(v))
    /\ UNCHANGED <<cur, touched, cmd, turn, spaced, server>>

CountArgument ==
    /\ stage = "count" /\ turn < Len(argv)
    /\ totlen' = totlen + BulkLen(Len(argv[turn + 1])) /\ turn' = turn + 1
    /\ UNCHANGED <<stage, argv, cur, touched, cmd, words, spaced, server>>

CountEnds ==
    /\ stage = "count" /\ turn = Len(argv) /\ stage' = "build" /\ turn' = 0 /\ cmd' = FirstLine(Len(argv))
    /\ UNCHANGED <<argv, cur, touched, totlen, words, spaced, server>>
-----------------------------------------------------------------------------
(* The bytes                                                               *)

Bulk(arg) == <<"$">> \o Numeral(Len(arg)) \o CrLf \o arg \o CrLf

BuildArgument ==
    /\ stage = "build" /\ turn < Len(argv)
    /\ cmd' = cmd \o Bulk(argv[turn + 1]) /\ turn' = turn + 1
    /\ UNCHANGED <<stage, argv, cur, touched, totlen, words, spaced, server>>

BuildEnds == stage = "build" /\ turn = Len(argv) /\ stage' = "built" /\ UNCHANGED <<locals, words, spaced, server>>

\* redisFreeCommand.
FreeCommand == stage = "built" /\ Forgotten
-----------------------------------------------------------------------------
(* The server is given as many bytes as the call returned.                 *)

Sent == SubSeq(cmd, 1, totlen)
LineEnd == Min({i \in pos + 1 .. Len(Sent) : Sent[i] = "\r"})
NumberRead == CHOOSE n \in 0 .. MaxSize + MaxCount : Numeral(n) = SubSeq(Sent, pos + 2, LineEnd - 1)

ServerReadsCount ==
    /\ stage = "built" /\ pos = 0
    /\ count' = NumberRead /\ pos' = LineEnd + 1
    /\ UNCHANGED <<stage, locals, words, spaced, taken>>

ServerReadsArgument ==
    /\ stage = "built" /\ pos > 0 /\ Len(taken) < count
    /\ taken' = Append(taken, SubSeq(Sent, LineEnd + 2, LineEnd + 1 + NumberRead))
    /\ pos' = LineEnd + 1 + NumberRead + 2
    /\ UNCHANGED <<stage, locals, words, spaced, count>>

FormatNext ==
    \/ Format \/ SpaceRead \/ TextRead \/ FormatError \/ FormatEnds \/ FormatArgv \/ CountArgument \/ CountEnds
    \/ BuildArgument \/ BuildEnds \/ FreeCommand \/ ServerReadsCount \/ ServerReadsArgument

FormatSpec == FormatInit /\ [][FormatNext]_fmtvars
-----------------------------------------------------------------------------
(* Properties                                                              *)

\* hiredis.c:412, 515 and 561 assert that the length computed before a command is built
\* is the length of what is built.  The arguments of a format are its words, also
\* empty ones, which a space inside an interpolated argument does not part; and a server
\* that reads the protocol, going by the lengths, gets these arguments, whatever bytes they
\* hold, and no byte is left over.
CommandsWhole == stage = "built" =>
    /\ Len(cmd) = totlen /\ argv = words
    /\ pos > 0 => /\ count = Len(argv) /\ Len(taken) <= count /\ taken = SubSeq(argv, 1, Len(taken))
                  /\ IF Len(taken) = count THEN pos = totlen ELSE cmd[pos + 1] = "$"
=============================================================================
