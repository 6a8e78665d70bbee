------------------------------- MODULE JsonText -------------------------------
(***************************************************************************)
(* The text of JSON values, as api/websockets/wsd/parson.c writes and reads *)
(* it.  A text is a sequence of characters, each a string; a control        *)
(* character has its name in ASCII, and a character beyond ASCII is one,    *)
(* for its bytes are copied.  Numbers are whole, as all those of wsd are.   *)
(***************************************************************************)
EXTENDS Integers, Sequences, SequencesExt, FiniteSetsExt, TLC

CONSTANT MaxNesting   \* MAX_NESTING

Value(type, num, str, names, items) ==
    [type |-> type, num |-> num, str |-> str, names |-> names, items |-> items]

\* Those of code 0 to 31, from 32 to 95 and from 97 to 126.  What is between, which no
\* string of TLA+ can have, is named by its code.
Controls == <<"nul", "soh", "stx", "etx", "eot", "enq", "ack", "bel", "bs", "\t", "\n", "vt", "\f", "\r", "so", "si",
              "dle", "dc1", "dc2", "dc3", "dc4", "nak", "syn", "etb", "can", "em", "sub", "esc", "fs", "gs", "rs", "us">>
Upper == " !\"#$%&'()*+,-./0123456789:;<=>?@ABCDEFGHIJKLMNOPQRSTUVWXYZ[\\]^_"
Lower == "abcdefghijklmnopqrstuvwxyz{|}~"

Nul == Controls[1]
Blanks == {" ", "\t", "\n", "vt", "\f", "\r"}
Digits == <<"0", "1", "2", "3", "4", "5", "6", "7", "8", "9">>
HexDigits == Digits \o <<"a", "b", "c", "d", "e", "f", "A", "B", "C", "D", "E", "F">>

\* The letter after the backslash; what has none is written with its code.
Letter ==
    "\"" :> "\"" @@ "\\" :> "\\" @@ "/" :> "/" @@
    "bs" :> "b" @@ "\f" :> "f" @@ "\n" :> "n" @@ "\r" :> "r" @@ "\t" :> "t"

\* Variant: a control character that has no letter is written as it is.
EscapedBare(c) == IF c \in DOMAIN Letter THEN <<"\\", Letter[c]>> ELSE <<c>>

\* json_serialize_string.
Escaped(c) ==
    IF c \in DOMAIN Letter THEN <<"\\", Letter[c]>>
    ELSE IF c \in ToSet(Controls)
    THEN LET code == SelectInSeq(Controls, LAMBDA d : d = c) - 1
         IN  <<"\\", "u", "0", "0", HexDigits[code \div 16 + 1], HexDigits[(code % 16) + 1]>>
    ELSE <<c>>

Quoted(str) == <<"\"">> \o FlattenSeq([i \in DOMAIN str |-> Escaped(str[i])]) \o <<"\"">>

Decimal[n \in Nat] == IF n < 10 THEN <<Digits[n + 1]>> ELSE Append(Decimal[n \div 10], Digits[(n % 10) + 1])

\* append_indent and the line ends of the pretty form.
Indent(pretty, level) == [i \in 1 .. IF pretty THEN 4 * level ELSE 0 |-> " "]
Newline(pretty) == IF pretty THEN <<"\n">> ELSE <<>>

\* json_serialize_to_buffer_r.
RECURSIVE Text(_, _, _)
Text(v, pretty, level) ==
    LET n == Len(v.items)
        item(i) == Text(v.items[i], pretty, level + 1)
        name(i) == IF v.type = "array" THEN <<>>
                   ELSE Quoted(v.names[i]) \o <<":">> \o (IF pretty THEN <<" ">> ELSE <<>>)
        line(i) == Indent(pretty, level + 1) \o name(i) \o item(i)
                   \o (IF i < n THEN <<",">> ELSE <<>>) \o Newline(pretty)
        lines == FlattenSeq([i \in 1 .. n |-> line(i)])
        inside == IF n = 0 THEN <<>> ELSE Newline(pretty) \o lines \o Indent(pretty, level)
    IN  CASE v.type = "array"   -> <<"[">> \o inside \o <<"]">>
          [] v.type = "object"  -> <<"{">> \o inside \o <<"}">>
          [] v.type = "string"  -> Quoted(v.str)
          [] v.type = "number"  -> IF v.num < 0 THEN <<"-">> \o Decimal[-v.num] ELSE Decimal[v.num]
          [] v.type = "boolean" -> IF v.num = 1 THEN <<"t", "r", "u", "e">> ELSE <<"f", "a", "l", "s", "e">>
          [] v.type = "null"    -> <<"n", "u", "l", "l">>
-----------------------------------------------------------------------------
(* Reading                                                                 *)

Read(v, at) == [ok |-> TRUE, v |-> v, at |-> at]
Unreadable == [ok |-> FALSE, v |-> <<>>, at |-> 0]

At(t, i) == IF i <= Len(t) THEN t[i] ELSE Nul
SkipWhitespaces(t, i) == Min({j \in i .. Len(t) + 1 : At(t, j) \notin Blanks})

\* skip_quotes: the quotes after the one at i that no backslash escapes.
Backslashes(t, i, j) == j - 1 - Max({k \in i .. j - 1 : t[k] # "\\"})
ClosingQuotes(t, i) == {j \in i + 1 .. Len(t) : t[j] = "\"" /\ Backslashes(t, i, j) % 2 = 0}

\* hex_char_to_int, of a digit in either case.
HexValue(c) == LET i == SelectInSeq(HexDigits, LAMBDA d : d = c) IN IF i > 16 THEN i - 7 ELSE i - 1

\* parse_utf16_hex: the value of four digits, or -1.
Hex(str, i) ==
    IF i + 3 > Len(str) \/ \E k \in i .. i + 3 : str[k] \notin ToSet(HexDigits) THEN -1
    ELSE FoldLeft(LAMBDA n, k : 16 * n + HexValue(str[k]), 0, <<i, i + 1, i + 2, i + 3>>)

\* The character of a code: that of ASCII, or one that no rule here tells from others.
CharOf(code) ==
    CASE code < 32           -> Controls[code + 1]
      [] code \in 32 .. 95   -> SubSeq(Upper, code - 31, code - 31)
      [] code \in 97 .. 126  -> SubSeq(Lower, code - 96, code - 96)
      [] OTHER               -> ToString(code)

Lead == 55296 .. 56319     \* D800 to DBFF
Trail == 56320 .. 57343    \* DC00 to DFFF

\* parse_utf16 of the digits at i: the character and what it is long, or nothing.
Utf16(str, i) ==
    LET cp == Hex(str, i)
        trail == IF At(str, i + 4) = "\\" /\ At(str, i + 5) = "u" THEN Hex(str, i + 6) ELSE -1
    IN  CASE cp \in Lead /\ trail \in Trail ->
                 Read(CharOf((cp - 55296) * 1024 + (trail - 56320) + 65536), 10)
          [] cp >= 0 /\ cp \notin Lead \cup Trail -> Read(CharOf(cp), 4)
          [] OTHER -> Unreadable

\* process_string: what cannot be read becomes Invalid, of which one fails the whole.
Invalid == "invalid"
RECURSIVE Processed(_, _)
Processed(str, i) ==
    IF i > Len(str) THEN <<>>
    ELSE IF str[i] \in ToSet(Controls) THEN <<Invalid>>
    ELSE IF str[i] # "\\" THEN <<str[i]>> \o Processed(str, i + 1)
    ELSE IF At(str, i + 1) = "u"
    THEN LET u == Utf16(str, i + 2)
         IN  IF u.ok THEN <<u.v>> \o Processed(str, i + 2 + u.at) ELSE <<Invalid>>
    ELSE IF \E c \in DOMAIN Letter : Letter[c] = At(str, i + 1)
    THEN <<CHOOSE c \in DOMAIN Letter : Letter[c] = str[i + 1]>> \o Processed(str, i + 2)
    ELSE <<Invalid>>

\* A string of C ends at its first NUL.
CString(str) == LET n == SelectInSeq(str, LAMBDA c : c = Nul) IN IF n = 0 THEN str ELSE SubSeq(str, 1, n - 1)

\* get_quoted_string.
QuotedString(t, i) ==
    IF At(t, i) # "\"" \/ ClosingQuotes(t, i) = {} THEN Unreadable
    ELSE LET end == Min(ClosingQuotes(t, i))
             str == Processed(SubSeq(t, i + 1, end - 1), 1)
         IN  IF Invalid \in ToSet(str) THEN Unreadable ELSE Read(CString(str), end + 1)

\* parse_number_value: strtod takes nothing of a lone minus, and is_decimal no
\* leading zeros.
Number(t, i) ==
    LET from == IF t[i] = "-" THEN i + 1 ELSE i
        end == Min({j \in from .. Len(t) + 1 : At(t, j) \notin ToSet(Digits)})
        n == FoldLeft(LAMBDA m, d : 10 * m + SelectInSeq(Digits, LAMBDA c : c = d) - 1,
                      0, SubSeq(t, from, end - 1))
    IN  IF end = from THEN Read(Value("number", 0, <<>>, <<>>, <<>>), i)
        ELSE IF end - from > 1 /\ t[from] = "0" THEN Unreadable
        ELSE Read(Value("number", IF from > i THEN -n ELSE n, <<>>, <<>>, <<>>), end)

\* parse_boolean_value, parse_null_value.
Token(t, i, word, v) == IF SubSeq(t, i, i + Len(word) - 1) = word THEN Read(v, i + Len(word)) ELSE Unreadable

RECURSIVE ParseValue(_, _, _), Items(_, _, _, _), Members(_, _, _, _, _)

\* After an item: a comma and the next one, or the end of the container.
Closed(t, i, bracket, v) ==
    LET j == SkipWhitespaces(t, i) IN IF At(t, j) = bracket THEN Read(v, j + 1) ELSE Unreadable

\* parse_array_value after the bracket, and once an item is read as r.
AfterItem(t, r, nesting, items) ==
    LET j == SkipWhitespaces(t, r.at)
        now == Append(items, r.v)
    IN  IF ~r.ok THEN Unreadable
        ELSE IF At(t, j) = "," THEN Items(t, SkipWhitespaces(t, j + 1), nesting, now)
        ELSE Closed(t, j, "]", Value("array", 0, <<>>, <<>>, now))

Items(t, i, nesting, items) == AfterItem(t, ParseValue(t, i, nesting), nesting, items)

\* parse_object_value after the bracket, once a name is read, and once its value is
\* read as r: a name that is there already fails it.
AfterMember(t, name, r, nesting, names, items) ==
    LET j == SkipWhitespaces(t, r.at)
        nowNames == Append(names, name)
        now == Append(items, r.v)
    IN  IF ~r.ok \/ name \in ToSet(names) THEN Unreadable
        ELSE IF At(t, j) = "," THEN Members(t, SkipWhitespaces(t, j + 1), nesting, nowNames, now)
        ELSE Closed(t, j, "}", Value("object", 0, <<>>, nowNames, now))

AfterName(t, name, nesting, names, items) ==
    LET colon == SkipWhitespaces(t, name.at)
    IN  IF ~name.ok \/ At(t, colon) # ":" THEN Unreadable
        ELSE AfterMember(t, name.v, ParseValue(t, colon + 1, nesting), nesting, names, items)

Members(t, i, nesting, names, items) == AfterName(t, QuotedString(t, i), nesting, names, items)

\* parse_value.
ParseValue(t, start, nesting) ==
    LET i == SkipWhitespaces(t, start)
        c == At(t, i)
        inside == SkipWhitespaces(t, i + 1)
    IN  IF nesting > MaxNesting THEN Unreadable
        ELSE CASE c = "{" -> IF At(t, inside) = "}" THEN Read(Value("object", 0, <<>>, <<>>, <<>>), inside + 1)
                             ELSE Members(t, inside, nesting + 1, <<>>, <<>>)
               [] c = "[" -> IF At(t, inside) = "]" THEN Read(Value("array", 0, <<>>, <<>>, <<>>), inside + 1)
                             ELSE Items(t, inside, nesting + 1, <<>>)
               [] c = "\"" -> LET q == QuotedString(t, i)
                              IN  IF q.ok THEN Read(Value("string", 0, q.v, <<>>, <<>>), q.at) ELSE Unreadable
               [] c = "t" -> Token(t, i, <<"t", "r", "u", "e">>, Value("boolean", 1, <<>>, <<>>, <<>>))
               [] c = "f" -> Token(t, i, <<"f", "a", "l", "s", "e">>, Value("boolean", 0, <<>>, <<>>, <<>>))
               [] c = "n" -> Token(t, i, <<"n", "u", "l", "l">>, Value("null", 0, <<>>, <<>>, <<>>))
               [] c \in ToSet(Digits) \cup {"-"} -> Number(t, i)
               [] OTHER -> Unreadable

\* json_parse_string: what follows the value is not looked at.
Parse(t) == ParseValue(t, 1, 0)

\* json_value_equals.
RECURSIVE Equals(_, _)
Equals(a, b) ==
    /\ a.type = b.type
    /\ CASE a.type = "array"  -> /\ Len(a.items) = Len(b.items)
                                 /\ \A i \in DOMAIN a.items : Equals(a.items[i], b.items[i])
         [] a.type = "object" -> /\ Len(a.items) = Len(b.items)
                                 /\ \A i \in DOMAIN a.items : \E j \in DOMAIN b.items :
                                       a.names[i] = b.names[j] /\ Equals(a.items[i], b.items[j])
         [] a.type = "string" -> a.str = b.str
         [] OTHER -> a.num = b.num
=============================================================================
