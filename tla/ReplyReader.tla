------------------------------ MODULE ReplyReader ------------------------------
(***************************************************************************)
(* The reply parser of hiredis (api/websockets/hiredis/read.c with the     *)
(* object functions of hiredis.c), as operators on a record.  A byte is a  *)
(* string of one character.  A reply is a tree, kept as a function from    *)
(* paths to nodes: <<-1>> is the root, p \o <<i>> the element i of the     *)
(* array at p, which is how the tasks that make them are indexed.  Running *)
(* out of memory and numbers of more than 64 bits are left out.            *)
(***************************************************************************)
EXTENDS Integers, Sequences, SequencesExt, FiniteSetsExt, TLC

CONSTANT Discard   \* the 1k of redisReaderGetReply

NoReply == <<>>    \* NULL: a function with no paths

\* redisReadTask without its pointers: the object of the task at depth d is
\* at the path of the indices of the first d tasks.
Task(idx) == [type |-> "none", elements |-> -1, idx |-> idx]

\* redisReaderCreateWithFunctions.
NewReader == [buf |-> <<>>, pos |-> 0, stack |-> <<>>, reply |-> NoReply, err |-> FALSE]

\* createReplyObject and the functions that fill what it returns.
Node(type, str, integer, elements) ==
    [type |-> type, str |-> str, integer |-> integer, elements |-> elements]

\* __redisReaderSetError: what was read is dropped, the error stays.
Failed(r) == [NewReader EXCEPT !.err = TRUE]

\* seekNewline: where the first CR that has a LF after it stands.
Newlines(r) == {i \in r.pos + 1 .. Len(r.buf) - 1 : r.buf[i] = "\r" /\ r.buf[i + 1] = "\n"}
HasLine(r) == Newlines(r) # {}
Line(r) == SubSeq(r.buf, r.pos + 1, Min(Newlines(r)) - 1)

Digits == <<"0", "1", "2", "3", "4", "5", "6", "7", "8", "9">>
DigitValue(c) == (CHOOSE d \in DOMAIN Digits : Digits[d] = c) - 1

\* readLongLong: -1 also for what is not a number.
ReadLongLong(s) ==
    LET signed == s # <<>> /\ s[1] \in {"-", "+"}
        digits == IF signed THEN Tail(s) ELSE s
        value == FoldLeft(LAMBDA v, c : 10 * v + DigitValue(c), 0, digits)
    IN  IF ~ToSet(digits) \subseteq ToSet(Digits) THEN -1
        ELSE IF signed /\ s[1] = "-" THEN -value ELSE value

\* Variant: an array that ends together with its parent is not left behind.
MoveOneUp(stack) ==
    LET d == Len(stack)
    IN  IF d = 1 THEN <<>>
        ELSE IF stack[d].idx = stack[d - 1].elements - 1 THEN Front(stack)
        ELSE Append(Front(stack), Task(stack[d].idx + 1))

\* moveToNextTask: the deepest task that is not the last of its array goes on to
\* the next element.
MoveToNextTask(stack) ==
    LET open == {d \in 2 .. Len(stack) : stack[d].idx < stack[d - 1].elements - 1}
    IN  IF open = {} THEN <<>>
        ELSE Append(SubSeq(stack, 1, Max(open) - 1), Task(stack[Max(open)].idx + 1))

\* A node for the current task: the root of the reply, or an element of the parent.
Put(r, node) ==
    LET path == [d \in DOMAIN r.stack |-> r.stack[d].idx]
    IN  IF Len(path) = 1 THEN path :> node ELSE (path :> node) @@ r.reply

\* The node is there, n bytes after the type have been read, the next task is set.
Taken(r, node, n) ==
    [r EXCEPT !.pos = @ + n, !.reply = Put(r, node), !.stack = MoveToNextTask(@)]

\* processLineItem, of a line.
LineItem(r, line) ==
    LET type == Last(r.stack).type
    IN  Taken(r, IF type = "integer" THEN Node(type, <<>>, ReadLongLong(line), 0) ELSE Node(type, line, 0, 0),
              Len(line) + 2)

\* processBulkItem, of a line with a length: nothing moves until the whole string is
\* there.
BulkSize(line, len) == Len(line) + 2 + (IF len < 0 THEN 0 ELSE len + 2)
BulkComplete(r, line) == r.pos + BulkSize(line, ReadLongLong(line)) <= Len(r.buf)
BulkItem(r, line, len) ==
    LET start == r.pos + Len(line) + 2
    IN  Taken(r, IF len < 0 THEN Node("nil", <<>>, 0, 0)
                 ELSE Node("string", SubSeq(r.buf, start + 1, start + len), 0, 0),
              BulkSize(line, len))

\* processMultiBulkItem, of a line with a count: an array with elements gets a task
\* for the first of them.
MultiBulkItem(r, line, elements) ==
    LET n == Len(line) + 2
        node == IF elements = -1 THEN Node("nil", <<>>, 0, 0) ELSE Node("array", <<>>, 0, elements)
    IN  IF elements <= 0 THEN Taken(r, node, n)
        ELSE [r EXCEPT !.pos = @ + n, !.reply = Put(r, node),
                       !.stack = Append([@ EXCEPT ![Len(@)].elements = elements], Task(0))]

MaxDepth == 9   \* rstack[9]

TypeOf == "-" :> "error" @@ "+" :> "status" @@ ":" :> "integer" @@ "$" :> "string" @@ "*" :> "array"

\* processItem reads the type first, and the rest when it is there.
NeedsType(r) == Last(r.stack).type = "none"
ReadType(r) ==
    LET c == r.buf[r.pos + 1]
    IN  IF c \notin DOMAIN TypeOf THEN Failed(r)
        ELSE [r EXCEPT !.pos = @ + 1, !.stack[Len(r.stack)].type = TypeOf[c]]

CanProcess(r) ==
    /\ r.stack # <<>> /\ ~r.err
    /\ IF NeedsType(r) THEN r.pos < Len(r.buf)
       ELSE CASE Last(r.stack).type = "string" -> HasLine(r) /\ BulkComplete(r, Line(r))
              [] Last(r.stack).type = "array"  -> HasLine(r) \/ Len(r.stack) = MaxDepth
              [] OTHER -> HasLine(r)

LineProcessed(r, line) ==
    CASE Last(r.stack).type = "string" -> BulkItem(r, line, ReadLongLong(line))
      [] Last(r.stack).type = "array"  -> MultiBulkItem(r, line, ReadLongLong(line))
      [] OTHER -> LineItem(r, line)

ProcessItem(r) ==
    IF NeedsType(r) THEN ReadType(r)
    ELSE IF Last(r.stack).type = "array" /\ Len(r.stack) = MaxDepth THEN Failed(r)
    ELSE LineProcessed(r, Line(r))

RECURSIVE Process(_)
Process(r) == IF CanProcess(r) THEN Process(ProcessItem(r)) ELSE r

\* The discarding of what was read, once it is worth it.
Trimmed(r) ==
    IF r.err \/ r.pos < Discard THEN r ELSE [r EXCEPT !.buf = SubSeq(@, r.pos + 1, Len(@)), !.pos = 0]

\* redisReaderFeed.
Feed(r, bytes) == IF r.err THEN r ELSE [r EXCEPT !.buf = @ \o bytes]

\* redisReaderGetReply up to the emission: a reply is there when the stack is empty.
Parsed(r) ==
    IF r.err \/ r.buf = <<>> THEN r
    ELSE Trimmed(Process(IF r.stack = <<>> THEN [r EXCEPT !.stack = <<Task(-1)>>] ELSE r))

\* The reply in *reply, and the reader without it.
Emitted(r) == IF r.stack = <<>> THEN r.reply ELSE NoReply
WithoutReply(r) == IF r.stack = <<>> THEN [r EXCEPT !.reply = NoReply] ELSE r
=============================================================================
