---------------------------------- MODULE Sds ----------------------------------
(***************************************************************************)
(* The strings of hiredis (api/websockets/hiredis/sds.c): bytes and a NUL   *)
(* after a header of one of five types, whose fields have from 5 to 64      *)
(* bits.  The widths are parameters, so that small strings reach them.      *)
(* Memory that was never written holds Unset.                               *)
(***************************************************************************)
EXTENDS Integers, Sequences, SequencesExt, FiniteSetsExt

CONSTANTS
    Chars,       \* bytes other than Zero and Blank
    Span,        \* how many values len and alloc have in SDS_TYPE_5, 8, 16, 32, 64
    MaxPrealloc, \* SDS_MAX_PREALLOC
    MaxArg,     \* bound: bytes given to one call
    MaxString       \* bound: bytes held

Zero == "zero"
Blank == "blank"
Unset == "unset"

\* The fields get wider, and in the widest no string of the memory there is overflows,
\* even when its room is doubled.
ASSUME SdsAssumption ==
    /\ Chars \cap {Zero, Blank, Unset} = {}
    /\ MaxPrealloc \in Nat /\ MaxArg \in Nat /\ MaxString \in Nat
    /\ Span \in Seq(Nat) /\ Len(Span) > 1
    /\ \A t \in DOMAIN Span : Span[t] > 0 /\ Span[1] <= Span[t]
    /\ Span[Len(Span)] > 2 * (MaxString + MaxArg)

VARIABLES
    s,      \* the string: type, len, alloc, and mem, its bytes from 1
    want    \* what the calls so far are to have made of it

svars == <<s, want>>

Type5 == 1
Type8 == 2

\* sdsReqType: type 5 holds lengths below 2^5, type 8 those below 2^8 - 1, ...
ReqType(size) ==
    Min({t \in DOMAIN Span : t = Len(Span) \/ size < Span[t] - (IF t = Type5 THEN 0 ELSE 1)})

\* A field of the header keeps its width.
Field(type, n) == n % Span[type]

Unwritten(n) == [i \in 1 .. n |-> Unset]

\* memcpy of data to the bytes of mem after the first at.
Put(mem, at, data) ==
    [i \in DOMAIN mem |-> IF i \in at + 1 .. at + Len(data) THEN data[i - at] ELSE mem[i]]

\* sdslen, sdsalloc, sdsavail: type 5 has no field for what is allocated.
Alloc(x) == IF x.type = Type5 THEN x.len ELSE x.alloc
Avail(x) == Alloc(x) - x.len
Content(x) == SubSeq(x.mem, 1, x.len)

\* sdssetlen with the NUL that goes with it.
WithLen(x, n) == [x EXCEPT !.len = Field(x.type, n), !.mem = Put(@, n, <<Zero>>)]

\* sdsnewlen, and by way of it sdsempty, sdsnew and sdsdup.
New(data) ==
    LET n == Len(data)
        type == IF n = 0 THEN Type8 ELSE ReqType(n)
    IN  [type |-> type, len |-> Field(type, n), alloc |-> Field(type, n),
         mem |-> Append(data, Zero)]

\* The string with room for n bytes, in a header of the given type.
Moved(x, type, n) ==
    [type |-> type, len |-> Field(type, x.len), alloc |-> Field(type, n),
     mem |-> SubSeq(x.mem \o Unwritten(n), 1, n + 1)]

\* Variant: the header stays as it is.
MakeRoomForSameType(x, add) ==
    LET need == x.len + add
        n == need + Min({need, MaxPrealloc})
    IN  IF Avail(x) >= add THEN x ELSE Moved(x, IF x.type = Type5 THEN Type8 ELSE x.type, n)

\* sdsMakeRoomFor: twice what is needed, up to a limit, and never type 5.
MakeRoomFor(x, add) ==
    LET need == x.len + add
        n == IF need < MaxPrealloc THEN 2 * need ELSE need + MaxPrealloc
        type == IF ReqType(n) = Type5 THEN Type8 ELSE ReqType(n)
    IN  IF Avail(x) >= add THEN x ELSE Moved(x, type, n)

\* sdsRemoveFreeSpace.
RemoveFreeSpace(x) == Moved(x, ReqType(x.len), x.len)

\* sdscatlen, sdscat, sdscatsds.
Cat(x, data) ==
    LET y == MakeRoomFor(x, Len(data))
    IN  WithLen([y EXCEPT !.mem = Put(@, x.len, data)], x.len + Len(data))

\* Room for one byte, and then for n.
Widened(x, n) ==
    LET y == IF Avail(x) = 0 THEN MakeRoomFor(x, 1) ELSE x
    IN  IF Avail(y) < n THEN MakeRoomFor(y, n) ELSE y

\* A turn of the loop of sdscatfmt: the room is looked at before each piece, which is
\* one byte of the format or a whole argument.
Piece(x, data) ==
    LET z == Widened(x, Len(data))
    IN  [z EXCEPT !.mem = Put(@, z.len, data), !.len = Field(z.type, @ + Len(data))]

\* sdscatfmt with an argument between two bytes; the NUL is written at the end.
CatFmt(x, first, data, last) ==
    LET end == Piece(Piece(Piece(x, <<first>>), data), <<last>>)
    IN  [end EXCEPT !.mem = Put(@, end.len, <<Zero>>)]

\* sdscpylen, sdscpy.
Copy(x, data) ==
    LET y == IF Alloc(x) < Len(data) THEN MakeRoomFor(x, Len(data) - x.len) ELSE x
    IN  WithLen([y EXCEPT !.mem = Put(@, 0, data)], Len(data))

\* sdsgrowzero.
GrowZero(x, n) ==
    IF n <= x.len THEN x
    ELSE LET y == MakeRoomFor(x, n - x.len)
         IN  WithLen([y EXCEPT !.mem = Put(@, x.len, [i \in 1 .. n - x.len |-> Zero])], n)

\* sdsIncrLen and its assertions.
MayIncr(x, incr) ==
    IF incr < 0 THEN x.len >= -incr
    ELSE IF x.type = Type5 THEN incr > 0 /\ x.len + incr < Span[Type5] ELSE Avail(x) >= incr
IncrLen(x, incr) == WithLen(x, x.len + incr)

\* sdsupdatelen, sdsclear.
UpdateLen(x) == [x EXCEPT !.len = Min({i \in DOMAIN x.mem : x.mem[i] = Zero}) - 1]
Clear(x) == WithLen(x, 0)

\* memmove of the n bytes after the first at to the front.
Keep(x, at, n) == WithLen([x EXCEPT !.mem = Put(@, 0, SubSeq(x.mem, at + 1, at + n))], n)

\* sdsrange: an index below 0 counts from the end, and stops at the first byte.
Cut(x, start, end) ==
    LET from(i) == IF i < 0 THEN Max({x.len + i, 0}) ELSE i
        last == Min({from(end), x.len - 1})
    IN  IF x.len = 0 THEN x
        ELSE IF from(start) > last THEN Keep(x, 0, 0)
        ELSE Keep(x, from(start), last - from(start) + 1)

\* sdstrim: strchr finds a NUL in every set of characters.
Trim(x) ==
    LET kept == {i \in 1 .. x.len : x.mem[i] \notin {Blank, Zero}}
    IN  IF kept = {} THEN Keep(x, 0, 0) ELSE Keep(x, Min(kept) - 1, Max(kept) - Min(kept) + 1)
-----------------------------------------------------------------------------
Bytestrings == BoundedSeq(Chars \cup {Blank}, MaxArg)

StringInit == s = New(<<>>) /\ want = <<>>

\* A call made string x of the one there was, and ought to have made it w.
Does(x, w) == Len(w) <= MaxString /\ s' = x /\ want' = w

Slice(q, from, to) == SubSeq(q, from, Min({to, Len(q)}))

StringNext ==
    \/ \E data \in Bytestrings : \/ Does(New(data), data)
                          \/ Does(Cat(s, data), want \o data)
                          \/ Does(Copy(s, data), data)
                          \/ Does(CatFmt(s, Blank, data, Blank), want \o <<Blank>> \o data \o <<Blank>>)
    \/ \E n \in 0 .. MaxString : Does(GrowZero(s, n), want \o [i \in 1 .. Max({n - Len(want), 0}) |-> Zero])
    \/ Does(RemoveFreeSpace(s), want)
    \/ Does(New(Content(s)), want)
    \/ \E room \in 0 .. MaxArg, data \in Bytestrings :
          \* the caller writes data into the room and tells its length
          LET x == MakeRoomFor(s, room)
              y == [x EXCEPT !.mem = Put(@, x.len, data)]
          IN  Len(data) <= room /\ MayIncr(y, Len(data)) /\ Does(IncrLen(y, Len(data)), want \o data)
    \/ \E n \in 1 .. Len(want) : Does(IncrLen(s, -n), SubSeq(want, 1, Len(want) - n))
    \/ \E n \in 1 .. Len(want) :
          Does(UpdateLen([s EXCEPT !.mem = Put(@, n - 1, <<Zero>>)]),
               SubSeq(want, 1, Min({n} \cup {i \in DOMAIN want : want[i] = Zero}) - 1))
    \/ Does(Clear(s), <<>>)
    \/ \E start, end \in -2 .. MaxString :
          LET from(i) == IF i >= 0 THEN i ELSE IF Len(want) + i < 0 THEN 0 ELSE Len(want) + i
          IN  Does(Cut(s, start, end), Slice(want, from(start) + 1, from(end) + 1))
    \/ Does(Trim(s), LET l == SelectInSeq(want, LAMBDA b : b \in Chars)
                         r == SelectLastInSeq(want, LAMBDA b : b \in Chars)
                     IN  SubSeq(want, IF l = 0 THEN 1 ELSE l, r))

StringSpec == StringInit /\ [][StringNext]_svars
-----------------------------------------------------------------------------
(* Properties                                                              *)

\* "The string is always null-termined (all the sds strings are, always)", sds.c:73,
\* and every call does to the content what its comment says, whatever header the
\* string had and whichever it gets: no length is cut to the width of its field, and
\* no byte beyond the allocation is relied on.
StringKept ==
    /\ Content(s) = want
    /\ s.len <= Alloc(s) /\ Alloc(s) < Len(s.mem)
    /\ s.mem[s.len + 1] = Zero
=============================================================================
