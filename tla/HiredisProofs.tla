---------------------------- MODULE HiredisProofs ----------------------------
(***************************************************************************)
(* The theorems of three parts of hiredis that meet no other.  A context   *)
(* keeps account of its descriptors and tells of its failures, for every   *)
(* number of descriptors, addresses and retries.  Strings keep their bytes,*)
(* their lengths and their NUL, whatever the widths of the headers' fields *)
(* and in whatever order the calls come.  Commands are as long as they were *)
(* computed to be, and are read back as they were meant, whatever bytes and *)
(* arguments they have.                                                    *)
(***************************************************************************)
EXTENDS RedisConnect, CommandFormat, Sds, SequenceTheorems, WellFoundedInduction, TLAPS

-----------------------------------------------------------------------------
(* Connecting                                                              *)

Holding == {"nonblock", "bind", "connect", "finish", "connected"}
Steps == Holding \cup {"gone", "resolve", "socket", "failed"}

ConnectTyped ==
    /\ pc \in Steps
    /\ fd \in Descriptors \cup {-1}
    /\ owner \in [Descriptors -> {"nobody", "context", "other"}]

\* A descriptor of the context is the one in fd, and there is none before socket(2).
OneHeld == \A d \in Descriptors \ {0} :
    owner[d] = "context" => d = fd /\ pc \notin {"gone", "resolve", "socket"}

\* From socket(2) on, the context has the descriptor in fd.
Held == pc \in Holding => fd \in Descriptors /\ owner[fd] = "context"

\* Otherwise fd is the number of none, or one that redisReconnect closed.
Stale ==
    /\ pc \in {"resolve", "socket"} => again \/ fd \in {-1, 0}
    /\ pc = "failed" => again \/ fd \in {-1, 0} \/ owner[fd] = "context"

IInv == MaxFd \in Nat /\ ConnectTyped /\ OneHeld /\ Held /\ Stale
-----------------------------------------------------------------------------
\* The invariant holds at first.
LEMMA InitIInv == MaxFd \in Nat /\ ConnectInit => IInv
BY DEF ConnectInit, IInv, ConnectTyped, OneHeld, Held, Stale, Holding, Steps, Descriptors

\* An attempt that fails, with the descriptor held or closed.
LEMMA FailingIInv ==
    ASSUME IInv, pc \in Steps \ {"gone"}, NEW told,
           FailsHolding(told) \/ (pc \in Holding /\ Fails(told) /\ fd' = -1 /\ owner' = Closed(fd))
    PROVE  IInv'
BY DEF FailsHolding, Fails, Closed, IInv, ConnectTyped, OneHeld, Held, Stale, Holding, Steps, Descriptors

LEMMA NextIInv == IInv /\ [ConnectNext]_nvars => IInv'
<1> SUFFICES ASSUME IInv, [ConnectNext]_nvars PROVE IInv'
  OBVIOUS
<1> USE DEF IInv, ConnectTyped, OneHeld, Held, Stale, Holding, Steps, Descriptors, context
<1>1. CASE Connect
  BY <1>1 DEF Connect, Begins
<1>2. CASE ConnectFd
  BY <1>2 DEF ConnectFd
<1>3. CASE Resolve
  BY <1>3, FailingIInv DEF Resolve
<1>4. CASE OpenSocket
  BY <1>4 DEF OpenSocket, NextAddress, Fails
<1>5. CASE SetNonBlocking
  BY <1>5, FailingIInv DEF SetNonBlocking, FailsClosing
<1>6. CASE Bind
  BY <1>6, FailingIInv DEF Bind, Goes
<1>7. CASE ConnectSocket
  <2>1. CASE Goes("finish") \/ WaitReady(options.blocking)
    BY <1>7, <2>1, FailingIInv DEF ConnectSocket, WaitReady, FailsClosing, Goes
  <2>2. CASE fd' = -1 /\ owner' = Closed(fd) /\ NextAddress
    BY <1>7, <2>2 DEF ConnectSocket, NextAddress, Fails, Closed
  <2>3. CASE FailsHolding(FALSE)
    BY <1>7, <2>3, FailingIInv DEF ConnectSocket
  <2>4. CASE fd' = -1 /\ owner' = Closed(fd) /\ pc' = "socket"
    BY <1>7, <2>4 DEF ConnectSocket, Closed
  <2>5. QED
    BY <1>7, <2>1, <2>2, <2>3, <2>4 DEF ConnectSocket
<1>8. CASE Finish
  BY <1>8, FailingIInv DEF Finish, FailsClosing, Goes
<1>9. CASE Breaks
  BY <1>9, FailingIInv DEF Breaks
<1>10. CASE Reconnect
  BY <1>10 DEF Reconnect, Closed
<1>11. CASE FreeContext
  BY <1>11 DEF FreeContext, Closed
<1>12. CASE FreeKeepFd
  BY <1>12 DEF FreeKeepFd
<1>13. CASE Others
  BY <1>13 DEF Others, Lowest, Closed
<1>14. CASE UNCHANGED nvars
  BY <1>14 DEF nvars
<1>15. QED
  BY <1>1, <1>2, <1>3, <1>4, <1>5, <1>6, <1>7, <1>8, <1>9, <1>10, <1>11, <1>12, <1>13, <1>14 DEF ConnectNext

\* No socket is lost, and no other thread's descriptor closed, but for number 0 and
\* the number redisReconnect leaves in fd (net.c, hiredis.c:616-669).
THEOREM Accounted == ASSUME MaxFd \in Nat PROVE ConnectSpec => []DescriptorsAccounted
<1>1. ConnectInit => IInv
  BY InitIInv
<1>2. IInv => DescriptorsAccounted
  BY DEF IInv, ConnectTyped, OneHeld, Held, Stale, Holding, Steps, Descriptors, DescriptorsAccounted
<1>3. QED
  BY <1>1, <1>2, NextIInv, PTL DEF ConnectSpec
-----------------------------------------------------------------------------
\* A failed attempt is told of, but for the three ways out of net.c that set no error.
THEOREM FailuresTold == ConnectSpec => []ErrorsTold
<1>1. ConnectInit => ErrorsTold
  BY DEF ConnectInit, ErrorsTold
<1>2. ErrorsTold /\ [ConnectNext]_nvars => ErrorsTold'
  <2> SUFFICES ASSUME ErrorsTold, [ConnectNext]_nvars PROVE ErrorsTold'
    OBVIOUS
  <2> USE DEF ErrorsTold, Fails, FailsHolding, FailsClosing, Goes, context
  <2>1. CASE Connect \/ ConnectFd \/ Reconnect \/ FreeContext \/ FreeKeepFd \/ Others
    BY <2>1 DEF Connect, ConnectFd, Reconnect, FreeContext, FreeKeepFd, Others, Begins
  <2>2. CASE Resolve \/ OpenSocket \/ SetNonBlocking \/ Bind
    BY <2>2 DEF Resolve, OpenSocket, NextAddress, SetNonBlocking, Bind
  <2>3. CASE ConnectSocket \/ Finish \/ Breaks
    BY <2>3 DEF ConnectSocket, WaitReady, NextAddress, Finish, Breaks
  <2>4. CASE UNCHANGED nvars
    BY <2>4 DEF nvars
  <2>5. QED
    BY <2>1, <2>2, <2>3, <2>4 DEF ConnectNext
<1>3. QED
  BY <1>1, <1>2, PTL DEF ConnectSpec
-----------------------------------------------------------------------------
(* Strings                                                                 *)

Byte == Chars \cup {Blank, Zero}
Cell == Byte \cup {Unset}
Types == 1 .. Len(Span)
Most == MaxString + MaxArg
-----------------------------------------------------------------------------
(* Least and greatest                                                      *)

LEMMA MinIs ==
    ASSUME NEW S, S \subseteq Nat, S # {}
    PROVE  Min(S) \in S /\ \A k \in S : Min(S) <= k
<1>1. \E m \in S : \A k \in S : ~(<<k, m>> \in OpToRel(<, Nat))
  BY NatLessThanWellFounded, WFMin
<1>2. PICK m \in S : \A k \in S : ~(<<k, m>> \in OpToRel(<, Nat))
  BY <1>1
<1>3. ASSUME NEW k \in S PROVE m <= k
  <2> DEFINE p == <<k, m>>
  <2>1. k \in Nat /\ m \in Nat /\ p \in Nat \X Nat /\ p[1] = k /\ p[2] = m
    OBVIOUS
  <2>2. p \notin OpToRel(<, Nat)
    BY <1>2
  <2> HIDE DEF p
  <2>3. ~(p[1] < p[2])
    BY <2>1, <2>2 DEF OpToRel
  <2> QED
    BY <2>1, <2>3
<1> QED
  BY <1>3 DEF Min

LEMMA MaxIs ==
    ASSUME NEW n \in Nat, NEW S, S \subseteq 0 .. n, S # {}
    PROVE  Max(S) \in S /\ \A k \in S : k <= Max(S)
<1> DEFINE T == {n - k : k \in S}
<1>0. \A k \in S : k \in Int /\ 0 <= k /\ k <= n
  OBVIOUS
<1>1. T \subseteq Nat /\ T # {}
  <2>1. PICK k \in S : TRUE
    OBVIOUS
  <2>2. n - k \in T
    BY <2>1
  <2>3. \A t \in T : t \in Nat
    BY <1>0
  <2> QED
    BY <2>2, <2>3
<1>2. PICK k \in S : Min(T) = n - k
  BY <1>1, MinIs
<1>3. \A l \in S : Min(T) <= n - l
  BY <1>1, MinIs
<1>4. \A l \in S : l <= k
  BY <1>0, <1>2, <1>3
<1> QED
  BY <1>0, <1>4 DEF Max

LEMMA MinOfTwo ==
    ASSUME NEW a \in Int, NEW b \in Int
    PROVE  Min({a, b}) = IF a <= b THEN a ELSE b
BY DEF Min

LEMMA MaxOfTwo ==
    ASSUME NEW a \in Int, NEW b \in Int
    PROVE  Max({a, b}) = IF a >= b THEN a ELSE b
BY DEF Max
-----------------------------------------------------------------------------
(* Memory                                                                  *)

\* memcpy changes the bytes it is given, and no others.
LEMMA PutWrites ==
    ASSUME NEW mem \in Seq(Cell), NEW at \in Nat, NEW data \in Seq(Cell)
    PROVE  /\ Put(mem, at, data) \in Seq(Cell) /\ Len(Put(mem, at, data)) = Len(mem)
           /\ \A i \in 1 .. Len(mem) :
                 Put(mem, at, data)[i] = IF at < i /\ i <= at + Len(data) THEN data[i - at] ELSE mem[i]
<1>1. DOMAIN mem = 1 .. Len(mem) /\ Len(mem) \in Nat /\ \A i \in 1 .. Len(mem) : mem[i] \in Cell
  OBVIOUS
<1>2. Len(data) \in Nat /\ \A i \in 1 .. Len(data) : data[i] \in Cell
  OBVIOUS
<1> DEFINE new(i) == IF i \in at + 1 .. at + Len(data) THEN data[i - at] ELSE mem[i]
<1>3. \A i \in 1 .. Len(mem) : new(i) \in Cell
  BY <1>1, <1>2
<1>4. Put(mem, at, data) = [i \in 1 .. Len(mem) |-> new(i)]
  BY <1>1 DEF Put
<1>5. [i \in 1 .. Len(mem) |-> new(i)] \in Seq(Cell) /\ Len([i \in 1 .. Len(mem) |-> new(i)]) = Len(mem)
  BY <1>1, <1>3
<1>6. \A i \in 1 .. Len(mem) : new(i) = IF at < i /\ i <= at + Len(data) THEN data[i - at] ELSE mem[i]
  BY <1>1, <1>2
<1> QED
  BY <1>4, <1>5, <1>6

\* A field holds what is less than its span.
LEMMA FieldHolds ==
    ASSUME NEW t \in Types, NEW n \in Nat, n < Span[t]
    PROVE  Field(t, n) = n
<1>1. Span[t] \in Nat
  BY SdsAssumption DEF Types
<1> QED
  BY <1>1 DEF Field

\* sdsReqType returns a header wide enough.
LEMMA ReqTypeFits ==
    ASSUME NEW n \in Nat, n <= 2 * Most
    PROVE  ReqType(n) \in Types /\ n < Span[ReqType(n)]
<1> DEFINE S == {t \in DOMAIN Span : t = Len(Span) \/ n < Span[t] - (IF t = Type5 THEN 0 ELSE 1)}
<1>1. /\ Span \in Seq(Nat) /\ Len(Span) \in Nat /\ DOMAIN Span = 1 .. Len(Span) /\ Len(Span) > 1
      /\ \A t \in 1 .. Len(Span) : Span[t] \in Nat
      /\ Span[Len(Span)] > 2 * Most /\ Most \in Nat
  BY SdsAssumption DEF Most
<1>2. S \subseteq Nat /\ Len(Span) \in S
  BY <1>1
<1>3. Min(S) \in S
  BY <1>2, MinIs
<1>4. ReqType(n) = Min(S)
  BY DEF ReqType
<1>5. \A t \in S : t \in 1 .. Len(Span) /\ (t = Len(Span) \/ n < Span[t])
  BY <1>1 DEF Type5
<1> HIDE DEF S
<1> QED
  BY <1>1, <1>3, <1>4, <1>5 DEF Types
-----------------------------------------------------------------------------
(* The shape of a string                                                   *)

\* A header with its fields and the memory behind it, and n bytes of room in both.
Typed(x) == x \in [type : Types, len : Nat, alloc : Nat, mem : Seq(Cell)]

RoomFor(x, n) ==
    /\ n < Len(x.mem) /\ n < Span[x.type]
    /\ x.type # Type5 => n <= x.alloc /\ x.alloc < Len(x.mem) /\ x.alloc < Span[x.type]

\* The string holds w, with its NUL and without.
Bare(x, w) ==
    /\ Typed(x) /\ x.len = Len(w) /\ RoomFor(x, x.len)
    /\ \A i \in 1 .. Len(w) : x.mem[i] = w[i]

Holds(x, w) == Bare(x, w) /\ x.mem[x.len + 1] = Zero

LEMMA SpanFacts ==
    /\ Len(Span) \in Nat /\ Types = 1 .. Len(Span) /\ Type5 \in Types /\ Type8 \in Types
    /\ \A t \in Types : Span[t] \in Nat /\ Span[t] > 0 /\ Span[Type5] <= Span[t]
    /\ MaxPrealloc \in Nat /\ MaxArg \in Nat /\ MaxString \in Nat /\ Most \in Nat
BY SdsAssumption DEF Types, Type5, Type8, Most

\* What StringKept says of it.
LEMMA HoldsKeeps ==
    ASSUME NEW x, NEW w \in Seq(Cell), Holds(x, w)
    PROVE  /\ Content(x) = w
           /\ x.len <= Alloc(x) /\ Alloc(x) < Len(x.mem)
           /\ x.mem[x.len + 1] = Zero
<1>1. x.len = Len(w) /\ x.len \in Nat /\ x.mem \in Seq(Cell) /\ x.len < Len(x.mem) /\ Len(x.mem) \in Nat
  BY DEF Holds, Bare, Typed, RoomFor
<1>2. Content(x) = w
  <2>1. SubSeq(x.mem, 1, x.len) \in Seq(Cell) /\ Len(SubSeq(x.mem, 1, x.len)) = x.len
        /\ \A i \in 1 .. x.len : SubSeq(x.mem, 1, x.len)[i] = x.mem[i]
    BY <1>1
  <2>2. \A i \in 1 .. x.len : x.mem[i] = w[i]
    BY <1>1 DEF Holds, Bare
  <2> QED
    BY <1>1, <2>1, <2>2, SeqEqual DEF Content
<1>3. x.len <= Alloc(x) /\ Alloc(x) < Len(x.mem)
  BY <1>1 DEF Holds, Bare, RoomFor, Alloc, Typed
<1> QED
  BY <1>2, <1>3 DEF Holds

\* sdssetlen with the NUL: the string holds what stands before it.
LEMMA WithLenHolds ==
    ASSUME NEW x, Typed(x), NEW w \in Seq(Cell), RoomFor(x, Len(w)),
           \A i \in 1 .. Len(w) : x.mem[i] = w[i]
    PROVE  Holds(WithLen(x, Len(w)), w)
<1> DEFINE n == Len(w)
           mem == Put(x.mem, n, <<Zero>>)
           y == WithLen(x, n)
<1>1. /\ n \in Nat /\ x.type \in Types /\ n < Span[x.type] /\ x.mem \in Seq(Cell) /\ n < Len(x.mem)
      /\ Len(x.mem) \in Nat /\ <<Zero>> \in Seq(Cell) /\ Len(<<Zero>>) = 1 /\ <<Zero>>[1] = Zero
  BY DEF Typed, RoomFor, Cell, Byte
<1>2. /\ mem \in Seq(Cell) /\ Len(mem) = Len(x.mem)
      /\ \A i \in 1 .. Len(x.mem) : mem[i] = IF n < i /\ i <= n + 1 THEN <<Zero>>[i - n] ELSE x.mem[i]
  <2> DEFINE old == x.mem
             nul == <<Zero>>
  <2>1. old \in Seq(Cell) /\ n \in Nat /\ nul \in Seq(Cell) /\ Len(nul) = 1
    BY <1>1
  <2> HIDE DEF old, nul, n
  <2>2. /\ Put(old, n, nul) \in Seq(Cell) /\ Len(Put(old, n, nul)) = Len(old)
        /\ \A i \in 1 .. Len(old) :
              Put(old, n, nul)[i] = IF n < i /\ i <= n + Len(nul) THEN nul[i - n] ELSE old[i]
    BY <2>1, PutWrites
  <2> QED
    BY <2>1, <2>2 DEF old, nul
<1>3. Field(x.type, n) = n
  BY <1>1, FieldHolds
<1>4. y = [x EXCEPT !.len = n, !.mem = mem]
  BY <1>3 DEF WithLen
<1> HIDE DEF n, mem, y
<1>5. mem[n + 1] = Zero /\ \A i \in 1 .. n : mem[i] = x.mem[i]
  BY <1>1, <1>2
<1>6. y.type = x.type /\ y.len = n /\ y.alloc = x.alloc /\ y.mem = mem
  BY <1>4 DEF Typed
<1>7. Typed(y)
  BY <1>1, <1>2, <1>4 DEF Typed
<1>8. RoomFor(y, n)
  BY <1>2, <1>6 DEF RoomFor, n
<1>9. Holds(y, w)
  BY <1>5, <1>6, <1>7, <1>8 DEF Holds, Bare, n
<1> QED
  BY <1>9 DEF y, n

\* A string moved into a header of another type, or more memory, has the same bytes.
LEMMA MovedHolds ==
    ASSUME NEW x, NEW w \in Seq(Cell), Bare(x, w), NEW t \in Types, NEW n \in Nat,
           Len(w) <= n, n < Span[t], t = Type5 => n = Len(w)
    PROVE  /\ Bare(Moved(x, t, n), w) /\ RoomFor(Moved(x, t, n), n)
           /\ Moved(x, t, n).type = t /\ Moved(x, t, n).alloc = n
           /\ x.mem[x.len + 1] = Zero => Moved(x, t, n).mem[x.len + 1] = Zero
<1> DEFINE long == x.mem \o Unwritten(n)
           mem == SubSeq(long, 1, n + 1)
           y == Moved(x, t, n)
<1>1. /\ x.len = Len(w) /\ x.len \in Nat /\ x.mem \in Seq(Cell) /\ x.len < Len(x.mem)
      /\ Len(x.mem) \in Nat /\ \A i \in 1 .. Len(w) : x.mem[i] = w[i]
  BY DEF Bare, Typed, RoomFor
<1>2. Unwritten(n) \in Seq(Cell) /\ Len(Unwritten(n)) = n
  BY DEF Unwritten, Cell
<1>3. long \in Seq(Cell) /\ Len(long) = Len(x.mem) + n /\ \A i \in 1 .. Len(x.mem) : long[i] = x.mem[i]
  <2> DEFINE old == x.mem
             new == Unwritten(n)
  <2>1. old \in Seq(Cell) /\ new \in Seq(Cell) /\ Len(new) = n /\ Len(old) \in Nat
    BY <1>1, <1>2
  <2> HIDE DEF old, new
  <2>2. /\ old \o new \in Seq(Cell) /\ Len(old \o new) = Len(old) + Len(new)
        /\ \A i \in 1 .. Len(old) + Len(new) : (old \o new)[i] = IF i <= Len(old) THEN old[i] ELSE new[i - Len(old)]
    BY <2>1, ConcatProperties
  <2>3. \A i \in 1 .. Len(old) : (old \o new)[i] = old[i]
    BY <2>1, <2>2
  <2> QED
    BY <2>1, <2>2, <2>3 DEF old, new
<1> HIDE DEF long
<1>4. mem \in Seq(Cell) /\ Len(mem) = n + 1 /\ \A i \in 1 .. n + 1 : mem[i] = long[i]
  BY <1>1, <1>3
<1>5. Field(t, x.len) = x.len /\ Field(t, n) = n
  BY <1>1, FieldHolds, SpanFacts
<1>6. y = [type |-> t, len |-> x.len, alloc |-> n, mem |-> mem]
  BY <1>5 DEF Moved, long
<1> HIDE DEF mem, y
<1>7. y.type = t /\ y.len = x.len /\ y.alloc = n /\ y.mem = mem
  BY <1>6
<1>8. \A i \in 1 .. x.len + 1 : mem[i] = x.mem[i]
  BY <1>1, <1>3, <1>4
<1>9. Typed(y)
  BY <1>1, <1>4, <1>6, <1>7 DEF Typed
<1>10. RoomFor(y, x.len) /\ RoomFor(y, n)
  BY <1>1, <1>4, <1>7, SpanFacts DEF RoomFor
<1>11. Bare(y, w)
  BY <1>1, <1>7, <1>8, <1>9, <1>10 DEF Bare
<1> QED
  BY <1>1, <1>7, <1>8, <1>10, <1>11 DEF y
-----------------------------------------------------------------------------
(* Calls                                                                   *)

LEMMA LessRoom ==
    ASSUME NEW x, NEW n \in Nat, NEW m \in Nat, Typed(x), RoomFor(x, n), m <= n
    PROVE  RoomFor(x, m)
<1>1. x.type \in Types /\ x.alloc \in Nat /\ Len(x.mem) \in Nat /\ Span[x.type] \in Nat
  BY SpanFacts DEF Typed
<1> QED
  BY <1>1 DEF RoomFor

\* A caller of the memory behind a header changes the bytes it writes.
Wrote(x, at, data) == [x EXCEPT !.mem = Put(@, at, data)]

LEMMA Written ==
    ASSUME NEW x, Typed(x), NEW at \in Nat, NEW data \in Seq(Cell)
    PROVE  /\ Typed(Wrote(x, at, data))
           /\ Wrote(x, at, data).len = x.len /\ Wrote(x, at, data).type = x.type
           /\ Wrote(x, at, data).alloc = x.alloc /\ Len(Wrote(x, at, data).mem) = Len(x.mem)
           /\ \A n \in Nat : RoomFor(x, n) => RoomFor(Wrote(x, at, data), n)
           /\ \A i \in 1 .. Len(x.mem) :
                 Wrote(x, at, data).mem[i] = IF at < i /\ i <= at + Len(data) THEN data[i - at] ELSE x.mem[i]
<1> DEFINE old == x.mem
           mem == Put(old, at, data)
           y == Wrote(x, at, data)
<1>1. old \in Seq(Cell)
  BY DEF Typed
<1> HIDE DEF old
<1>2. /\ mem \in Seq(Cell) /\ Len(mem) = Len(old)
      /\ \A i \in 1 .. Len(old) : mem[i] = IF at < i /\ i <= at + Len(data) THEN data[i - at] ELSE old[i]
  BY <1>1, PutWrites
<1>3. y = [x EXCEPT !.mem = mem]
  BY DEF Wrote, old
<1> HIDE DEF mem, y
<1>4. Typed(y) /\ y.len = x.len /\ y.type = x.type /\ y.alloc = x.alloc /\ y.mem = mem
  BY <1>2, <1>3 DEF Typed
<1>5. \A n \in Nat : RoomFor(x, n) => RoomFor(y, n)
  BY <1>2, <1>4 DEF RoomFor, old
<1> QED
  BY <1>2, <1>4, <1>5 DEF y, old

LEMMA Sized ==
    ASSUME NEW x, Typed(x), NEW n \in Nat
    PROVE  LET y == [x EXCEPT !.len = n]
           IN  Typed(y) /\ y.len = n /\ y.mem = x.mem /\ y.type = x.type /\ y.alloc = x.alloc
BY DEF Typed

LEMMA Joined ==
    ASSUME NEW a \in Seq(Cell), NEW b \in Seq(Cell)
    PROVE  a \o b \in Seq(Cell) /\ Len(a \o b) = Len(a) + Len(b)
OBVIOUS

\* What is written behind the bytes there are follows them.
LEMMA WrittenBehind ==
    ASSUME NEW x, NEW w \in Seq(Cell), Bare(x, w), NEW data \in Seq(Cell), Len(w) + Len(data) < Len(x.mem)
    PROVE  /\ w \o data \in Seq(Cell) /\ Len(w \o data) = Len(w) + Len(data)
           /\ \A i \in 1 .. Len(w \o data) : Wrote(x, Len(w), data).mem[i] = (w \o data)[i]
<1> DEFINE n == Len(w)
           all == w \o data
           y == Wrote(x, n, data)
<1>1. n \in Nat /\ Len(data) \in Nat /\ Typed(x) /\ Len(x.mem) \in Nat /\ \A i \in 1 .. n : x.mem[i] = w[i]
  BY DEF Bare, Typed
<1>2. /\ all \in Seq(Cell) /\ Len(all) = n + Len(data)
      /\ \A i \in 1 .. n + Len(data) : all[i] = IF i <= n THEN w[i] ELSE data[i - n]
  BY ConcatProperties
<1> HIDE DEF n, all
<1>3. \A i \in 1 .. Len(x.mem) : y.mem[i] = IF n < i /\ i <= n + Len(data) THEN data[i - n] ELSE x.mem[i]
  BY <1>1, Written
<1> HIDE DEF y
<1>4. n + Len(data) < Len(x.mem)
  BY DEF n
<1>5. ASSUME NEW i \in 1 .. n + Len(data) PROVE y.mem[i] = all[i]
  <2>1. i \in 1 .. Len(x.mem) /\ i \in Int /\ 1 <= i /\ i <= n + Len(data)
    BY <1>1, <1>4
  <2>2. CASE i <= n
    <3>1. i \in 1 .. n /\ ~(n < i)
      BY <1>1, <2>1, <2>2
    <3> QED
      BY <1>1, <1>2, <1>3, <2>1, <2>2, <3>1
  <2>3. CASE ~(i <= n)
    <3>1. n < i
      BY <1>1, <2>1, <2>3
    <3> QED
      BY <1>2, <1>3, <2>1, <2>3, <3>1
  <2> QED
    BY <2>2, <2>3
<1> QED
  BY <1>2, <1>5 DEF n, all, y

\* sdsMakeRoomFor makes the room, whatever header the string had.
LEMMA RoomMade ==
    ASSUME NEW x, NEW w \in Seq(Cell), Bare(x, w), NEW add \in Nat, Len(w) + add <= Most
    PROVE  /\ Bare(MakeRoomFor(x, add), w) /\ RoomFor(MakeRoomFor(x, add), Len(w) + add)
           /\ add > 0 => MakeRoomFor(x, add).type # Type5
           /\ x.mem[x.len + 1] = Zero => MakeRoomFor(x, add).mem[x.len + 1] = Zero
<1> DEFINE need == x.len + add
           n == IF need < MaxPrealloc THEN 2 * need ELSE need + MaxPrealloc
           t == IF ReqType(n) = Type5 THEN Type8 ELSE ReqType(n)
           len == Len(w)
<1>1. /\ len \in Nat /\ x.len = len /\ x.alloc \in Nat /\ Len(x.mem) \in Nat /\ x.type \in Types
      /\ Typed(x) /\ RoomFor(x, len)
  BY DEF Bare, Typed
<1>2. n \in Nat /\ len + add <= n /\ n <= 2 * Most
  BY <1>1, SpanFacts
<1> HIDE DEF n
<1>3. t \in Types /\ n < Span[t] /\ t # Type5
  BY <1>2, ReqTypeFits, SpanFacts DEF Type5, Type8
<1> HIDE DEF t, len
<1>4. CASE Avail(x) >= add
  <2>1. MakeRoomFor(x, add) = x
    BY <1>4 DEF MakeRoomFor
  <2>2. CASE x.type = Type5
    <3>1. add = 0
      BY <1>1, <1>4, <2>2 DEF Avail, Alloc
    <3> QED
      BY <1>1, <2>1, <3>1 DEF len
  <2>3. CASE x.type # Type5
    <3>1. len + add <= x.alloc
      BY <1>1, <1>4, <2>3 DEF Avail, Alloc
    <3>2. x.alloc < Len(x.mem) /\ x.alloc < Span[x.type] /\ Span[x.type] \in Nat
      BY <1>1, <2>3, SpanFacts DEF RoomFor
    <3>3. RoomFor(x, len + add)
      BY <1>1, <2>3, <3>1, <3>2 DEF RoomFor
    <3> QED
      BY <2>1, <2>3, <3>3 DEF len
  <2> QED
    BY <2>2, <2>3
<1>5. CASE ~(Avail(x) >= add)
  <2>1. MakeRoomFor(x, add) = Moved(x, t, n)
    BY <1>5 DEF MakeRoomFor, t, n
  <2>2. Len(w) <= n
    BY <1>1, <1>2 DEF len
  <2>3. /\ Bare(Moved(x, t, n), w) /\ RoomFor(Moved(x, t, n), n) /\ Moved(x, t, n).type = t
        /\ x.mem[x.len + 1] = Zero => Moved(x, t, n).mem[x.len + 1] = Zero
    BY <1>2, <1>3, <2>2, MovedHolds
  <2>4. RoomFor(Moved(x, t, n), len + add)
    BY <1>1, <1>2, <2>3, LessRoom DEF Bare
  <2> QED
    BY <1>3, <2>1, <2>3, <2>4 DEF len
<1> QED
  BY <1>4, <1>5

\* sdscatlen.
LEMMA CatHolds ==
    ASSUME NEW x, NEW w \in Seq(Cell), Bare(x, w), NEW data \in Seq(Cell), Len(w) + Len(data) <= Most
    PROVE  Holds(Cat(x, data), w \o data)
<1> DEFINE y == MakeRoomFor(x, Len(data))
           z == Wrote(y, Len(w), data)
           all == w \o data
<1>1. Bare(y, w) /\ RoomFor(y, Len(w) + Len(data)) /\ x.len = Len(w)
  BY RoomMade DEF Bare
<1>2. Cat(x, data) = WithLen(z, Len(w) + Len(data))
  BY <1>1 DEF Cat, Wrote
<1> HIDE DEF y
<1>3. Typed(y) /\ Len(w) + Len(data) < Len(y.mem)
  BY <1>1 DEF Bare, RoomFor
<1>4. all \in Seq(Cell) /\ Len(all) = Len(w) + Len(data) /\ \A i \in 1 .. Len(all) : z.mem[i] = all[i]
  BY <1>1, <1>3, WrittenBehind
<1>5. Typed(z) /\ RoomFor(z, Len(w) + Len(data))
  BY <1>1, <1>3, Written
<1> HIDE DEF z, all
<1>6. Holds(WithLen(z, Len(all)), all)
  BY <1>4, <1>5, WithLenHolds
<1> QED
  BY <1>2, <1>4, <1>6 DEF all

\* A turn of the loop of sdscatfmt leaves the bytes, but no NUL.
LEMMA PieceBare ==
    ASSUME NEW x, NEW w \in Seq(Cell), Bare(x, w), NEW data \in Seq(Cell),
           Len(w) + Len(data) <= Most, Len(w) + 1 <= Most
    PROVE  Bare(Piece(x, data), w \o data)
<1> DEFINE n == Len(data)
           y == IF Avail(x) = 0 THEN MakeRoomFor(x, 1) ELSE x
           z == Widened(x, n)
           u == Wrote(z, Len(w), data)
           all == w \o data
           end == Piece(x, data)
<1>1. Bare(y, w) /\ y.type # Type5
  <2>1. CASE Avail(x) = 0
    BY <2>1, RoomMade
  <2>2. CASE Avail(x) # 0
    BY <2>2 DEF Avail, Alloc, Bare, Typed
  <2> QED
    BY <2>1, <2>2
<1>2. n \in Nat /\ Len(w) \in Nat
  OBVIOUS
<1>3. Bare(z, w) /\ RoomFor(z, Len(w) + n)
  <2>0. z = IF Avail(y) < n THEN MakeRoomFor(y, n) ELSE y
    BY DEF Widened
  <2> HIDE DEF y, z
  <2>1. CASE Avail(y) < n
    BY <1>1, <2>0, <2>1, RoomMade
  <2>2. CASE ~(Avail(y) < n)
    <3>1. Len(w) + n <= y.alloc
      BY <1>1, <1>2, <2>2 DEF Avail, Alloc, Bare, Typed
    <3>2. RoomFor(y, y.alloc) /\ y.alloc \in Nat /\ Typed(y)
      BY <1>1 DEF Bare, Typed, RoomFor
    <3>3. RoomFor(y, Len(w) + n)
      BY <1>2, <3>1, <3>2, LessRoom
    <3> QED
      BY <1>1, <2>0, <2>2, <3>3
  <2> QED
    BY <2>1, <2>2
<1>4. end = [z EXCEPT !.mem = Put(@, z.len, data), !.len = Field(z.type, @ + n)]
  BY DEF Piece
<1> HIDE DEF z
<1>5. z.len = Len(w) /\ Typed(z) /\ Len(w) + n < Len(z.mem) /\ Len(w) + n < Span[z.type] /\ z.type \in Types
  BY <1>3 DEF Bare, RoomFor, Typed
<1>6. all \in Seq(Cell) /\ Len(all) = Len(w) + n /\ \A i \in 1 .. Len(all) : u.mem[i] = all[i]
  BY <1>3, <1>5, WrittenBehind
<1>7. Typed(u) /\ RoomFor(u, Len(w) + n) /\ u.type = z.type
  BY <1>3, <1>5, Written
<1>8. Field(z.type, Len(w) + n) = Len(w) + n
  BY <1>2, <1>5, FieldHolds
<1>9. end = [u EXCEPT !.len = Len(w) + n]
  <2>1. end = [z EXCEPT !.mem = Put(z.mem, Len(w), data), !.len = Len(w) + n]
    BY <1>4, <1>5, <1>8
  <2> QED
    BY <1>5, <2>1 DEF Wrote, Typed
<1> HIDE DEF u, all, end
<1>10. Typed(end) /\ end.len = Len(w) + n /\ end.mem = u.mem /\ end.type = u.type /\ end.alloc = u.alloc
  <2> DEFINE m == Len(w) + n
  <2>1. m \in Nat
    BY <1>2
  <2> HIDE DEF m
  <2>2. LET v == [u EXCEPT !.len = m]
        IN  Typed(v) /\ v.len = m /\ v.mem = u.mem /\ v.type = u.type /\ v.alloc = u.alloc
    BY <1>7, <2>1, Sized
  <2> QED
    BY <1>9, <2>2 DEF m
<1>11. RoomFor(end, Len(w) + n)
  BY <1>7, <1>10 DEF RoomFor
<1>12. Bare(end, all)
  BY <1>6, <1>10, <1>11 DEF Bare
<1> QED
  BY <1>12 DEF end, all

\* sdscatfmt: the bytes of the format, the argument, and then the NUL.
LEMMA CatFmtHolds ==
    ASSUME NEW x, NEW w \in Seq(Cell), Bare(x, w), NEW first \in Cell, NEW data \in Seq(Cell),
           NEW last \in Cell, Len(w) + 1 + Len(data) + 1 <= Most
    PROVE  Holds(CatFmt(x, first, data, last), w \o <<first>> \o data \o <<last>>)
<1> DEFINE f == <<first>>
           l == <<last>>
           a == w \o f
           b == a \o data
           c == b \o l
           p == Piece(x, f)
           q == Piece(p, data)
           r == Piece(q, l)
           end == [r EXCEPT !.mem = Put(@, r.len, <<Zero>>)]
<1>1. f \in Seq(Cell) /\ Len(f) = 1 /\ l \in Seq(Cell) /\ Len(l) = 1 /\ Len(w) \in Nat /\ Len(data) \in Nat
  OBVIOUS
<1>2. CatFmt(x, first, data, last) = end
  BY DEF CatFmt
<1> HIDE DEF f, l
<1>3. a \in Seq(Cell) /\ Len(a) = Len(w) + 1
  BY <1>1, Joined
<1>4. Bare(p, a)
  <2>1. Len(w) + Len(f) <= Most /\ Len(w) + 1 <= Most
    BY <1>1, SpanFacts
  <2> QED
    BY <1>1, <2>1, PieceBare
<1> HIDE DEF a, p
<1>5. b \in Seq(Cell) /\ Len(b) = Len(w) + 1 + Len(data)
  BY <1>1, <1>3, Joined
<1>6. Bare(q, b)
  <2>1. Len(a) + Len(data) <= Most /\ Len(a) + 1 <= Most
    BY <1>1, <1>3, SpanFacts
  <2> QED
    BY <1>3, <1>4, <2>1, PieceBare
<1> HIDE DEF b, q
<1>7. c \in Seq(Cell) /\ Len(c) = Len(w) + 1 + Len(data) + 1
  BY <1>1, <1>5, Joined
<1>8. Bare(r, c)
  <2>1. Len(b) + Len(l) <= Most /\ Len(b) + 1 <= Most
    BY <1>1, <1>5, SpanFacts
  <2> QED
    BY <1>1, <1>5, <1>6, <2>1, PieceBare
<1> HIDE DEF c, r
<1>9. /\ Len(c) \in Nat /\ r.len = Len(c) /\ Typed(r) /\ RoomFor(r, Len(c)) /\ \A i \in 1 .. Len(c) : r.mem[i] = c[i]
  BY <1>7, <1>8 DEF Bare
<1>10. WithLen(r, Len(c)) = end
  <2>1. Field(r.type, Len(c)) = Len(c)
    BY <1>9, FieldHolds DEF RoomFor, Typed
  <2> QED
    BY <1>9, <2>1 DEF WithLen, Typed
<1>11. Holds(end, c)
  BY <1>7, <1>9, <1>10, WithLenHolds
<1> QED
  BY <1>2, <1>11 DEF f, l, a, b, c

\* sdscpylen.
LEMMA CopyHolds ==
    ASSUME NEW x, NEW w \in Seq(Cell), Bare(x, w), NEW data \in Seq(Cell), Len(w) <= Most, Len(data) <= Most
    PROVE  Holds(Copy(x, data), data)
<1> DEFINE n == Len(data)
           y == IF Alloc(x) < n THEN MakeRoomFor(x, n - x.len) ELSE x
           z == Wrote(y, 0, data)
<1>1. /\ n \in Nat /\ Len(w) \in Nat /\ x.len = Len(w) /\ x.alloc \in Nat /\ Typed(x)
      /\ RoomFor(x, x.len) /\ RoomFor(x, Alloc(x)) /\ Alloc(x) \in Nat /\ x.len <= Alloc(x)
  BY DEF Bare, Typed, RoomFor, Alloc
<1>2. Typed(y) /\ RoomFor(y, n)
  <2>1. CASE Alloc(x) < n
    <3>1. n - x.len \in Nat /\ Len(w) + (n - x.len) = n /\ y = MakeRoomFor(x, n - x.len)
      BY <1>1, <2>1
    <3>2. /\ Bare(MakeRoomFor(x, n - x.len), w)
          /\ RoomFor(MakeRoomFor(x, n - x.len), Len(w) + (n - x.len))
      BY <3>1, RoomMade
    <3> QED
      BY <3>1, <3>2 DEF Bare
  <2>2. CASE ~(Alloc(x) < n)
    BY <1>1, <2>2, LessRoom
  <2> QED
    BY <2>1, <2>2
<1>3. Copy(x, data) = WithLen(z, n)
  BY DEF Copy, Wrote
<1> HIDE DEF y
<1>4. n < Len(y.mem) /\ Len(y.mem) \in Nat
  BY <1>2 DEF RoomFor, Typed
<1>5. /\ Typed(z) /\ RoomFor(z, n)
      /\ \A i \in 1 .. Len(y.mem) : z.mem[i] = IF 0 < i /\ i <= 0 + n THEN data[i - 0] ELSE y.mem[i]
  <2>1. 0 \in Nat /\ Typed(y) /\ Typed(z) /\ (RoomFor(y, n) => RoomFor(z, n))
    BY <1>1, <1>2, Written
  <2>2. \A i \in 1 .. Len(y.mem) : z.mem[i] = IF 0 < i /\ i <= 0 + n THEN data[i - 0] ELSE y.mem[i]
    <3> DEFINE at == 0
    <3>1. at \in Nat
      OBVIOUS
    <3> HIDE DEF at
    <3>2. \A i \in 1 .. Len(y.mem) :
             Wrote(y, at, data).mem[i] = IF at < i /\ i <= at + n THEN data[i - at] ELSE y.mem[i]
      BY <1>2, <3>1, Written
    <3> QED
      BY <3>2 DEF at
  <2> QED
    BY <1>2, <2>1, <2>2
<1> HIDE DEF z
<1>6. \A i \in 1 .. n : z.mem[i] = data[i]
  BY <1>1, <1>4, <1>5
<1>7. Holds(WithLen(z, n), data)
  BY <1>5, <1>6, WithLenHolds
<1> QED
  BY <1>3, <1>7

\* sdsgrowzero: what was added is zero.
LEMMA GrowZeroHolds ==
    ASSUME NEW x, NEW w \in Seq(Cell), Holds(x, w), NEW n \in Nat, n > Len(w), n <= Most
    PROVE  Holds(GrowZero(x, n), w \o [i \in 1 .. n - Len(w) |-> Zero])
<1> DEFINE add == n - Len(w)
           zeros == [i \in 1 .. add |-> Zero]
           y == MakeRoomFor(x, add)
           z == Wrote(y, Len(w), zeros)
           all == w \o zeros
<1>1. add \in Nat /\ Len(w) \in Nat /\ Len(w) + add = n /\ x.len = Len(w) /\ Bare(x, w)
  BY DEF Holds, Bare
<1>2. GrowZero(x, n) = WithLen(z, n)
  BY <1>1 DEF GrowZero, Wrote
<1>3. zeros \in Seq(Cell) /\ Len(zeros) = add
  BY <1>1 DEF Cell, Byte
<1> HIDE DEF add, zeros
<1>4. Bare(y, w) /\ RoomFor(y, Len(w) + add)
  BY <1>1, RoomMade
<1> HIDE DEF y
<1>5. Typed(y) /\ Len(w) + Len(zeros) < Len(y.mem)
  BY <1>1, <1>3, <1>4 DEF Bare, RoomFor
<1>6. all \in Seq(Cell) /\ Len(all) = n /\ \A i \in 1 .. Len(all) : z.mem[i] = all[i]
  <2>1. all \in Seq(Cell) /\ Len(all) = Len(w) + Len(zeros) /\ \A i \in 1 .. Len(all) : z.mem[i] = all[i]
    <3>1. Bare(y, w) /\ zeros \in Seq(Cell) /\ Len(w) + Len(zeros) < Len(y.mem)
      BY <1>3, <1>4, <1>5
    <3> QED
      BY <3>1, WrittenBehind
  <2> QED
    BY <1>1, <1>3, <2>1
<1>7. Typed(z) /\ RoomFor(z, n)
  BY <1>1, <1>3, <1>4, <1>5, Written
<1> HIDE DEF z, all
<1>8. Holds(WithLen(z, Len(all)), all)
  BY <1>6, <1>7, WithLenHolds
<1> QED
  BY <1>2, <1>6, <1>8 DEF all, zeros, add

\* sdsRemoveFreeSpace.
LEMMA RemoveFreeSpaceHolds ==
    ASSUME NEW x, NEW w \in Seq(Cell), Holds(x, w), Len(w) <= Most
    PROVE  Holds(RemoveFreeSpace(x), w)
<1> DEFINE t == ReqType(x.len)
<1>1. Bare(x, w) /\ x.len = Len(w) /\ Len(w) \in Nat /\ x.mem[x.len + 1] = Zero
  BY DEF Holds, Bare
<1>2. t \in Types /\ Len(w) < Span[t]
  BY <1>1, ReqTypeFits, SpanFacts
<1>3. RemoveFreeSpace(x) = Moved(x, t, Len(w))
  BY <1>1 DEF RemoveFreeSpace
<1> HIDE DEF t
<1>4. Bare(Moved(x, t, Len(w)), w) /\ Moved(x, t, Len(w)).mem[x.len + 1] = Zero
  BY <1>1, <1>2, MovedHolds
<1>5. Moved(x, t, Len(w)).len = Len(w)
  BY <1>4 DEF Bare
<1> QED
  BY <1>1, <1>3, <1>4, <1>5 DEF Holds

\* sdsnewlen, sdsdup.
LEMMA NewHolds ==
    ASSUME NEW w \in Seq(Cell), Len(w) <= Most
    PROVE  Holds(New(w), w)
<1> DEFINE n == Len(w)
           t == IF n = 0 THEN Type8 ELSE ReqType(n)
           mem == Append(w, Zero)
           y == New(w)
<1>1. n \in Nat
  OBVIOUS
<1>2. t \in Types /\ n < Span[t]
  BY <1>1, ReqTypeFits, SpanFacts
<1>3. mem \in Seq(Cell) /\ Len(mem) = n + 1 /\ mem[n + 1] = Zero /\ \A i \in 1 .. n : mem[i] = w[i]
  BY DEF Cell, Byte
<1>4. y = [type |-> t, len |-> Field(t, n), alloc |-> Field(t, n), mem |-> mem]
  BY DEF New
<1> HIDE DEF t, mem, y, n
<1>5. Field(t, n) = n
  BY <1>1, <1>2, FieldHolds
<1>6. y = [type |-> t, len |-> n, alloc |-> n, mem |-> mem]
  BY <1>4, <1>5
<1>7. Typed(y) /\ y.type = t /\ y.len = n /\ y.alloc = n /\ y.mem = mem
  BY <1>1, <1>2, <1>3, <1>6 DEF Typed
<1>8. RoomFor(y, n)
  BY <1>1, <1>2, <1>3, <1>7 DEF RoomFor
<1>9. Holds(y, w)
  BY <1>3, <1>7, <1>8 DEF Holds, Bare, n
<1> QED
  BY <1>9 DEF y

\* The n bytes after the first at.
LEMMA Slices ==
    ASSUME NEW w \in Seq(Cell), NEW at \in Nat, NEW n \in Nat, at + n <= Len(w)
    PROVE  /\ SubSeq(w, at + 1, at + n) \in Seq(Cell) /\ Len(SubSeq(w, at + 1, at + n)) = n
           /\ \A i \in 1 .. n : SubSeq(w, at + 1, at + n)[i] = w[at + i]
<1> DEFINE a == at + 1
           b == at + n
<1>1. a \in Int /\ b \in Int /\ b - a + 1 = n /\ (~(a <= b) => n = 0) /\ \A i \in 1 .. n : a + i - 1 = at + i
  OBVIOUS
<1>2. \A i \in a .. b : i \in 1 .. Len(w) /\ w[i] \in Cell
  OBVIOUS
<1> HIDE DEF a, b
<1>3. /\ SubSeq(w, a, b) \in Seq(Cell) /\ Len(SubSeq(w, a, b)) = IF a <= b THEN b - a + 1 ELSE 0
      /\ \A i \in 1 .. b - a + 1 : SubSeq(w, a, b)[i] = w[a + i - 1]
  BY <1>1, <1>2, SubSeqProperties
<1>4. Len(SubSeq(w, a, b)) = n /\ \A i \in 1 .. n : SubSeq(w, a, b)[i] = w[at + i]
  BY <1>1, <1>3
<1> QED
  BY <1>3, <1>4 DEF a, b

\* A shorter length keeps the bytes before it: sdsclear, and sdsIncrLen below 0.
LEMMA ShortenedHolds ==
    ASSUME NEW x, NEW w \in Seq(Cell), Bare(x, w), NEW n \in Nat, n <= Len(w)
    PROVE  Holds(WithLen(x, n), SubSeq(w, 1, n))
<1> DEFINE part == SubSeq(w, 1, n)
<1>1. part \in Seq(Cell) /\ Len(part) = n /\ \A i \in 1 .. n : part[i] = w[i]
  OBVIOUS
<1>2. Typed(x) /\ Len(w) \in Nat /\ RoomFor(x, Len(w)) /\ \A i \in 1 .. Len(w) : x.mem[i] = w[i]
  BY DEF Bare
<1> HIDE DEF part
<1>3. RoomFor(x, Len(part))
  BY <1>1, <1>2, LessRoom
<1>4. \A i \in 1 .. Len(part) : x.mem[i] = part[i]
  BY <1>1, <1>2
<1>5. Holds(WithLen(x, Len(part)), part)
  BY <1>1, <1>2, <1>3, <1>4, WithLenHolds
<1> QED
  BY <1>1, <1>5 DEF part

\* memmove: the bytes kept are those of the string.
LEMMA KeepHolds ==
    ASSUME NEW x, NEW w \in Seq(Cell), Bare(x, w), NEW at \in Nat, NEW n \in Nat, at + n <= Len(w)
    PROVE  Holds(Keep(x, at, n), SubSeq(w, at + 1, at + n))
<1> DEFINE old == x.mem
           data == SubSeq(old, at + 1, at + n)
           part == SubSeq(w, at + 1, at + n)
           z == Wrote(x, 0, data)
<1>1. /\ Typed(x) /\ Len(w) \in Nat /\ RoomFor(x, Len(w)) /\ Len(w) < Len(old) /\ old \in Seq(Cell)
      /\ Len(old) \in Nat /\ \A i \in 1 .. Len(w) : old[i] = w[i]
  BY DEF Bare, Typed, RoomFor
<1>2. Keep(x, at, n) = WithLen(z, n)
  BY DEF Keep, Wrote
<1>3. at + n <= Len(old) /\ n <= Len(w)
  BY <1>1
<1> HIDE DEF old
<1>4. data \in Seq(Cell) /\ Len(data) = n /\ \A i \in 1 .. n : data[i] = old[at + i]
  BY <1>1, <1>3, Slices
<1>5. part \in Seq(Cell) /\ Len(part) = n /\ \A i \in 1 .. n : part[i] = w[at + i]
  BY Slices
<1> HIDE DEF data, part
<1>6. Typed(z) /\ RoomFor(z, n)
  <2>1. RoomFor(x, n)
    BY <1>1, <1>3, LessRoom
  <2>2. 0 \in Nat
    OBVIOUS
  <2> QED
    BY <1>1, <1>4, <2>1, <2>2, Written
<1>7. \A i \in 1 .. n : z.mem[i] = data[i]
  <2> DEFINE to == 0
  <2>1. to \in Nat
    OBVIOUS
  <2> HIDE DEF to
  <2>2. \A i \in 1 .. Len(x.mem) :
           Wrote(x, to, data).mem[i] = IF to < i /\ i <= to + Len(data) THEN data[i - to] ELSE x.mem[i]
    <3>1. Typed(x) /\ data \in Seq(Cell)
      BY <1>1, <1>4
    <3> QED
      BY <2>1, <3>1, Written
  <2>3. \A i \in 1 .. n : i \in 1 .. Len(x.mem) /\ to < i /\ i <= to + Len(data) /\ i - to = i
    <3>1. Len(x.mem) \in Nat /\ n <= Len(x.mem)
      BY <1>1, <1>3 DEF old
    <3> QED
      BY <1>4, <3>1 DEF to
  <2>4. z = Wrote(x, to, data)
    BY DEF to
  <2> HIDE DEF z
  <2> QED
    BY <2>2, <2>3, <2>4
<1> HIDE DEF z
<1>8. \A i \in 1 .. n : at + i \in 1 .. Len(w)
  BY <1>1
<1>9. \A i \in 1 .. n : z.mem[i] = part[i]
  BY <1>1, <1>4, <1>5, <1>7, <1>8
<1>10. Holds(WithLen(z, Len(part)), part)
  BY <1>5, <1>6, <1>9, WithLenHolds
<1> QED
  BY <1>2, <1>5, <1>10 DEF part

LEMMA MinUnique ==
    ASSUME NEW S, S \subseteq Nat, NEW m \in S, \A k \in S : m <= k
    PROVE  Min(S) = m
<1>1. Min(S) \in S /\ \A k \in S : Min(S) <= k
  BY MinIs
<1>2. Min(S) \in Nat /\ m \in Nat /\ Min(S) <= m /\ m <= Min(S)
  BY <1>1
<1> QED
  BY <1>2

\* sdsupdatelen, after the caller wrote a NUL over byte n: the length is that of the
\* bytes before the first NUL.
LEMMA UpdateLenHolds ==
    ASSUME NEW x, NEW w \in Seq(Cell), Bare(x, w), NEW n \in 1 .. Len(w)
    PROVE  LET m == Min({n} \cup {i \in DOMAIN w : w[i] = Zero})
           IN  /\ m \in 1 .. n
               /\ Holds(UpdateLen(Wrote(x, n - 1, <<Zero>>)), SubSeq(w, 1, m - 1))
<1> DEFINE S == {n} \cup {i \in DOMAIN w : w[i] = Zero}
           m == Min(S)
           nul == <<Zero>>
           at == n - 1
           y == Wrote(x, at, nul)
           T == {i \in DOMAIN y.mem : y.mem[i] = Zero}
           part == SubSeq(w, 1, m - 1)
           end == UpdateLen(y)
<1>1. /\ Typed(x) /\ Len(w) \in Nat /\ RoomFor(x, Len(w)) /\ Len(w) < Len(x.mem) /\ Len(x.mem) \in Nat
      /\ \A i \in 1 .. Len(w) : x.mem[i] = w[i]
  BY DEF Bare, Typed, RoomFor
<1>5. DOMAIN w = 1 .. Len(w)
  OBVIOUS
<1>2. n \in Nat /\ n >= 1 /\ n <= Len(w) /\ at \in Nat /\ at + 1 = n
  BY <1>1
<1>3. m \in S /\ \A k \in S : m <= k
  <2>1. S \subseteq Nat /\ n \in S
    BY <1>1, <1>2, <1>5
  <2> HIDE DEF S
  <2> QED
    BY <2>1, MinIs
<1>4. m \in Nat /\ 1 <= m /\ m <= n /\ (m = n \/ w[m] = Zero) /\ \A i \in 1 .. m - 1 : i # n /\ w[i] # Zero
  <2>1. n \in S /\ \A k \in S : k = n \/ (k \in 1 .. Len(w) /\ w[k] = Zero)
    BY <1>5
  <2>2. \A k \in 1 .. Len(w) : w[k] = Zero => k \in S
    BY <1>5
  <2> HIDE DEF S, m
  <2>3. m <= n /\ (m = n \/ (m \in 1 .. Len(w) /\ w[m] = Zero))
    BY <1>3, <2>1
  <2>4. m \in Nat /\ 1 <= m
    BY <1>2, <2>3
  <2>5. ASSUME NEW i \in 1 .. m - 1 PROVE i # n /\ w[i] # Zero
    <3>1. i \in 1 .. Len(w) /\ i < m
      BY <1>1, <1>2, <2>3, <2>4
    <3> QED
      BY <1>2, <1>3, <2>2, <2>3, <2>4, <3>1
  <2> QED
    BY <2>3, <2>4, <2>5
<1>6. nul \in Seq(Cell) /\ Len(nul) = 1 /\ nul[1] = Zero
  BY DEF Cell, Byte
<1> HIDE DEF S, m, nul, at
<1>7. /\ Typed(y) /\ Len(y.mem) = Len(x.mem) /\ RoomFor(y, Len(w))
      /\ \A i \in 1 .. Len(x.mem) : y.mem[i] = IF at < i /\ i <= at + Len(nul) THEN nul[i - at] ELSE x.mem[i]
  <2>1. Typed(x) /\ at \in Nat /\ nul \in Seq(Cell)
    BY <1>1, <1>2, <1>6
  <2>2. \A i \in 1 .. Len(x.mem) : y.mem[i] = IF at < i /\ i <= at + Len(nul) THEN nul[i - at] ELSE x.mem[i]
    BY <2>1, Written
  <2>3. Typed(y) /\ Len(y.mem) = Len(x.mem) /\ \A k \in Nat : RoomFor(x, k) => RoomFor(y, k)
    BY <2>1, Written
  <2> QED
    BY <1>1, <2>2, <2>3
<1> HIDE DEF y
<1>8. \A i \in 1 .. Len(w) : y.mem[i] = IF i = n THEN Zero ELSE w[i]
  <2>1. \A i \in 1 .. Len(w) : i \in 1 .. Len(x.mem)
    BY <1>1
  <2>2. \A i \in 1 .. Len(w) : (at < i /\ i <= at + Len(nul)) <=> i = n
    BY <1>1, <1>2, <1>6
  <2>3. n - at = 1
    BY <1>2
  <2> QED
    BY <1>1, <1>6, <1>7, <2>1, <2>2, <2>3
<1>9. Min(T) = m
  <2>1. DOMAIN y.mem = 1 .. Len(y.mem) /\ Len(y.mem) \in Nat
    BY <1>7 DEF Typed
  <2>2. T \subseteq Nat /\ T \subseteq DOMAIN y.mem /\ \A i \in T : y.mem[i] = Zero
    BY <2>1
  <2>3. m \in T
    BY <1>1, <1>2, <1>4, <1>7, <1>8, <2>1
  <2> HIDE DEF T
  <2>4. ASSUME NEW k \in T PROVE m <= k
    <3>1. SUFFICES ASSUME k < m PROVE FALSE
      BY <1>4, <2>2
    <3>2. k \in 1 .. m - 1 /\ k \in 1 .. Len(w)
      BY <1>1, <1>2, <1>4, <2>1, <2>2, <3>1
    <3> QED
      BY <1>4, <1>8, <2>2, <3>2
  <2> QED
    BY <2>2, <2>3, <2>4, MinUnique
<1> DEFINE l == m - 1
<1>10. l \in Nat /\ l <= Len(w) /\ l + 1 = m
  BY <1>2, <1>4
<1>11. end = [y EXCEPT !.len = l]
  BY <1>9 DEF UpdateLen
<1>12. part \in Seq(Cell) /\ Len(part) = l /\ \A i \in 1 .. l : part[i] = w[i]
  BY <1>10
<1> HIDE DEF l, part, end
<1>13. Typed(end) /\ end.len = l /\ end.mem = y.mem /\ end.type = y.type /\ end.alloc = y.alloc
  <2>1. LET v == [y EXCEPT !.len = l]
        IN  Typed(v) /\ v.len = l /\ v.mem = y.mem /\ v.type = y.type /\ v.alloc = y.alloc
    BY <1>7, <1>10, Sized
  <2> QED
    BY <1>11, <2>1
<1>14. RoomFor(end, l)
  <2>1. RoomFor(y, l)
    BY <1>1, <1>7, <1>10, LessRoom
  <2> QED
    BY <1>13, <2>1 DEF RoomFor
<1>15. \A i \in 1 .. l : end.mem[i] = part[i]
  <2>1. \A i \in 1 .. l : i \in 1 .. Len(w) /\ i \in 1 .. m - 1
    BY <1>1, <1>4, <1>10
  <2> QED
    BY <1>4, <1>8, <1>12, <1>13, <2>1
<1>16. end.mem[l + 1] = Zero
  BY <1>1, <1>2, <1>4, <1>8, <1>10, <1>13
<1>17. Holds(end, part)
  BY <1>12, <1>13, <1>14, <1>15, <1>16 DEF Holds, Bare
<1> QED
  BY <1>2, <1>4, <1>17 DEF end, part, l, y, at, nul, m, S

\* Index i of sdsrange, in a string of n bytes.
From(n, i) == IF i >= 0 THEN i ELSE IF n + i < 0 THEN 0 ELSE n + i

\* sdsrange keeps the bytes from one index to the other.
LEMMA CutHolds ==
    ASSUME NEW x, NEW w \in Seq(Cell), Holds(x, w), NEW start \in Int, NEW end \in Int
    PROVE  Holds(Cut(x, start, end), Slice(w, From(Len(w), start) + 1, From(Len(w), end) + 1))
<1> DEFINE n == Len(w)
           a == From(n, start)
           b == From(n, end)
           last == Min({b, n - 1})
           stop == Min({b + 1, n})
           from(i) == IF i < 0 THEN Max({x.len + i, 0}) ELSE i
<1>1. n \in Nat /\ x.len = n /\ Bare(x, w)
  BY DEF Holds, Bare
<1>2. a \in Nat /\ b \in Nat
  BY <1>1 DEF From
<1>3. from(start) = a /\ from(end) = b
  <2>1. ASSUME NEW i \in Int PROVE from(i) = From(n, i)
    <3>1. n + i \in Int
      BY <1>1
    <3>2. Max({n + i, 0}) = IF n + i >= 0 THEN n + i ELSE 0
      BY <3>1, MaxOfTwo
    <3> QED
      BY <1>1, <3>1, <3>2 DEF From
  <2> QED
    BY <2>1
<1>4. /\ last = IF b <= n - 1 THEN b ELSE n - 1
      /\ stop = IF b + 1 <= n THEN b + 1 ELSE n
  <2>1. n - 1 \in Int /\ b \in Int /\ n \in Int /\ b + 1 \in Int
    BY <1>1, <1>2
  <2> HIDE DEF n, b
  <2> QED
    BY <2>1, MinOfTwo
<1>5. Cut(x, start, end) = IF n = 0 THEN x
                           ELSE IF a > last THEN Keep(x, 0, 0) ELSE Keep(x, a, last - a + 1)
  BY <1>1, <1>3 DEF Cut
<1>6. Slice(w, a + 1, b + 1) = SubSeq(w, a + 1, stop)
  BY DEF Slice
<1> HIDE DEF a, b, last, stop
<1>7. last \in Int /\ stop \in Int /\ last + 1 = stop /\ last <= n - 1
  BY <1>1, <1>2, <1>4
<1>8. ASSUME a > last PROVE SubSeq(w, a + 1, stop) = <<>> /\ SubSeq(w, 1, 0) = <<>>
  <2>1. stop < a + 1 /\ a + 1 \in Int
    BY <1>2, <1>7, <1>8
  <2> QED
    BY <1>7, <2>1, SubSeqEmpty
<1>9. CASE n = 0
  <2>1. a > last
    BY <1>1, <1>2, <1>7, <1>9
  <2>2. w = <<>>
    BY <1>9
  <2> QED
    BY <1>5, <1>6, <1>8, <1>9, <2>1, <2>2 DEF a, b
<1>10. CASE n # 0 /\ a > last
  <2>1. Holds(Keep(x, 0, 0), SubSeq(w, 0 + 1, 0 + 0))
    <3>1. 0 \in Nat /\ 0 + 0 <= Len(w)
      BY <1>1
    <3> QED
      BY <1>1, <3>1, KeepHolds
  <2>2. 0 + 1 = 1 /\ 0 + 0 = 0
    OBVIOUS
  <2> QED
    BY <1>5, <1>6, <1>8, <1>10, <2>1, <2>2 DEF a, b
<1>11. CASE n # 0 /\ ~(a > last)
  <2> DEFINE m == last - a + 1
  <2>1. m \in Nat /\ a + m <= Len(w) /\ a + m = stop
    BY <1>1, <1>2, <1>7, <1>11
  <2>2. Cut(x, start, end) = Keep(x, a, m)
    BY <1>5, <1>11
  <2> HIDE DEF m
  <2>3. Holds(Keep(x, a, m), SubSeq(w, a + 1, a + m))
    BY <1>1, <1>2, <2>1, KeepHolds
  <2> QED
    BY <1>6, <2>1, <2>2, <2>3 DEF a, b
<1> QED
  BY <1>9, <1>10, <1>11

\* The bytes that are no blank, first to last.
Trimmed(w) ==
    LET l == SelectInSeq(w, LAMBDA b : b \in Chars)
        r == SelectLastInSeq(w, LAMBDA b : b \in Chars)
    IN  SubSeq(w, IF l = 0 THEN 1 ELSE l, r)

\* sdstrim.
LEMMA TrimHolds ==
    ASSUME NEW x, NEW w \in Seq(Byte), w \in Seq(Cell), Holds(x, w)
    PROVE  Holds(Trim(x), Trimmed(w))
<1> DEFINE n == Len(w)
           S == {i \in 1 .. n : w[i] \in Chars}
           kept == {i \in 1 .. x.len : x.mem[i] \notin {Blank, Zero}}
<1>1. n \in Nat /\ x.len = n /\ Bare(x, w) /\ \A i \in 1 .. n : x.mem[i] = w[i]
  BY DEF Holds, Bare
<1>2. \A i \in 1 .. n : w[i] \in Chars \cup {Blank, Zero}
  BY DEF Byte
<1>3. kept = S
  <2>1. \A b \in Chars \cup {Blank, Zero} : b \in Chars <=> b \notin {Blank, Zero}
    BY SdsAssumption
  <2> QED
    BY <1>1, <1>2, <2>1
<1>4. Trimmed(w) = IF S = {} THEN SubSeq(w, 1, 0) ELSE SubSeq(w, IF Min(S) = 0 THEN 1 ELSE Min(S), Max(S))
  BY DEF Trimmed, SelectInSeq, SelectLastInSeq
<1>5. Trim(x) = IF S = {} THEN Keep(x, 0, 0) ELSE Keep(x, Min(S) - 1, Max(S) - Min(S) + 1)
  BY <1>3 DEF Trim
<1>6. S \subseteq 1 .. n
  OBVIOUS
<1> HIDE DEF S
<1>7. CASE S = {}
  <2>1. Holds(Keep(x, 0, 0), SubSeq(w, 0 + 1, 0 + 0))
    <3>1. 0 \in Nat /\ 0 + 0 <= Len(w)
      BY <1>1
    <3> QED
      BY <1>1, <3>1, KeepHolds
  <2>2. 0 + 1 = 1 /\ 0 + 0 = 0
    OBVIOUS
  <2> QED
    BY <1>4, <1>5, <1>7, <2>1, <2>2
<1>8. CASE S # {}
  <2> DEFINE l == Min(S)
             r == Max(S)
             at == l - 1
             m == r - l + 1
  <2>1. l \in S /\ \A k \in S : l <= k
    <3>1. S \subseteq Nat
      BY <1>1, <1>6
    <3> QED
      BY <1>8, <3>1, MinIs
  <2>2. r \in S /\ \A k \in S : k <= r
    <3>1. S \subseteq 0 .. n
      BY <1>1, <1>6
    <3> QED
      BY <1>1, <1>8, <3>1, MaxIs
  <2> HIDE DEF l, r
  <2>3. l \in 1 .. n /\ r \in 1 .. n /\ l <= r
    BY <1>6, <2>1, <2>2
  <2>4. at \in Nat /\ m \in Nat /\ at + m <= Len(w) /\ at + 1 = l /\ at + m = r /\ l # 0
    BY <1>1, <2>3
  <2>5. Trim(x) = Keep(x, at, m) /\ Trimmed(w) = SubSeq(w, l, r)
    BY <1>4, <1>5, <1>8, <2>4 DEF l, r
  <2> HIDE DEF at, m
  <2>6. Holds(Keep(x, at, m), SubSeq(w, at + 1, at + m))
    BY <1>1, <2>4, KeepHolds
  <2> QED
    BY <2>4, <2>5, <2>6
<1> QED
  BY <1>7, <1>8

\* sdsIncrLen, after the caller wrote data into the room it made.
LEMMA IncrHolds ==
    ASSUME NEW x, NEW w \in Seq(Cell), Bare(x, w), NEW room \in Nat, Len(w) + room <= Most,
           NEW data \in Seq(Cell), Len(data) <= room
    PROVE  LET y == MakeRoomFor(x, room)
           IN  Holds(IncrLen(Wrote(y, y.len, data), Len(data)), w \o data)
<1> DEFINE y == MakeRoomFor(x, room)
           z == Wrote(y, y.len, data)
           all == w \o data
<1>1. Bare(y, w) /\ RoomFor(y, Len(w) + room)
  BY RoomMade
<1> HIDE DEF y
<1>2. Typed(y) /\ y.len = Len(w) /\ Len(w) \in Nat /\ Len(data) \in Nat
  BY <1>1 DEF Bare
<1>3. RoomFor(y, Len(w) + Len(data))
  <2>1. Len(w) + room \in Nat /\ Len(w) + Len(data) \in Nat /\ Len(w) + Len(data) <= Len(w) + room
    BY <1>2
  <2> QED
    BY <1>1, <1>2, <2>1, LessRoom
<1>4. Len(w) + Len(data) < Len(y.mem)
  BY <1>3 DEF RoomFor
<1>5. z = Wrote(y, Len(w), data)
  BY <1>2
<1> HIDE DEF z
<1>6. all \in Seq(Cell) /\ Len(all) = Len(w) + Len(data) /\ \A i \in 1 .. Len(all) : z.mem[i] = all[i]
  BY <1>1, <1>4, <1>5, WrittenBehind
<1>7. Typed(z) /\ z.len = Len(w) /\ RoomFor(z, Len(w) + Len(data))
  <2>1. Typed(z) /\ z.len = y.len
    BY <1>2, <1>5, Written
  <2>2. Len(w) + Len(data) \in Nat
    BY <1>2
  <2>3. RoomFor(z, Len(w) + Len(data))
    BY <1>2, <1>3, <1>5, <2>2, Written
  <2> QED
    BY <1>2, <2>1, <2>3
<1> HIDE DEF all
<1>8. Holds(WithLen(z, Len(all)), all)
  BY <1>6, <1>7, WithLenHolds
<1>9. IncrLen(z, Len(data)) = WithLen(z, Len(all))
  BY <1>6, <1>7 DEF IncrLen
<1> QED
  BY <1>8, <1>9 DEF all, z, y
-----------------------------------------------------------------------------
(* The invariant                                                           *)

Kept == want \in Seq(Byte) /\ Len(want) <= MaxString /\ Holds(s, want)

LEMMA DataIs ==
    ASSUME NEW data \in Bytestrings
    PROVE  data \in Seq(Byte) /\ Len(data) <= MaxArg
<1>1. PICK m \in 0 .. MaxArg : data \in [1 .. m -> Chars \cup {Blank}]
  BY DEF Bytestrings, BoundedSeq, SeqOf
<1>2. m \in Nat /\ m <= MaxArg
  BY <1>1, SpanFacts
<1>3. data = [i \in 1 .. m |-> data[i]] /\ \A i \in 1 .. m : data[i] \in Byte
  BY <1>1 DEF Byte
<1>4. [i \in 1 .. m |-> data[i]] \in Seq(Byte) /\ Len([i \in 1 .. m |-> data[i]]) = m
  BY <1>2, <1>3
<1> QED
  BY <1>2, <1>3, <1>4

LEMMA BytesAreCells ==
    ASSUME NEW w \in Seq(Byte)
    PROVE  w \in Seq(Cell)
BY DEF Cell

LEMMA BytesJoined ==
    ASSUME NEW a \in Seq(Byte), NEW b \in Seq(Byte)
    PROVE  a \o b \in Seq(Byte) /\ Len(a \o b) = Len(a) + Len(b)
OBVIOUS

LEMMA BytesCut ==
    ASSUME NEW w \in Seq(Byte), NEW a \in Nat, a >= 1, NEW b \in Int, b <= Len(w)
    PROVE  SubSeq(w, a, b) \in Seq(Byte)
<1>1. a \in Int /\ \A i \in a .. b : w[i] \in Byte
  OBVIOUS
<1> QED
  BY <1>1, SubSeqProperties

LEMMA TrimmedBytes ==
    ASSUME NEW w \in Seq(Byte)
    PROVE  Trimmed(w) \in Seq(Byte)
<1> DEFINE S == {i \in 1 .. Len(w) : w[i] \in Chars}
<1>1. Trimmed(w) = IF S = {} THEN SubSeq(w, 1, 0) ELSE SubSeq(w, IF Min(S) = 0 THEN 1 ELSE Min(S), Max(S))
  BY DEF Trimmed, SelectInSeq, SelectLastInSeq
<1>2. Len(w) \in Nat /\ S \subseteq Nat /\ S \subseteq 0 .. Len(w) /\ S \subseteq 1 .. Len(w)
  OBVIOUS
<1> HIDE DEF S
<1>3. CASE S = {}
  <2>1. 1 \in Nat /\ 1 >= 1 /\ 0 \in Int /\ 0 <= Len(w)
    BY <1>2
  <2>2. SubSeq(w, 1, 0) \in Seq(Byte)
    BY <2>1, BytesCut
  <2> QED
    BY <1>1, <1>3, <2>2
<1>4. CASE S # {}
  <2> DEFINE l == Min(S)
             r == Max(S)
  <2>1. l \in S /\ r \in S
    BY <1>2, <1>4, MinIs, MaxIs
  <2>2. l \in Nat /\ l >= 1 /\ r \in Int /\ r <= Len(w)
    <3>1. l \in 1 .. Len(w) /\ r \in 1 .. Len(w)
      BY <1>2, <2>1
    <3> HIDE DEF l, r
    <3> QED
      BY <1>2, <3>1
  <2> HIDE DEF l, r
  <2>3. SubSeq(w, l, r) \in Seq(Byte)
    BY <2>2, BytesCut
  <2> QED
    BY <1>1, <1>4, <2>2, <2>3 DEF l, r
<1> QED
  BY <1>3, <1>4

LEMMA InitKept ==
    ASSUME StringInit
    PROVE  Kept
<1>1. want = <<>> /\ s = New(want)
  BY DEF StringInit
<1>2. want \in Seq(Byte) /\ want \in Seq(Cell) /\ Len(want) = 0
  BY <1>1
<1>3. Holds(New(want), want)
  <2>1. Len(want) <= Most
    BY <1>2, SpanFacts
  <2> QED
    BY <1>2, <2>1, NewHolds
<1> QED
  BY <1>1, <1>2, <1>3, SpanFacts DEF Kept

LEMMA DoesKept ==
    ASSUME NEW x, NEW w, Does(x, w), w \in Seq(Byte), Len(w) <= MaxString => Holds(x, w)
    PROVE  Kept'
BY DEF Does, Kept, Holds, Bare, Typed, RoomFor

\* Every call keeps the bytes.
LEMMA NextKept ==
    ASSUME Kept, StringNext
    PROVE  Kept'
<1>1. /\ want \in Seq(Byte) /\ want \in Seq(Cell) /\ Len(want) \in Nat /\ Len(want) <= MaxString
      /\ Holds(s, want) /\ Bare(s, want) /\ s.len = Len(want)
  BY BytesAreCells DEF Kept, Holds, Bare
<1>2. /\ MaxString \in Nat /\ MaxArg \in Nat /\ Most = MaxString + MaxArg /\ Len(want) <= Most
      /\ MaxString <= Most /\ MaxArg <= Most
  BY <1>1, SpanFacts DEF Most
<1>3. ASSUME NEW data \in Bytestrings
      PROVE  /\ data \in Seq(Byte) /\ data \in Seq(Cell) /\ Len(data) \in Nat /\ Len(data) <= MaxArg
             /\ Len(want) + Len(data) <= Most
             /\ want \o data \in Seq(Byte) /\ Len(want \o data) = Len(want) + Len(data)
  <2>1. data \in Seq(Byte) /\ data \in Seq(Cell) /\ Len(data) <= MaxArg
    BY <1>3, DataIs, BytesAreCells
  <2> QED
    BY <1>1, <1>2, <2>1, BytesJoined
<1>4. ASSUME NEW data \in Bytestrings, Does(New(data), data) PROVE Kept'
  <2>1. Holds(New(data), data)
    BY <1>2, <1>3, <1>4, NewHolds
  <2> QED
    BY <1>3, <1>4, <2>1, DoesKept
<1>5. ASSUME NEW data \in Bytestrings, Does(Cat(s, data), want \o data) PROVE Kept'
  <2>1. Holds(Cat(s, data), want \o data)
    BY <1>1, <1>3, <1>5, CatHolds
  <2> QED
    BY <1>3, <1>5, <2>1, DoesKept
<1>6. ASSUME NEW data \in Bytestrings, Does(Copy(s, data), data) PROVE Kept'
  <2>1. Holds(Copy(s, data), data)
    BY <1>1, <1>2, <1>3, <1>6, CopyHolds
  <2> QED
    BY <1>3, <1>6, <2>1, DoesKept
<1>7. ASSUME NEW data \in Bytestrings, Does(CatFmt(s, Blank, data, Blank), want \o <<Blank>> \o data \o <<Blank>>)
      PROVE  Kept'
  <2> DEFINE one == <<Blank>>
             all == want \o one \o data \o one
  <2>1. one \in Seq(Byte) /\ Len(one) = 1
    BY DEF Byte
  <2> HIDE DEF one
  <2>2. data \in Seq(Byte) /\ data \in Seq(Cell) /\ Len(data) \in Nat
    BY <1>3, <1>7
  <2>3. want \o one \in Seq(Byte) /\ Len(want \o one) = Len(want) + 1
    BY <1>1, <2>1, BytesJoined
  <2>4. want \o one \o data \in Seq(Byte) /\ Len(want \o one \o data) = Len(want) + 1 + Len(data)
    BY <2>2, <2>3, BytesJoined
  <2>5. all \in Seq(Byte) /\ Len(all) = Len(want) + 1 + Len(data) + 1
    BY <2>1, <2>4, BytesJoined
  <2>6. ASSUME Len(all) <= MaxString PROVE Holds(CatFmt(s, Blank, data, Blank), all)
    <3>1. Len(want) + 1 + Len(data) + 1 <= Most
      BY <1>1, <1>2, <2>2, <2>5, <2>6
    <3>2. Blank \in Cell
      BY DEF Cell, Byte
    <3> QED
      BY <1>1, <2>2, <3>1, <3>2, CatFmtHolds DEF one
  <2>7. Does(CatFmt(s, Blank, data, Blank), all)
    BY <1>7 DEF one
  <2> HIDE DEF all
  <2> QED
    BY <2>5, <2>6, <2>7, DoesKept
<1>8. ASSUME NEW n \in 0 .. MaxString,
             Does(GrowZero(s, n), want \o [i \in 1 .. Max({n - Len(want), 0}) |-> Zero])
      PROVE  Kept'
  <2> DEFINE add == IF n - Len(want) >= 0 THEN n - Len(want) ELSE 0
             zeros == [i \in 1 .. add |-> Zero]
             all == want \o zeros
  <2>1. n \in Nat /\ n <= MaxString /\ Max({n - Len(want), 0}) = add /\ add \in Nat
    BY <1>1, <1>2, MaxOfTwo
  <2>2. zeros \in Seq(Byte) /\ Len(zeros) = add
    BY <2>1 DEF Byte
  <2>3. Does(GrowZero(s, n), all)
    BY <1>8, <2>1
  <2>4. all \in Seq(Byte)
    BY <1>1, <2>2, BytesJoined
  <2>5. CASE n > Len(want)
    <3>1. add = n - Len(want)
      BY <1>1, <2>1, <2>5
    <3>2. Holds(GrowZero(s, n), want \o [i \in 1 .. n - Len(want) |-> Zero])
      BY <1>1, <1>2, <2>1, <2>5, GrowZeroHolds
    <3>3. Holds(GrowZero(s, n), all)
      BY <3>1, <3>2
    <3> HIDE DEF all
    <3> QED
      BY <2>3, <2>4, <3>3, DoesKept
  <2>6. CASE ~(n > Len(want))
    <3>1. add = 0 /\ GrowZero(s, n) = s
      BY <1>1, <2>1, <2>6 DEF GrowZero
    <3>2. zeros = <<>>
      BY <2>2, <3>1
    <3>3. all = want
      BY <1>1, <3>2, ConcatEmptySeq
    <3> HIDE DEF all
    <3> QED
      BY <1>1, <2>3, <2>4, <3>1, <3>3, DoesKept
  <2> QED
    BY <2>5, <2>6
<1>9. ASSUME Does(RemoveFreeSpace(s), want) PROVE Kept'
  <2>1. Holds(RemoveFreeSpace(s), want)
    BY <1>1, <1>2, RemoveFreeSpaceHolds
  <2> QED
    BY <1>1, <1>9, <2>1, DoesKept
<1>10. ASSUME Does(New(Content(s)), want) PROVE Kept'
  <2>1. Content(s) = want
    BY <1>1, HoldsKeeps
  <2>2. Holds(New(want), want)
    BY <1>1, <1>2, NewHolds
  <2> QED
    BY <1>1, <1>10, <2>1, <2>2, DoesKept
<1>11. ASSUME NEW room \in 0 .. MaxArg, NEW data \in Bytestrings,
              LET x == MakeRoomFor(s, room)
                  y == [x EXCEPT !.mem = Put(@, x.len, data)]
              IN  Len(data) <= room /\ MayIncr(y, Len(data)) /\ Does(IncrLen(y, Len(data)), want \o data)
       PROVE  Kept'
  <2> DEFINE x == MakeRoomFor(s, room)
             y == Wrote(x, x.len, data)
  <2>1. Len(data) <= room /\ Does(IncrLen(y, Len(data)), want \o data)
    BY <1>11 DEF Wrote
  <2>2. room \in Nat /\ Len(want) + room <= Most
    BY <1>1, <1>2
  <2>3. data \in Seq(Cell) /\ want \o data \in Seq(Byte)
    BY <1>3, <1>11
  <2>4. Holds(IncrLen(y, Len(data)), want \o data)
    BY <1>1, <2>1, <2>2, <2>3, IncrHolds
  <2> HIDE DEF y
  <2> QED
    BY <2>1, <2>3, <2>4, DoesKept
<1>12. ASSUME NEW n \in 1 .. Len(want), Does(IncrLen(s, -n), SubSeq(want, 1, Len(want) - n)) PROVE Kept'
  <2> DEFINE l == Len(want) - n
  <2>1. l \in Nat /\ l <= Len(want) /\ s.len + (-n) = l /\ 1 \in Nat /\ 1 >= 1
    BY <1>1
  <2>2. IncrLen(s, -n) = WithLen(s, l)
    BY <2>1 DEF IncrLen
  <2>3. Does(IncrLen(s, -n), SubSeq(want, 1, l))
    BY <1>12
  <2> HIDE DEF l
  <2>4. Holds(WithLen(s, l), SubSeq(want, 1, l))
    BY <1>1, <2>1, ShortenedHolds
  <2>5. SubSeq(want, 1, l) \in Seq(Byte)
    BY <1>1, <2>1, BytesCut
  <2> QED
    BY <2>2, <2>3, <2>4, <2>5, DoesKept
<1>13. ASSUME NEW n \in 1 .. Len(want),
              Does(UpdateLen([s EXCEPT !.mem = Put(@, n - 1, <<Zero>>)]),
                   SubSeq(want, 1, Min({n} \cup {i \in DOMAIN want : want[i] = Zero}) - 1))
       PROVE  Kept'
  <2> DEFINE m == Min({n} \cup {i \in DOMAIN want : want[i] = Zero})
             x == UpdateLen(Wrote(s, n - 1, <<Zero>>))
             part == SubSeq(want, 1, m - 1)
  <2>1. Does(x, part)
    BY <1>13 DEF Wrote
  <2>2. m \in 1 .. n /\ Holds(x, part)
    BY <1>1, UpdateLenHolds
  <2> HIDE DEF m, x
  <2>3. part \in Seq(Byte)
    <3>1. 1 \in Nat /\ 1 >= 1 /\ m - 1 \in Int /\ m - 1 <= Len(want)
      BY <1>1, <2>2
    <3> QED
      BY <1>1, <3>1, BytesCut
  <2> HIDE DEF part
  <2> QED
    BY <2>1, <2>2, <2>3, DoesKept
<1>14. ASSUME Does(Clear(s), <<>>) PROVE Kept'
  <2>1. Holds(WithLen(s, 0), SubSeq(want, 1, 0)) /\ SubSeq(want, 1, 0) = <<>>
    <3>1. 0 \in Nat /\ 0 <= Len(want)
      BY <1>1
    <3> QED
      BY <1>1, <3>1, ShortenedHolds, SubSeqEmpty
  <2>2. Holds(Clear(s), <<>>)
    BY <2>1 DEF Clear
  <2>3. <<>> \in Seq(Byte)
    OBVIOUS
  <2> QED
    BY <1>14, <2>2, <2>3, DoesKept
<1>15. ASSUME NEW start \in -2 .. MaxString, NEW end \in -2 .. MaxString,
              LET from(i) == IF i >= 0 THEN i ELSE IF Len(want) + i < 0 THEN 0 ELSE Len(want) + i
              IN  Does(Cut(s, start, end), Slice(want, from(start) + 1, from(end) + 1))
       PROVE  Kept'
  <2> DEFINE a == From(Len(want), start)
             b == From(Len(want), end)
             part == Slice(want, a + 1, b + 1)
  <2>1. Does(Cut(s, start, end), part)
    BY <1>15 DEF From
  <2>2. start \in Int /\ end \in Int
    BY <1>2
  <2>3. Holds(Cut(s, start, end), part)
    BY <1>1, <2>2, CutHolds
  <2>4. a + 1 \in Nat /\ a + 1 >= 1 /\ b + 1 \in Int
    BY <1>1, <2>2 DEF From
  <2> HIDE DEF a, b
  <2>5. part \in Seq(Byte)
    <3> DEFINE stop == Min({b + 1, Len(want)})
    <3>1. stop \in Int /\ stop <= Len(want)
      <4>1. Min({b + 1, Len(want)}) = IF b + 1 <= Len(want) THEN b + 1 ELSE Len(want)
        BY <1>1, <2>4, MinOfTwo
      <4> QED
        BY <1>1, <2>4, <4>1
    <3> HIDE DEF stop
    <3>2. SubSeq(want, a + 1, stop) \in Seq(Byte)
      BY <1>1, <2>4, <3>1, BytesCut
    <3> QED
      BY <3>2 DEF Slice, stop
  <2> HIDE DEF part
  <2> QED
    BY <2>1, <2>3, <2>5, DoesKept
<1>16. ASSUME Does(Trim(s), Trimmed(want)) PROVE Kept'
  <2>1. Holds(Trim(s), Trimmed(want))
    BY <1>1, TrimHolds
  <2>2. Trimmed(want) \in Seq(Byte)
    BY <1>1, TrimmedBytes
  <2> QED
    BY <1>16, <2>1, <2>2, DoesKept
<1> QED
  BY <1>4, <1>5, <1>6, <1>7, <1>8, <1>9, <1>10, <1>11, <1>12, <1>13, <1>14, <1>15, <1>16 DEF StringNext, Trimmed

\* The strings of hiredis hold what the calls made of them, with a NUL behind it, and
\* their lengths fit the fields of the header they have, whatever the widths.
THEOREM StringsKept == StringSpec => []StringKept
<1>1. StringInit => Kept
  BY InitKept
<1>2. Kept /\ [StringNext]_svars => Kept'
  <2>1. ASSUME Kept, UNCHANGED svars PROVE Kept'
    BY <2>1 DEF svars, Kept, Holds, Bare, Typed, RoomFor
  <2> QED
    BY <2>1, NextKept
<1>3. Kept => StringKept
  <2> SUFFICES ASSUME Kept PROVE StringKept
    OBVIOUS
  <2>1. want \in Seq(Cell) /\ Holds(s, want)
    BY BytesAreCells DEF Kept
  <2> QED
    BY <2>1, HoldsKeeps DEF StringKept
<1> QED
  BY <1>1, <1>2, <1>3, PTL DEF StringSpec
-----------------------------------------------------------------------------
(* Commands                                                                *)

\* Lengths and counts are below this, and have at most ten figures.
Short(n) == n \in Nat /\ n <= 4294967294
Figure == {"0", "1", "2", "3", "4", "5", "6", "7", "8", "9"}

\* The powers of ten.
LEMMA PowersAre ==
    /\ Powers[1] = 1 /\ Powers[2] = 10 /\ Powers[3] = 100 /\ Powers[4] = 1000 /\ Powers[5] = 10000
    /\ Powers[6] = 100000 /\ Powers[7] = 1000000 /\ Powers[8] = 10000000 /\ Powers[9] = 100000000
    /\ Powers[10] = 1000000000
  BY DEF Powers

\* What a number of w figures is.
HasWidth(n, w) == (w = 1 \/ Powers[w] <= n) /\ (w = 10 \/ n < Powers[w + 1])

\* Every length has one width.
LEMMA WidthIs ==
    ASSUME NEW n, Short(n)
    PROVE  Width(n) \in 1 .. 10 /\ HasWidth(n, Width(n))
<1> n \in Nat
  BY DEF Short
<1>1. \E k \in 1 .. 10 : HasWidth(n, k)
  <2>1. CASE n < 10
    BY <2>1, PowersAre DEF HasWidth
  <2>2. CASE n >= 10 /\ n < 100
    <3>1. HasWidth(n, 2)
      BY <2>2, PowersAre DEF HasWidth
    <3> QED
      BY <3>1
  <2>3. CASE n >= 100 /\ n < 1000
    <3>1. HasWidth(n, 3)
      BY <2>3, PowersAre DEF HasWidth
    <3> QED
      BY <3>1
  <2>4. CASE n >= 1000 /\ n < 10000
    <3>1. HasWidth(n, 4)
      BY <2>4, PowersAre DEF HasWidth
    <3> QED
      BY <3>1
  <2>5. CASE n >= 10000 /\ n < 100000
    <3>1. HasWidth(n, 5)
      BY <2>5, PowersAre DEF HasWidth
    <3> QED
      BY <3>1
  <2>6. CASE n >= 100000 /\ n < 1000000
    <3>1. HasWidth(n, 6)
      BY <2>6, PowersAre DEF HasWidth
    <3> QED
      BY <3>1
  <2>7. CASE n >= 1000000 /\ n < 10000000
    <3>1. HasWidth(n, 7)
      BY <2>7, PowersAre DEF HasWidth
    <3> QED
      BY <3>1
  <2>8. CASE n >= 10000000 /\ n < 100000000
    <3>1. HasWidth(n, 8)
      BY <2>8, PowersAre DEF HasWidth
    <3> QED
      BY <3>1
  <2>9. CASE n >= 100000000 /\ n < 1000000000
    <3>1. HasWidth(n, 9)
      BY <2>9, PowersAre DEF HasWidth
    <3> QED
      BY <3>1
  <2>10. CASE n >= 1000000000
    <3>1. HasWidth(n, 10)
      BY <2>10, PowersAre DEF HasWidth
    <3> QED
      BY <3>1
  <2> QED
    BY <2>1, <2>2, <2>3, <2>4, <2>5, <2>6, <2>7, <2>8, <2>9, <2>10
<1>2. Width(n) = CHOOSE k \in 1 .. 10 : HasWidth(n, k)
  BY DEF Width, HasWidth
<1> QED
  BY <1>1, <1>2

\* A number has no two widths.
LEMMA OneWidth ==
    ASSUME NEW n, Short(n), NEW v \in 1 .. 10, NEW w \in 1 .. 10, HasWidth(n, v), HasWidth(n, w), v < w
    PROVE  FALSE
<1> n \in Nat
  BY DEF Short
<1>1. n < Powers[v + 1] /\ Powers[w] <= n
  BY DEF HasWidth
<1>2. Powers[v + 1] <= Powers[w]
  BY PowersAre
<1>3. Powers[v + 1] \in Int /\ Powers[w] \in Int
  BY PowersAre
<1> QED
  BY <1>1, <1>2, <1>3

\* A turn of countDigits.
LEMMA TestIs ==
    ASSUME NEW v \in Nat, v < 10000
    PROVE  Test(v) \in 1 .. 4 /\ (Test(v) = 1 \/ Powers[Test(v)] <= v) /\ v < Powers[Test(v) + 1]
<1> DEFINE Passes(k) == (k = 1 \/ Powers[k] <= v) /\ v < Powers[k + 1]
<1>1. \E k \in 1 .. 4 : Passes(k)
  <2>1. CASE v < 10
    BY <2>1, PowersAre
  <2>2. CASE v >= 10 /\ v < 100
    <3>1. Passes(2)
      BY <2>2, PowersAre
    <3> QED
      BY <3>1
  <2>3. CASE v >= 100 /\ v < 1000
    <3>1. Passes(3)
      BY <2>3, PowersAre
    <3> QED
      BY <3>1
  <2>4. CASE v >= 1000
    <3>1. Passes(4)
      BY <2>4, PowersAre
    <3> QED
      BY <3>1
  <2> QED
    BY <2>1, <2>2, <2>3, <2>4
<1>2. Test(v) = CHOOSE k \in 1 .. 4 : Passes(k)
  BY DEF Test
<1> HIDE DEF Passes
<1>3. Test(v) \in 1 .. 4 /\ Passes(Test(v))
  BY <1>1, <1>2
<1> QED
  BY <1>3 DEF Passes

\* countDigits counts the figures.
LEMMA CountsFigures ==
    ASSUME NEW n, Short(n)
    PROVE  CountDigits(n) = Width(n)
<1> n \in Nat
  BY DEF Short
<1> DEFINE Ends(t) == Left(n, t) < 10000 /\ \A u \in 0 .. t - 1 : Left(n, u) >= 10000
           turns == CHOOSE t \in 0 .. 2 : Ends(t)
<1>1. Left(n, 0) = n /\ Left(n, 1) = n \div 10000 /\ Left(n, 2) = (n \div 10000) \div 10000
  BY DEF Left
<1>2. \E t \in 0 .. 2 : Ends(t)
  <2>1. CASE n < 10000
    <3>1. Ends(0)
      BY <2>1, <1>1
    <3> QED
      BY <3>1
  <2>2. CASE n >= 10000 /\ n \div 10000 < 10000
    <3>1. Ends(1)
      BY <2>2, <1>1
    <3> QED
      BY <3>1
  <2>3. CASE n >= 10000 /\ n \div 10000 >= 10000
    <3>1. (n \div 10000) \div 10000 < 10000
      BY <2>3 DEF Short
    <3>2. Ends(2)
      BY <2>3, <3>1, <1>1
    <3> QED
      BY <3>2
  <2> QED
    BY <2>1, <2>2, <2>3
<1>3. turns \in 0 .. 2 /\ Ends(turns)
  BY <1>2
<1> DEFINE x == Left(n, turns)
           k == Test(x)
<1>4. CountDigits(n) = 4 * turns + k
  BY DEF CountDigits
<1> HIDE DEF turns
<1>5. x \in Nat /\ x < 10000
  BY <1>1, <1>3 DEF Short
<1>6. k \in 1 .. 4 /\ (k = 1 \/ Powers[k] <= x) /\ x < Powers[k + 1]
  BY <1>5, TestIs
<1>7. HasWidth(n, 4 * turns + k) /\ 4 * turns + k \in 1 .. 10
  <2>1. CASE turns = 0
    BY <2>1, <1>1, <1>6, PowersAre DEF HasWidth
  <2>2. CASE turns = 1
    <3>1. x = n \div 10000 /\ n >= 10000
      BY <2>2, <1>1, <1>3
    <3> HIDE DEF x, k
    <3>2. CASE k = 1
      <4>1. 4 * turns + k = 5 /\ Powers[5] <= n /\ n < Powers[6]
        BY <2>2, <3>1, <3>2, <1>6, PowersAre
      <4> QED
        BY <4>1 DEF HasWidth
    <3>3. CASE k = 2
      <4>1. 4 * turns + k = 6 /\ Powers[6] <= n /\ n < Powers[7]
        BY <2>2, <3>1, <3>3, <1>6, PowersAre
      <4> QED
        BY <4>1 DEF HasWidth
    <3>4. CASE k = 3
      <4>1. 4 * turns + k = 7 /\ Powers[7] <= n /\ n < Powers[8]
        BY <2>2, <3>1, <3>4, <1>6, PowersAre
      <4> QED
        BY <4>1 DEF HasWidth
    <3>5. CASE k = 4
      <4>1. 4 * turns + k = 8 /\ Powers[8] <= n /\ n < Powers[9]
        BY <2>2, <3>1, <3>5, <1>6, PowersAre
      <4> QED
        BY <4>1 DEF HasWidth
    <3> QED
      BY <1>6, <3>2, <3>3, <3>4, <3>5
  <2>3. CASE turns = 2
    <3>1. x = (n \div 10000) \div 10000 /\ n \div 10000 >= 10000
      BY <2>3, <1>1, <1>3
    <3>2. x < 100
      BY <3>1 DEF Short
    <3> HIDE DEF x, k
    <3>3. k \in {1, 2}
      BY <3>2, <1>5, <1>6, PowersAre
    <3>4. CASE k = 1
      <4>1. 4 * turns + k = 9 /\ Powers[9] <= n /\ n < Powers[10]
        BY <2>3, <3>1, <3>4, <1>6, PowersAre
      <4> QED
        BY <4>1 DEF HasWidth
    <3>5. CASE k = 2
      <4>1. 4 * turns + k = 10 /\ Powers[10] <= n
        BY <2>3, <3>1, <3>5, <1>6, PowersAre
      <4> QED
        BY <4>1 DEF HasWidth
    <3> QED
      BY <3>3, <3>4, <3>5
  <2> QED
    BY <1>3, <2>1, <2>2, <2>3
<1> HIDE DEF k, x
<1>8. 4 * turns + k = Width(n)
  <2> DEFINE d == 4 * turns + k
  <2>1. d \in 1 .. 10 /\ HasWidth(n, d)
    BY <1>7
  <2> HIDE DEF d
  <2>2. d = Width(n)
    BY <2>1, WidthIs, OneWidth
  <2> QED
    BY <2>2 DEF d
<1> QED
  BY <1>4, <1>8
\* The digits of numerals.
LEMMA FiguresAre ==
    /\ \A d \in 1 .. 10 : Figures[d] \in Figure
    /\ \A d, e \in 1 .. 10 : Figures[d] = Figures[e] => d = e
<1>1. /\ Figures[1] = "0" /\ Figures[2] = "1" /\ Figures[3] = "2" /\ Figures[4] = "3" /\ Figures[5] = "4"
      /\ Figures[6] = "5" /\ Figures[7] = "6" /\ Figures[8] = "7" /\ Figures[9] = "8" /\ Figures[10] = "9"
  BY DEF Figures
<1> QED
  BY <1>1 DEF Figure

\* The figure of n at a power of ten.
FigureAt(n, p) == (n \div Powers[p]) % 10

\* The numeral of a length, figure by figure.
LEMMA NumeralIs ==
    ASSUME NEW n, Short(n)
    PROVE  /\ Width(n) \in 1 .. 10 /\ Numeral(n) \in Seq(Figure) /\ Len(Numeral(n)) = Width(n)
           /\ \A i \in 1 .. Width(n) : Numeral(n)[i] = Figures[FigureAt(n, Width(n) - i + 1) + 1]
<1> DEFINE w == Width(n)
<1>1. w \in 1 .. 10
  BY WidthIs
<1>2. n \in Nat
  BY DEF Short
<1> HIDE DEF w
<1>3. ASSUME NEW p \in 1 .. 10 PROVE FigureAt(n, p) \in 0 .. 9
  <2>1. Powers[p] \in Nat \ {0}
    BY PowersAre
  <2>2. n \div Powers[p] \in Nat
    BY <1>2, <2>1
  <2> QED
    BY <2>2 DEF FigureAt
<1>4. Numeral(n) = [i \in 1 .. w |-> Figures[FigureAt(n, w - i + 1) + 1]]
  BY DEF Numeral, FigureAt, w
<1>5. ASSUME NEW i \in 1 .. w PROVE Figures[FigureAt(n, w - i + 1) + 1] \in Figure
  <2>1. w - i + 1 \in 1 .. 10
    BY <1>1
  <2>2. FigureAt(n, w - i + 1) + 1 \in 1 .. 10
    BY <2>1, <1>3
  <2> QED
    BY <2>2, FiguresAre
<1>6. Numeral(n) \in [1 .. w -> Figure]
  BY <1>4, <1>5
<1>7. Numeral(n) \in Seq(Figure) /\ Len(Numeral(n)) = w
  BY <1>6, <1>1
<1> QED
  BY <1>1, <1>4, <1>7 DEF w

\* A number without its last figures.
LEMMA Shorter ==
    ASSUME NEW n \in Nat, NEW p \in 1 .. 9
    PROVE  n \div Powers[p] = 10 * (n \div Powers[p + 1]) + FigureAt(n, p)
<1> USE PowersAre DEF FigureAt
<1>1. CASE p = 1
  BY <1>1
<1>2. CASE p = 2
  BY <1>2
<1>3. CASE p = 3
  BY <1>3
<1>4. CASE p = 4
  BY <1>4
<1>5. CASE p = 5
  BY <1>5
<1>6. CASE p = 6
  BY <1>6
<1>7. CASE p = 7
  BY <1>7
<1>8. CASE p = 8
  BY <1>8
<1>9. CASE p = 9
  BY <1>9
<1> QED
  BY <1>1, <1>2, <1>3, <1>4, <1>5, <1>6, <1>7, <1>8, <1>9

\* The first figure is what is left without the others.
LEMMA FirstFigure ==
    ASSUME NEW n, Short(n)
    PROVE  n \div Powers[Width(n)] = FigureAt(n, Width(n))
<1>1. Width(n) \in 1 .. 10 /\ HasWidth(n, Width(n)) /\ n \in Nat
  BY WidthIs DEF Short
<1>2. CASE Width(n) = 10
  <2>1. n \div Powers[10] < 10
    BY PowersAre DEF Short
  <2> QED
    BY <1>1, <1>2, <2>1, PowersAre DEF FigureAt
<1>3. CASE Width(n) \in 1 .. 9
  <2> DEFINE w == Width(n)
             q == n \div Powers[w]
  <2>1. w \in 1 .. 9 /\ n < Powers[w + 1]
    BY <1>1, <1>3 DEF HasWidth
  <2> HIDE DEF w
  <2>2. n \div Powers[w + 1] = 0
    BY <2>1, <1>1, PowersAre
  <2>3. n \div Powers[w] = 10 * (n \div Powers[w + 1]) + FigureAt(n, w)
    BY <2>1, <1>1, Shorter
  <2>4. Powers[w] \in Nat \ {0}
    BY <2>1, PowersAre
  <2>5. FigureAt(n, w) \in 0 .. 9
    BY <2>4, <1>1 DEF FigureAt
  <2>6. n \div Powers[w] = FigureAt(n, w)
    BY <2>2, <2>3, <2>5
  <2> QED
    BY <2>6 DEF w
<1> QED
  BY <1>1, <1>2, <1>3

\* A numeral tells its number.
LEMMA NumeralsDiffer ==
    ASSUME NEW m, Short(m), NEW n, Short(n), Numeral(m) = Numeral(n)
    PROVE  m = n
<1> DEFINE w == Width(m)
           Same(p) == p <= w => m \div Powers[p] = n \div Powers[p]
<1>1. m \in Nat /\ n \in Nat
  BY DEF Short
<1>2. w \in 1 .. 10 /\ Width(n) = w
  BY NumeralIs
<1> HIDE DEF w
<1>3. ASSUME NEW p \in 1 .. w PROVE FigureAt(m, p) = FigureAt(n, p)
  <2> DEFINE i == w - p + 1
  <2>1. i \in 1 .. w /\ w - i + 1 = p
    BY <1>2
  <2> HIDE DEF i
  <2>2. Figures[FigureAt(m, p) + 1] = Figures[FigureAt(n, p) + 1]
    BY <2>1, <1>2, NumeralIs DEF w
  <2>3. Powers[p] \in Nat \ {0}
    BY <1>2, PowersAre
  <2>4. m \div Powers[p] \in Nat /\ n \div Powers[p] \in Nat
    BY <1>1, <2>3
  <2>5. FigureAt(m, p) \in 0 .. 9 /\ FigureAt(n, p) \in 0 .. 9
    BY <2>4 DEF FigureAt
  <2>6. FigureAt(m, p) + 1 = FigureAt(n, p) + 1
    BY <2>2, <2>5, FiguresAre
  <2> QED
    BY <2>5, <2>6
<1>4. m \div Powers[w] = n \div Powers[w]
  BY <1>2, <1>3, FirstFigure DEF w
<1>5. ASSUME NEW p \in 1 .. 9, NEW q, q = p + 1, Same(q) PROVE Same(p)
  <2>1. CASE p = w
    BY <2>1, <1>4
  <2>2. CASE p < w
    <3>1. m \div Powers[p + 1] = n \div Powers[p + 1] /\ FigureAt(m, p) = FigureAt(n, p)
      BY <2>2, <1>2, <1>3, <1>5
    <3> QED
      BY <3>1, <1>1, Shorter
  <2> QED
    BY <2>1, <2>2, <1>2
<1>6. Same(10)
  BY <1>2, <1>4
<1> HIDE DEF Same
<1>7. Same(9)
  BY <1>5, <1>6
<1>8. Same(8)
  BY <1>5, <1>7
<1>9. Same(7)
  BY <1>5, <1>8
<1>10. Same(6)
  BY <1>5, <1>9
<1>11. Same(5)
  BY <1>5, <1>10
<1>12. Same(4)
  BY <1>5, <1>11
<1>13. Same(3)
  BY <1>5, <1>12
<1>14. Same(2)
  BY <1>5, <1>13
<1>15. Same(1)
  BY <1>5, <1>14
<1>16. m \div 1 = n \div 1
  BY <1>2, <1>15, PowersAre DEF Same
<1> QED
  BY <1>1, <1>16

\* What a command is made of.
Octet == Letters \cup Figure \cup {"*", "$", "\r", "\n"}

\* c holds the bytes s behind its first at ones.
Shows(c, at, str) == at + Len(str) <= Len(c) /\ \A i \in 1 .. Len(str) : c[at + i] = str[i]

\* What is written stays.
LEMMA ShowsStays ==
    ASSUME NEW B, NEW c \in Seq(B), NEW d \in Seq(B), NEW str \in Seq(B), NEW at \in Nat, Shows(c, at, str)
    PROVE  Shows(c \o d, at, str)
<1>1. Len(c \o d) = Len(c) + Len(d) /\ \A i \in 1 .. Len(c) : (c \o d)[i] = c[i]
  OBVIOUS
<1>2. Len(c) \in Nat /\ Len(d) \in Nat /\ Len(str) \in Nat
  OBVIOUS
<1> QED
  BY <1>1, <1>2 DEF Shows

\* What is appended is there.
LEMMA ShowsNext ==
    ASSUME NEW B, NEW c \in Seq(B), NEW d \in Seq(B)
    PROVE  Shows(c \o d, Len(c), d)
<1>1. Len(c \o d) = Len(c) + Len(d) /\ \A i \in 1 .. Len(d) : (c \o d)[Len(c) + i] = d[i]
  OBVIOUS
<1> QED
  BY <1>1 DEF Shows

\* A part of what is there is there.
LEMMA ShowsPart ==
    ASSUME NEW B, NEW c \in Seq(B), NEW d \in Seq(B), NEW e \in Seq(B), NEW at \in Nat, Shows(c, at, d \o e)
    PROVE  Shows(c, at, d) /\ Shows(c, at + Len(d), e)
<1>1. /\ Len(d \o e) = Len(d) + Len(e)
      /\ \A i \in 1 .. Len(d) : (d \o e)[i] = d[i]
      /\ \A i \in 1 .. Len(e) : (d \o e)[Len(d) + i] = e[i]
  OBVIOUS
<1>2. Len(c) \in Nat /\ Len(d) \in Nat /\ Len(e) \in Nat
  OBVIOUS
<1>3. Shows(c, at, d)
  BY <1>1, <1>2 DEF Shows
<1>4. ASSUME NEW i \in 1 .. Len(e) PROVE c[at + Len(d) + i] = e[i]
  <2>1. Len(d) + i \in 1 .. Len(d \o e) /\ at + (Len(d) + i) = at + Len(d) + i
    BY <1>1, <1>2
  <2>2. c[at + (Len(d) + i)] = (d \o e)[Len(d) + i]
    BY <2>1 DEF Shows
  <2> QED
    BY <2>1, <2>2, <1>1
<1> QED
  BY <1>1, <1>2, <1>3, <1>4 DEF Shows

\* Two sequences in one.
LEMMA InOne ==
    ASSUME NEW B, NEW str \in Seq(B), NEW t \in Seq(B)
    PROVE  /\ str \o t \in Seq(B) /\ Len(str \o t) = Len(str) + Len(t)
           /\ \A i \in 1 .. Len(str) : (str \o t)[i] = str[i]
           /\ \A i \in 1 .. Len(t) : (str \o t)[Len(str) + i] = t[i]
  OBVIOUS

\* A line that begins with a mark and has a number.
Line(mark, n) == <<mark>> \o Numeral(n) \o CrLf

\* Where the mark, the figures and the CR of such a line are.
LEMMA LineIs ==
    ASSUME NEW n, Short(n), NEW mark \in {"*", "$"}
    PROVE  /\ Line(mark, n) \in Seq(Octet) /\ Len(Line(mark, n)) = Width(n) + 3 /\ Width(n) \in 1 .. 10
           /\ Line(mark, n)[1] = mark
           /\ \A i \in 1 .. Width(n) : Line(mark, n)[i + 1] = Numeral(n)[i] /\ Numeral(n)[i] \in Figure
           /\ Line(mark, n)[Width(n) + 2] = "\r"
<1>1. /\ Width(n) \in 1 .. 10 /\ Numeral(n) \in Seq(Figure) /\ Len(Numeral(n)) = Width(n)
  BY NumeralIs
<1>2. <<mark>> \in Seq(Octet) /\ Numeral(n) \in Seq(Octet) /\ CrLf \in Seq(Octet) /\ Len(CrLf) = 2 /\ CrLf[1] = "\r"
  BY <1>1 DEF Octet, CrLf
<1> DEFINE str == <<mark>> \o Numeral(n)
<1>3. /\ str \in Seq(Octet) /\ Len(str) = 1 + Width(n) /\ str[1] = mark
      /\ \A i \in 1 .. Width(n) : str[i + 1] = Numeral(n)[i]
  <2> DEFINE one == <<mark>>
  <2>1. one \in Seq(Octet) /\ Len(one) = 1 /\ one[1] = mark
    BY <1>2
  <2>2. str = one \o Numeral(n) /\ Numeral(n) \in Seq(Octet)
    BY <1>2
  <2> HIDE DEF one, str
  <2>3. /\ str \in Seq(Octet) /\ Len(str) = Len(one) + Len(Numeral(n))
        /\ \A i \in 1 .. Len(one) : str[i] = one[i]
        /\ \A i \in 1 .. Len(Numeral(n)) : str[Len(one) + i] = Numeral(n)[i]
    <3> DEFINE two == one \o Numeral(n)
    <3>1. /\ two \in Seq(Octet) /\ Len(two) = Len(one) + Len(Numeral(n))
          /\ \A i \in 1 .. Len(one) : two[i] = one[i]
          /\ \A i \in 1 .. Len(Numeral(n)) : two[Len(one) + i] = Numeral(n)[i]
      <4>1. one \in Seq(Octet) /\ Numeral(n) \in Seq(Octet)
        BY <2>1, <2>2
      <4> QED
        BY <4>1, InOne
    <3>2. str = two
      BY <2>2
    <3> HIDE DEF two
    <3> QED
      BY <3>1, <3>2
  <2>4. str[1] = mark
    BY <2>1, <2>3
  <2>5. ASSUME NEW i \in 1 .. Width(n) PROVE str[i + 1] = Numeral(n)[i]
    <3>1. Len(one) + i = i + 1
      BY <2>1, <1>1
    <3> QED
      BY <3>1, <2>3, <1>1
  <2> QED
    BY <2>1, <2>3, <2>4, <2>5, <1>1
<1> HIDE DEF str
<1>4. /\ str \o CrLf \in Seq(Octet) /\ Len(str \o CrLf) = Len(str) + Len(CrLf)
      /\ \A i \in 1 .. Len(str) : (str \o CrLf)[i] = str[i]
      /\ \A i \in 1 .. Len(CrLf) : (str \o CrLf)[Len(str) + i] = CrLf[i]
  <2>1. str \in Seq(Octet) /\ CrLf \in Seq(Octet)
    BY <1>2, <1>3
  <2> QED
    BY <2>1, InOne
<1> HIDE DEF CrLf
<1>5. (\A i \in 1 .. Width(n) + 1 : (str \o CrLf)[i] = str[i]) /\ (str \o CrLf)[Width(n) + 2] = "\r"
  <2> DEFINE c == str \o CrLf
  <2>1. 1 \in 1 .. Len(CrLf) /\ Len(str) + 1 = Width(n) + 2 /\ Len(str) = Width(n) + 1
    BY <1>1, <1>2, <1>3
  <2>2. \A i \in 1 .. Width(n) + 1 : c[i] = str[i]
    BY <2>1, <1>4
  <2>3. c[Len(str) + 1] = CrLf[1]
    BY <2>1, <1>4
  <2> QED
    BY <2>1, <2>2, <2>3, <1>2
<1>6. ASSUME NEW i \in 1 .. Width(n) PROVE (str \o CrLf)[i + 1] = Numeral(n)[i] /\ Numeral(n)[i] \in Figure
  BY <1>1, <1>3, <1>5
<1>7. (str \o CrLf)[1] = mark
  BY <1>1, <1>3, <1>5
<1>8. Line(mark, n) = str \o CrLf /\ Len(str \o CrLf) = Width(n) + 3
  BY <1>1, <1>2, <1>3, <1>4 DEF Line, str
<1> QED
  BY <1>1, <1>4, <1>5, <1>6, <1>7, <1>8

\* An argument as the protocol has it.
LEMMA BulkIs ==
    ASSUME NEW arg \in Seq(Letters), Short(Len(arg))
    PROVE  /\ Bulk(arg) \in Seq(Octet) /\ Len(Bulk(arg)) = BulkLen(Len(arg))
           /\ Bulk(arg) = Line("$", Len(arg)) \o (arg \o CrLf)
           /\ BulkLen(Len(arg)) = Width(Len(arg)) + 3 + Len(arg) + 2
           /\ BulkLen(Len(arg)) \in Nat
<1> DEFINE line == Line("$", Len(arg))
<1>1. line \in Seq(Octet) /\ Len(line) = Width(Len(arg)) + 3 /\ Width(Len(arg)) \in 1 .. 10
  BY LineIs
<1>2. arg \in Seq(Octet) /\ CrLf \in Seq(Octet) /\ Len(CrLf) = 2 /\ Len(arg) \in Nat
  BY DEF Octet, CrLf
<1>3. Bulk(arg) = line \o arg \o CrLf
  BY DEF Bulk, Line
<1> HIDE DEF line
<1>4. line \o arg \o CrLf = line \o (arg \o CrLf)
  BY <1>1, <1>2, ConcatAssociative
<1>5. Bulk(arg) \in Seq(Octet) /\ Len(Bulk(arg)) = Width(Len(arg)) + 3 + Len(arg) + 2
  <2> DEFINE str == line \o arg
  <2>1. str \in Seq(Octet) /\ Len(str) = Len(line) + Len(arg)
    BY <1>1, <1>2, InOne
  <2> HIDE DEF str
  <2>2. str \o CrLf \in Seq(Octet) /\ Len(str \o CrLf) = Len(str) + Len(CrLf)
    BY <1>2, <2>1, InOne
  <2> QED
    BY <1>1, <1>2, <1>3, <2>1, <2>2 DEF str
<1>6. BulkLen(Len(arg)) = Width(Len(arg)) + 3 + Len(arg) + 2 /\ BulkLen(Len(arg)) \in Nat
  BY <1>1, <1>2, CountsFigures DEF BulkLen
<1> QED
  BY <1>1, <1>2, <1>3, <1>4, <1>5, <1>6 DEF line

\* The length computed for the first line is its length.
LEMMA FirstLineIs ==
    ASSUME NEW n, Short(n)
    PROVE  FirstLine(n) = Line("*", n) /\ Len(FirstLine(n)) = FirstLineLen(n) /\ FirstLineLen(n) = Width(n) + 3
<1>1. Width(n) \in 1 .. 10 /\ Len(Line("*", n)) = Width(n) + 3
  BY LineIs
<1> QED
  BY <1>1, CountsFigures DEF FirstLine, FirstLineLen, Line

\* Every number a command has is short.
LEMMA BoundsShort ==
    ASSUME FormatAssumption
    PROVE  MaxSize + MaxCount \in Nat /\ \A m \in 0 .. MaxSize + MaxCount : Short(m)
  BY DEF FormatAssumption, Short, IntMax

\* The server finds the end of a line and the number in it.
LEMMA LineRead ==
    ASSUME FormatAssumption, Sent \in Seq(Octet), pos \in Nat, NEW n \in 0 .. MaxSize + MaxCount,
           NEW mark \in {"*", "$"}, Shows(Sent, pos, Line(mark, n))
    PROVE  LineEnd = pos + Width(n) + 2 /\ NumberRead = n
<1>1. Short(n) /\ \A m \in 0 .. MaxSize + MaxCount : Short(m)
  BY BoundsShort
<1> DEFINE w == Width(n)
           Ends == {i \in pos + 1 .. Len(Sent) : Sent[i] = "\r"}
<1>2. /\ w \in 1 .. 10 /\ Len(Line(mark, n)) = w + 3 /\ Line(mark, n)[1] = mark
      /\ \A i \in 1 .. w : Line(mark, n)[i + 1] = Numeral(n)[i] /\ Numeral(n)[i] \in Figure
      /\ Line(mark, n)[w + 2] = "\r"
  BY <1>1, LineIs
<1>3. Numeral(n) \in Seq(Figure) /\ Len(Numeral(n)) = w
  BY <1>1, NumeralIs
<1>4. pos + w + 3 <= Len(Sent) /\ Len(Sent) \in Nat
  <2>1. pos + Len(Line(mark, n)) <= Len(Sent) /\ Len(Sent) \in Nat
    BY DEF Shows
  <2>2. Len(Line(mark, n)) = w + 3 /\ w \in Nat
    BY <1>2
  <2> HIDE DEF w
  <2> QED
    BY <2>1, <2>2
<1> HIDE DEF w
<1>5. ASSUME NEW i \in 1 .. w + 3 PROVE Sent[pos + i] = Line(mark, n)[i]
  BY <1>2 DEF Shows
<1>6. pos + w + 2 \in Ends
  <2>1. w + 2 \in 1 .. w + 3 /\ pos + (w + 2) = pos + w + 2 /\ pos + w + 2 \in pos + 1 .. Len(Sent)
    BY <1>2, <1>4
  <2>2. Sent[pos + (w + 2)] = "\r"
    BY <2>1, <1>2, <1>5
  <2> QED
    BY <2>1, <2>2
<1>7. ASSUME NEW i \in Ends PROVE i >= pos + w + 2
  <2>1. SUFFICES ASSUME i < pos + w + 2 PROVE FALSE
    BY <1>2, <1>4
  <2>2. CASE i = pos + 1
    <3>1. Sent[pos + 1] = mark
      BY <1>2, <1>5
    <3> QED
      BY <2>2, <3>1
  <2>3. CASE i > pos + 1
    <3> DEFINE k == i - pos - 1
    <3>1. k \in 1 .. w /\ k + 1 \in 1 .. w + 3 /\ pos + (k + 1) = i
      BY <2>1, <2>3, <1>2, <1>4
    <3> HIDE DEF k
    <3>2. Sent[i] \in Figure
      BY <3>1, <1>2, <1>5
    <3>3. Sent[i] = "\r"
      OBVIOUS
    <3> QED
      BY <3>2, <3>3 DEF Figure
  <2> QED
    BY <2>2, <2>3, <1>4
<1>8. LineEnd = pos + w + 2
  <2>1. Ends \subseteq Nat /\ Ends # {}
    BY <1>6, <1>4
  <2>2. LineEnd = Min(Ends)
    BY DEF LineEnd
  <2> HIDE DEF Ends
  <2>3. Min(Ends) \in Nat /\ Min(Ends) <= pos + w + 2 /\ Min(Ends) >= pos + w + 2
    BY <2>1, MinIs, <1>6, <1>7
  <2> QED
    BY <2>1, <2>2, <2>3, <1>2
<1>9. SubSeq(Sent, pos + 2, LineEnd - 1) = Numeral(n)
  <2> DEFINE t == SubSeq(Sent, pos + 2, pos + w + 1)
  <2>1. LineEnd - 1 = pos + w + 1
    BY <1>8, <1>2
  <2>2. Len(t) = w /\ t \in Seq(Octet) /\ \A i \in 1 .. w : t[i] = Sent[pos + 2 + i - 1]
    <3>1. /\ pos + 2 \in Int /\ pos + w + 1 \in Int /\ (pos + w + 1) - (pos + 2) + 1 = w /\ pos + 2 <= pos + w + 1
          /\ \A i \in pos + 2 .. pos + w + 1 : Sent[i] \in Octet
      BY <1>2, <1>4
    <3> QED
      BY <3>1, SubSeqProperties
  <2>3. ASSUME NEW i \in 1 .. w PROVE t[i] = Numeral(n)[i]
    <3>1. pos + 2 + i - 1 = pos + (i + 1) /\ i + 1 \in 1 .. w + 3
      BY <1>2
    <3> HIDE DEF t
    <3> QED
      BY <3>1, <2>2, <1>2, <1>5
  <2> HIDE DEF t
  <2>4. t = Numeral(n)
    <3>1. Numeral(n) \in Seq(Octet)
      BY <1>3 DEF Octet
    <3> QED
      BY <3>1, <2>2, <2>3, <1>3, SeqEqual
  <2> QED
    BY <2>1, <2>4 DEF t
<1>10. NumberRead = n
  <2> DEFINE Is(m) == Numeral(m) = SubSeq(Sent, pos + 2, LineEnd - 1)
  <2>1. Is(n)
    BY <1>9
  <2>2. ASSUME NEW m \in 0 .. MaxSize + MaxCount, Is(m) PROVE m = n
    BY <2>1, <2>2, <1>1, NumeralsDiffer
  <2>3. NumberRead = CHOOSE m \in 0 .. MaxSize + MaxCount : Is(m)
    BY DEF NumberRead
  <2> HIDE DEF Is
  <2> QED
    BY <2>1, <2>2, <2>3
<1> QED
  BY <1>8, <1>10 DEF w

\* An argument vector of short arguments.
ShortVector(a) == a \in Seq(Seq(Letters)) /\ Len(a) <= MaxCount /\ \A k \in 1 .. Len(a) : Len(a[k]) <= MaxSize

\* P[i] is the length of the first i arguments of a as the protocol has them.
Sums(P, a, k) == P \in [0 .. k -> Nat] /\ P[0] = 0 /\ \A i \in 1 .. k : P[i] = P[i - 1] + BulkLen(Len(a[i]))

\* Lengths and counts of an argument vector are among the numbers a command has.
LEMMA VectorShort ==
    ASSUME FormatAssumption, NEW a, ShortVector(a)
    PROVE  /\ Len(a) \in 0 .. MaxSize + MaxCount /\ Short(Len(a))
           /\ \A k \in 1 .. Len(a) :
                 a[k] \in Seq(Letters) /\ Len(a[k]) \in 0 .. MaxSize + MaxCount /\ Short(Len(a[k]))
<1>1. MaxSize \in Nat /\ MaxCount \in Nat
  BY DEF FormatAssumption
<1>2. Len(a) \in 0 .. MaxSize + MaxCount
  BY <1>1 DEF ShortVector
<1>3. ASSUME NEW k \in 1 .. Len(a) PROVE a[k] \in Seq(Letters) /\ Len(a[k]) \in 0 .. MaxSize + MaxCount
  BY <1>1 DEF ShortVector
<1> QED
  BY <1>2, <1>3, BoundsShort

\* An argument more, of a length as it is computed.
LEMMA SumsNext ==
    ASSUME NEW P, NEW a, NEW b, NEW k \in Nat, NEW n, n = k + 1, Sums(P, a, k),
           \A i \in 1 .. k : b[i] = a[i], BulkLen(Len(b[n])) \in Nat
    PROVE  \E Q : Sums(Q, b, n) /\ Q[n] = P[k] + BulkLen(Len(b[n]))
<1> DEFINE Q == [i \in 0 .. n |-> IF i = n THEN P[k] + BulkLen(Len(b[n])) ELSE P[i]]
<1>1. P[k] \in Nat /\ \A i \in 0 .. k : P[i] \in Nat
  BY DEF Sums
<1>2. Q \in [0 .. n -> Nat] /\ Q[0] = 0 /\ Q[n] = P[k] + BulkLen(Len(b[n]))
  BY <1>1 DEF Sums
<1>3. ASSUME NEW i \in 1 .. n PROVE Q[i] = Q[i - 1] + BulkLen(Len(b[i]))
  <2>1. CASE i = n
    <3>1. Q[i] = P[k] + BulkLen(Len(b[i])) /\ Q[i - 1] = P[k]
      BY <2>1
    <3> QED
      BY <3>1
  <2>2. CASE i \in 1 .. k
    <3>1. Q[i] = P[i] /\ Q[i - 1] = P[i - 1] /\ b[i] = a[i]
      BY <2>2
    <3>2. P[i] = P[i - 1] + BulkLen(Len(a[i]))
      BY <2>2 DEF Sums
    <3> QED
      BY <3>1, <3>2
  <2> QED
    BY <2>1, <2>2
<1> HIDE DEF Q
<1>4. Sums(Q, b, n)
  BY <1>2, <1>3 DEF Sums
<1> QED
  BY <1>2, <1>4

\* Nothing is read.
Unread == pos = 0 /\ count = 0 /\ taken = <<>>

\* What is there before a call and after it.
IdleInv == stage = "idle" =>
    /\ argv = <<>> /\ cur = <<>> /\ touched = FALSE /\ totlen = 0 /\ cmd = <<>> /\ turn = 0
    /\ words = <<>> /\ spaced = TRUE /\ Unread

\* While a format is read the arguments are its words, the last one perhaps not complete,
\* and their length is known.
FormatInv == stage = "format" =>
    /\ words = (IF touched THEN Append(argv, cur) ELSE argv) /\ spaced = ~touched
    /\ touched => Len(argv) < MaxCount
    /\ ~touched => cur = <<>>
    /\ \E P : Sums(P, argv, Len(argv)) /\ totlen = P[Len(argv)]
    /\ turn = 0 /\ Unread

\* While arguments are counted the length of those before turn is.
CountInv == stage = "count" =>
    /\ words = argv /\ turn \in 0 .. Len(argv) /\ Unread
    /\ \E P : Sums(P, argv, turn) /\ totlen = FirstLineLen(Len(argv)) + P[turn]

\* How far the server has read.
Read(P) ==
    \/ Unread
    \/ /\ stage = "built" /\ count = Len(argv) /\ Len(taken) \in 0 .. count /\ taken = SubSeq(argv, 1, Len(taken))
       /\ pos = FirstLineLen(Len(argv)) + P[Len(taken)]

\* While a command is built its first line and the arguments before turn are where the
\* lengths say.
BuildInv == stage \in {"build", "built"} =>
    /\ words = argv /\ turn \in 0 .. Len(argv) /\ cmd \in Seq(Octet)
    /\ Shows(cmd, 0, FirstLine(Len(argv)))
    /\ stage = "built" => turn = Len(argv)
    /\ \E P : /\ Sums(P, argv, Len(argv)) /\ totlen = FirstLineLen(Len(argv)) + P[Len(argv)]
              /\ Len(cmd) = FirstLineLen(Len(argv)) + P[turn]
              /\ \A k \in 1 .. turn : Shows(cmd, FirstLineLen(Len(argv)) + P[k - 1], Bulk(argv[k]))
              /\ Read(P)

\* The types, and the inductive invariant.
FormatTyped ==
    /\ stage \in {"idle", "format", "count", "build", "built"} /\ ShortVector(argv)
    /\ cur \in Seq(Letters) /\ Len(cur) <= MaxSize /\ touched \in BOOLEAN

CommandInv == FormatTyped /\ IdleInv /\ FormatInv /\ CountInv /\ BuildInv

\* The empty command.
LEMMA NoneYet ==
    ASSUME FormatAssumption
    PROVE  /\ ShortVector(<<>>) /\ <<>> \in Seq(Letters) /\ Len(<<>>) = 0 /\ MaxSize \in Nat /\ MaxCount \in Nat
           /\ \A a : \E P : Sums(P, a, 0) /\ P[0] = 0
<1>1. MaxSize \in Nat /\ MaxCount \in Nat
  BY DEF FormatAssumption
<1>2. ASSUME NEW a PROVE Sums([i \in 0 .. 0 |-> 0], a, 0) /\ [i \in 0 .. 0 |-> 0][0] = 0
  BY DEF Sums
<1> QED
  BY <1>1, <1>2 DEF ShortVector

\* The invariant holds at first,
LEMMA CommandInit == ASSUME FormatAssumption, FormatInit PROVE CommandInv
<1>1. /\ stage = "idle" /\ argv = <<>> /\ cur = <<>> /\ touched = FALSE /\ totlen = 0 /\ cmd = <<>>
      /\ turn = 0 /\ words = <<>> /\ spaced = TRUE /\ pos = 0 /\ count = 0 /\ taken = <<>>
  BY DEF FormatInit
<1>2. FormatTyped
  <2>1. ShortVector(<<>>) /\ <<>> \in Seq(Letters) /\ Len(<<>>) = 0 /\ MaxSize \in Nat
    BY NoneYet
  <2>2. Len(<<>>) <= MaxSize
    BY <2>1
  <2>3. ShortVector(argv)
    BY <1>1, <2>1 DEF ShortVector
  <2> QED
    BY <1>1, <2>1, <2>2, <2>3 DEF FormatTyped
<1>3. IdleInv
  BY <1>1 DEF IdleInv, Unread
<1>4. FormatInv /\ CountInv /\ BuildInv
  BY <1>1 DEF FormatInv, CountInv, BuildInv
<1> QED
  BY <1>2, <1>3, <1>4 DEF CommandInv

\* and when a call has ended, with an error or with its command freed.
LEMMA CommandForgotten == ASSUME FormatAssumption, Forgotten PROVE CommandInv'
<1>1. /\ stage' = "idle" /\ argv' = <<>> /\ cur' = <<>> /\ touched' = FALSE /\ totlen' = 0 /\ cmd' = <<>>
      /\ turn' = 0 /\ words' = <<>> /\ spaced' = TRUE /\ pos' = 0 /\ count' = 0 /\ taken' = <<>>
  BY DEF Forgotten
<1>2. FormatTyped'
  <2>1. ShortVector(<<>>) /\ <<>> \in Seq(Letters) /\ Len(<<>>) = 0 /\ MaxSize \in Nat
    BY NoneYet
  <2>2. Len(<<>>) <= MaxSize
    BY <2>1
  <2>3. ShortVector(argv)'
    BY <1>1, <2>1 DEF ShortVector
  <2> QED
    BY <1>1, <2>1, <2>2, <2>3 DEF FormatTyped
<1>3. IdleInv'
  BY <1>1 DEF IdleInv, Unread
<1>4. FormatInv' /\ CountInv' /\ BuildInv'
  BY <1>1 DEF FormatInv, CountInv, BuildInv
<1> QED
  BY <1>2, <1>3, <1>4 DEF CommandInv

\* A format is begun.
LEMMA CommandBegins == ASSUME FormatAssumption, CommandInv, Format PROVE CommandInv'
<1>1. /\ stage = "idle" /\ stage' = "format" /\ argv' = argv /\ cur' = cur /\ touched' = touched /\ totlen' = totlen
      /\ turn' = turn /\ words' = words /\ spaced' = spaced /\ pos' = pos /\ count' = count /\ taken' = taken
  BY DEF Format, locals, server
<1>2. FormatTyped' /\ IdleInv' /\ CountInv' /\ BuildInv'
  BY <1>1 DEF CommandInv, FormatTyped, IdleInv, CountInv, BuildInv, ShortVector
<1>3. FormatInv'
  <2>1. \E P : Sums(P, argv', 0) /\ P[0] = 0
    BY NoneYet
  <2>2. /\ argv' = <<>> /\ cur' = <<>> /\ touched' = FALSE /\ totlen' = 0 /\ turn' = 0 /\ words' = <<>>
        /\ spaced' = TRUE /\ Unread'
    BY <1>1 DEF CommandInv, IdleInv, Unread
  <2> QED
    BY <2>1, <2>2, NoneYet DEF FormatInv
<1> QED
  BY <1>2, <1>3 DEF CommandInv

\* An argument is appended to a vector.
LEMMA ArgumentMore ==
    ASSUME FormatAssumption, NEW a, ShortVector(a), NEW c \in Seq(Letters), Len(c) <= MaxSize, Len(a) < MaxCount,
           NEW P, Sums(P, a, Len(a))
    PROVE  /\ ShortVector(Append(a, c)) /\ Len(Append(a, c)) = Len(a) + 1
           /\ \E Q : Sums(Q, Append(a, c), Len(Append(a, c))) /\ Q[Len(Append(a, c))] = P[Len(a)] + BulkLen(Len(c))
<1> DEFINE b == Append(a, c)
<1>1. a \in Seq(Seq(Letters)) /\ MaxCount \in Nat /\ MaxSize \in Nat
  BY NoneYet DEF ShortVector
<1>2. /\ b \in Seq(Seq(Letters)) /\ Len(b) = Len(a) + 1 /\ Len(a) \in Nat
      /\ b[Len(a) + 1] = c /\ \A i \in 1 .. Len(a) : b[i] = a[i]
  BY <1>1
<1> HIDE DEF b
<1>3. ShortVector(b)
  <2>1. ASSUME NEW k \in 1 .. Len(b) PROVE Len(b[k]) <= MaxSize
    <3>1. CASE k = Len(a) + 1
      BY <3>1, <1>2
    <3>2. CASE k \in 1 .. Len(a)
      BY <3>2, <1>2 DEF ShortVector
    <3> QED
      BY <3>1, <3>2, <1>2
  <2> QED
    BY <2>1, <1>1, <1>2 DEF ShortVector
<1>4. Len(a) + 1 \in 1 .. Len(b) /\ Short(Len(b[Len(a) + 1])) /\ b[Len(a) + 1] \in Seq(Letters)
  BY <1>2, <1>3, VectorShort
<1>5. BulkLen(Len(b[Len(a) + 1])) \in Nat
  BY <1>4, BulkIs
<1>6. \E Q : Sums(Q, b, Len(b)) /\ Q[Len(b)] = P[Len(a)] + BulkLen(Len(b[Len(b)]))
  <2> DEFINE k == Len(a)
             n == Len(b)
  <2>1. k \in Nat /\ n = k + 1 /\ Sums(P, a, k) /\ \A i \in 1 .. k : b[i] = a[i]
    BY <1>2
  <2>2. BulkLen(Len(b[n])) \in Nat
    BY <1>2, <1>5
  <2> HIDE DEF k, n
  <2>3. \E Q : Sums(Q, b, n) /\ Q[n] = P[k] + BulkLen(Len(b[n]))
    BY <2>1, <2>2, SumsNext
  <2> QED
    BY <2>3 DEF k, n
<1> QED
  BY <1>2, <1>3, <1>6 DEF b

\* A space ends an argument, if there is one.
LEMMA CommandSpace == ASSUME FormatAssumption, CommandInv, SpaceRead PROVE CommandInv'
<1>1. /\ stage = "format" /\ stage' = stage /\ turn' = turn /\ words' = words /\ spaced' = TRUE
      /\ pos' = pos /\ count' = count /\ taken' = taken
  BY DEF SpaceRead, server
<1>2. /\ FormatTyped /\ words = (IF touched THEN Append(argv, cur) ELSE argv)
      /\ spaced = ~touched
      /\ touched => Len(argv) < MaxCount
      /\ ~touched => cur = <<>>
      /\ turn = 0 /\ Unread
  BY <1>1 DEF CommandInv, FormatInv
<1>3. PICK P : Sums(P, argv, Len(argv)) /\ totlen = P[Len(argv)]
  BY <1>1 DEF CommandInv, FormatInv
<1>4. Unread'
  BY <1>1, <1>2 DEF Unread
<1>5. IdleInv' /\ CountInv' /\ BuildInv'
  BY <1>1 DEF IdleInv, CountInv, BuildInv
<1>6. CASE touched
  <2>1. /\ argv' = Append(argv, cur) /\ cur' = <<>> /\ touched' = FALSE
        /\ totlen' = totlen + BulkLen(Len(cur))
    BY <1>6 DEF SpaceRead, ArgumentEnds
  <2>2. /\ ShortVector(argv') /\ \E Q : Sums(Q, argv', Len(argv')) /\ Q[Len(argv')] = P[Len(argv)] + BulkLen(Len(cur))
    BY <2>1, <1>2, <1>3, <1>6, ArgumentMore DEF FormatTyped
  <2>3. <<>> \in Seq(Letters) /\ Len(<<>>) = 0 /\ MaxSize \in Nat
    BY NoneYet
  <2>4. Len(cur') <= MaxSize
    BY <2>1, <2>3
  <2>5. FormatTyped'
    BY <1>1, <1>2, <2>1, <2>2, <2>3, <2>4 DEF FormatTyped
  <2>6. FormatInv'
    BY <1>1, <1>2, <1>3, <1>4, <1>6, <2>1, <2>2 DEF FormatInv
  <2> QED
    BY <1>5, <2>5, <2>6 DEF CommandInv
<1>7. CASE ~touched
  <2>1. argv' = argv /\ cur' = cur /\ touched' = touched /\ totlen' = totlen
    BY <1>7 DEF SpaceRead
  <2>2. FormatTyped'
    BY <1>1, <1>2, <2>1 DEF FormatTyped, ShortVector
  <2>3. FormatInv'
    BY <1>1, <1>2, <1>3, <1>4, <1>7, <2>1 DEF FormatInv
  <2> QED
    BY <1>5, <2>2, <2>3 DEF CommandInv
<1> QED
  BY <1>6, <1>7, <1>2 DEF FormatTyped

\* What is read of a format is added to the argument and to the word.
LEMMA CommandText == ASSUME FormatAssumption, CommandInv, TextRead PROVE CommandInv'
<1>1. /\ stage = "format" /\ Len(argv) < MaxCount /\ stage' = stage /\ argv' = argv /\ totlen' = totlen /\ turn' = turn
      /\ touched' = TRUE /\ spaced' = FALSE /\ pos' = pos /\ count' = count /\ taken' = taken
  BY DEF TextRead, server
<1>2. /\ FormatTyped /\ words = (IF touched THEN Append(argv, cur) ELSE argv)
      /\ spaced = ~touched
      /\ ~touched => cur = <<>>
      /\ turn = 0 /\ Unread
  BY <1>1 DEF CommandInv, FormatInv
<1>3. PICK P : Sums(P, argv, Len(argv)) /\ totlen = P[Len(argv)]
  BY <1>1 DEF CommandInv, FormatInv
<1>4. PICK piece \in Pieces :
        /\ Len(cur) + Len(piece) <= MaxSize /\ cur' = cur \o piece
        /\ words' = IF spaced THEN Append(words, piece) ELSE [words EXCEPT ![Len(words)] = @ \o piece]
  BY DEF TextRead
<1>5. piece \in Seq(Letters) /\ cur \in Seq(Letters) /\ argv \in Seq(Seq(Letters))
  BY <1>2 DEF FormatAssumption, FormatTyped, ShortVector
<1>6. cur' \in Seq(Letters) /\ Len(cur') <= MaxSize
  BY <1>4, <1>5, InOne
<1>7. words' = Append(argv, cur')
  <2>1. CASE touched
    <3> DEFINE w == Append(argv, cur)
               v == Append(argv, cur')
    <3>1. words' = [w EXCEPT ![Len(w)] = @ \o piece]
      BY <1>2, <1>4, <2>1
    <3>2. /\ w \in Seq(Seq(Letters)) /\ Len(w) = Len(argv) + 1 /\ w[Len(argv) + 1] = cur
          /\ \A i \in 1 .. Len(argv) : w[i] = argv[i]
      BY <1>5
    <3>3. /\ v \in Seq(Seq(Letters)) /\ Len(v) = Len(argv) + 1 /\ v[Len(argv) + 1] = cur'
          /\ \A i \in 1 .. Len(argv) : v[i] = argv[i]
      BY <1>5, <1>6
    <3> HIDE DEF w, v
    <3> DEFINE u == [w EXCEPT ![Len(w)] = @ \o piece]
    <3>4. Len(w) \in DOMAIN w /\ w[Len(w)] \o piece = cur'
      BY <3>2, <1>4
    <3>5. u \in Seq(Seq(Letters)) /\ Len(u) = Len(w) /\ u[Len(w)] = cur' /\ \A i \in 1 .. Len(argv) : u[i] = w[i]
      BY <3>2, <3>4, <1>6, ExceptSeq
    <3> HIDE DEF u
    <3>6. ASSUME NEW i \in 1 .. Len(u) PROVE u[i] = v[i]
      <4>1. Len(argv) \in Nat /\ i \in 1 .. Len(argv) + 1
        BY <1>5, <3>2, <3>5
      <4>2. CASE i \in 1 .. Len(argv)
        BY <4>2, <3>2, <3>3, <3>5
      <4>3. CASE i = Len(argv) + 1
        BY <4>3, <3>2, <3>3, <3>5
      <4> QED
        BY <4>1, <4>2, <4>3
    <3>7. u = v
      BY <3>2, <3>3, <3>5, <3>6, SeqEqual
    <3> QED
      BY <3>1, <3>7 DEF u, v
  <2>2. CASE ~touched
    <3>1. cur' = piece
      BY <2>2, <1>2, <1>4, <1>5, ConcatEmptySeq
    <3> QED
      BY <3>1, <2>2, <1>2, <1>4
  <2> QED
    BY <2>1, <2>2, <1>2 DEF FormatTyped
<1>8. FormatTyped'
  BY <1>1, <1>2, <1>6 DEF FormatTyped, ShortVector
<1>9. FormatInv'
  <2>1. Unread'
    BY <1>1, <1>2 DEF Unread
  <2> QED
    BY <1>1, <1>2, <1>3, <1>7, <2>1 DEF FormatInv
<1>10. IdleInv' /\ CountInv' /\ BuildInv'
  BY <1>1 DEF IdleInv, CountInv, BuildInv
<1> QED
  BY <1>8, <1>9, <1>10 DEF CommandInv

\* The first line is all there is when the arguments are about to be written.
LEMMA BuildBegins ==
    ASSUME FormatAssumption, ShortVector(argv'), NEW P, Sums(P, argv', Len(argv')),
           stage' = "build", words' = argv', turn' = 0, Unread', cmd' = FirstLine(Len(argv')),
           totlen' = FirstLineLen(Len(argv')) + P[Len(argv')]
    PROVE  BuildInv'
<1> DEFINE n == Len(argv')
<1>1. n \in Nat /\ Short(n)
  BY VectorShort DEF ShortVector
<1> HIDE DEF n
<1>2. cmd' \in Seq(Octet) /\ Len(cmd') = FirstLineLen(n) /\ FirstLineLen(n) \in Nat /\ cmd' = FirstLine(n)
  BY <1>1, FirstLineIs, LineIs DEF n
<1>3. Shows(cmd', 0, FirstLine(n))
  BY <1>2 DEF Shows
<1>4. P[0] = 0
  BY DEF Sums
<1>5. Read(P)'
  BY DEF Read, Unread
<1> QED
  BY <1>1, <1>2, <1>3, <1>4, <1>5 DEF BuildInv, n

\* A format ends, and the first line is written.
LEMMA CommandFormatEnds == ASSUME FormatAssumption, CommandInv, FormatEnds PROVE CommandInv'
<1>1. /\ stage = "format" /\ stage' = "build" /\ turn' = turn /\ words' = words
      /\ cur' = <<>> /\ touched' = FALSE /\ argv' = (IF touched THEN Append(argv, cur) ELSE argv)
      /\ totlen' = totlen + (IF touched THEN BulkLen(Len(cur)) ELSE 0) + FirstLineLen(Len(argv'))
      /\ cmd' = FirstLine(Len(argv')) /\ pos' = pos /\ count' = count /\ taken' = taken
  BY DEF FormatEnds, server
<1>2. /\ FormatTyped /\ words = (IF touched THEN Append(argv, cur) ELSE argv)
      /\ touched => Len(argv) < MaxCount
      /\ turn = 0 /\ Unread
  BY <1>1 DEF CommandInv, FormatInv
<1>3. PICK P : Sums(P, argv, Len(argv)) /\ totlen = P[Len(argv)]
  BY <1>1 DEF CommandInv, FormatInv
<1>4. ShortVector(argv') /\ \E Q : Sums(Q, argv', Len(argv')) /\ totlen' = FirstLineLen(Len(argv')) + Q[Len(argv')]
  <2>1. P[Len(argv)] \in Nat
    BY <1>2, <1>3 DEF Sums, FormatTyped, ShortVector
  <2>2. CASE touched
    <3>1. argv' = Append(argv, cur)
      BY <1>1, <2>2
    <3>2. PICK Q : Sums(Q, argv', Len(argv')) /\ Q[Len(argv')] = P[Len(argv)] + BulkLen(Len(cur))
      BY <1>2, <1>3, <2>2, <3>1, ArgumentMore DEF FormatTyped
    <3>3. ShortVector(argv')
      BY <1>2, <1>3, <2>2, <3>1, ArgumentMore DEF FormatTyped
    <3>4. FirstLineLen(Len(argv')) \in Nat
      BY <3>3, VectorShort, FirstLineIs, LineIs
    <3>5. Q[Len(argv')] \in Nat
      BY <3>2, <3>3 DEF Sums, ShortVector
    <3>6. totlen' = Q[Len(argv')] + FirstLineLen(Len(argv'))
      BY <1>1, <1>3, <2>2, <3>2
    <3> QED
      BY <3>2, <3>3, <3>4, <3>5, <3>6
  <2>3. CASE ~touched
    <3>1. argv' = argv /\ ShortVector(argv)
      BY <1>1, <1>2, <2>3 DEF FormatTyped
    <3>2. FirstLineLen(Len(argv')) \in Nat
      BY <3>1, VectorShort, FirstLineIs, LineIs
    <3>3. totlen' = P[Len(argv)] + 0 + FirstLineLen(Len(argv'))
      BY <1>1, <1>3, <2>3
    <3>4. ShortVector(argv')
      BY <3>1 DEF ShortVector
    <3> QED
      BY <1>3, <2>1, <3>1, <3>2, <3>3, <3>4
  <2> QED
    BY <2>2, <2>3, <1>2 DEF FormatTyped
<1>5. PICK Q : Sums(Q, argv', Len(argv')) /\ totlen' = FirstLineLen(Len(argv')) + Q[Len(argv')]
  BY <1>4
<1>6. Unread' /\ words' = argv' /\ turn' = 0
  BY <1>1, <1>2 DEF Unread
<1>7. BuildInv'
  BY <1>1, <1>4, <1>5, <1>6, BuildBegins
<1>8. FormatTyped'
  <2>1. <<>> \in Seq(Letters) /\ Len(<<>>) = 0 /\ MaxSize \in Nat
    BY NoneYet
  <2>2. Len(cur') <= MaxSize
    BY <1>1, <2>1
  <2> QED
    BY <1>1, <1>4, <2>1, <2>2 DEF FormatTyped
<1>9. IdleInv' /\ FormatInv' /\ CountInv'
  BY <1>1 DEF IdleInv, FormatInv, CountInv
<1> QED
  BY <1>7, <1>8, <1>9 DEF CommandInv

\* A vector is given.
LEMMA CommandArgv == ASSUME FormatAssumption, CommandInv, FormatArgv PROVE CommandInv'
<1>1. PICK v \in Vectors : argv' = v /\ words' = v /\ totlen' = FirstLineLen(Len(v))
  BY DEF FormatArgv
<1>2. /\ stage = "idle" /\ stage' = "count" /\ cur' = cur /\ touched' = touched /\ turn' = turn
      /\ pos' = pos /\ count' = count /\ taken' = taken
  BY DEF FormatArgv, server
<1>3. FormatTyped /\ cur = <<>> /\ turn = 0 /\ Unread
  BY <1>2 DEF CommandInv, IdleInv
<1>4. ShortVector(argv')
  BY <1>1 DEF FormatAssumption, ShortVector
<1>5. FormatTyped'
  BY <1>2, <1>3, <1>4 DEF FormatTyped
<1>6. CountInv'
  <2>1. PICK P : Sums(P, argv', 0) /\ P[0] = 0
    BY NoneYet
  <2>2. Unread'
    BY <1>2, <1>3 DEF Unread
  <2>3. FirstLineLen(Len(argv')) \in Nat
    BY <1>4, VectorShort, FirstLineIs, LineIs
  <2>4. turn' = 0 /\ 0 \in 0 .. Len(argv')
    BY <1>2, <1>3, <1>4 DEF ShortVector
  <2>5. totlen' = FirstLineLen(Len(argv')) + P[0]
    BY <1>1, <2>1, <2>3
  <2> QED
    BY <1>1, <2>1, <2>2, <2>4, <2>5 DEF CountInv
<1>7. IdleInv' /\ FormatInv' /\ BuildInv'
  BY <1>2 DEF IdleInv, FormatInv, BuildInv
<1> QED
  BY <1>5, <1>6, <1>7 DEF CommandInv

\* An argument of it is counted.
LEMMA CommandCount == ASSUME FormatAssumption, CommandInv, CountArgument PROVE CommandInv'
<1>1. /\ stage = "count" /\ turn < Len(argv) /\ turn' = turn + 1 /\ totlen' = totlen + BulkLen(Len(argv[turn + 1]))
      /\ stage' = stage /\ argv' = argv /\ cur' = cur /\ touched' = touched /\ words' = words
      /\ pos' = pos /\ count' = count /\ taken' = taken
  BY DEF CountArgument, server
<1>2. FormatTyped /\ words = argv /\ turn \in 0 .. Len(argv) /\ Unread
  BY <1>1 DEF CommandInv, CountInv
<1>3. PICK P : Sums(P, argv, turn) /\ totlen = FirstLineLen(Len(argv)) + P[turn]
  BY <1>1 DEF CommandInv, CountInv
<1>4. ShortVector(argv) /\ Len(argv) \in Nat
  BY <1>2 DEF FormatTyped, ShortVector
<1>5. turn + 1 \in 1 .. Len(argv) /\ turn \in Nat
  BY <1>1, <1>2, <1>4
<1>6. BulkLen(Len(argv[turn + 1])) \in Nat
  BY <1>4, <1>5, VectorShort, BulkIs
<1>7. PICK Q : Sums(Q, argv, turn + 1) /\ Q[turn + 1] = P[turn] + BulkLen(Len(argv[turn + 1]))
  <2> DEFINE n == turn + 1
  <2>1. n = turn + 1 /\ turn \in Nat /\ Sums(P, argv, turn) /\ \A i \in 1 .. turn : argv[i] = argv[i]
    BY <1>3, <1>5
  <2>2. BulkLen(Len(argv[n])) \in Nat
    BY <1>6
  <2> HIDE DEF n
  <2>3. \E Q : Sums(Q, argv, n) /\ Q[n] = P[turn] + BulkLen(Len(argv[n]))
    BY <2>1, <2>2, SumsNext
  <2> QED
    BY <2>3 DEF n
<1>8. P[turn] \in Nat /\ FirstLineLen(Len(argv)) \in Nat
  <2>1. P[turn] \in Nat
    BY <1>3, <1>5 DEF Sums
  <2>2. FirstLineLen(Len(argv)) \in Nat
    BY <1>4, VectorShort, FirstLineIs, LineIs
  <2> QED
    BY <2>1, <2>2
<1>9. totlen' = FirstLineLen(Len(argv)) + Q[turn + 1]
  BY <1>1, <1>3, <1>6, <1>7, <1>8
<1>10. CountInv'
  <2>1. Unread'
    BY <1>1, <1>2 DEF Unread
  <2> QED
    BY <1>1, <1>2, <1>5, <1>7, <1>9, <2>1 DEF CountInv
<1>11. FormatTyped' /\ IdleInv' /\ FormatInv' /\ BuildInv'
  BY <1>1, <1>2 DEF FormatTyped, ShortVector, IdleInv, FormatInv, BuildInv
<1> QED
  BY <1>10, <1>11 DEF CommandInv

\* All are counted, and the first line is written.
LEMMA CommandCountEnds == ASSUME FormatAssumption, CommandInv, CountEnds PROVE CommandInv'
<1>1. /\ stage = "count" /\ turn = Len(argv) /\ stage' = "build" /\ turn' = 0 /\ cmd' = FirstLine(Len(argv))
      /\ argv' = argv /\ cur' = cur /\ touched' = touched /\ totlen' = totlen /\ words' = words
      /\ pos' = pos /\ count' = count /\ taken' = taken
  BY DEF CountEnds, server
<1>2. FormatTyped /\ words = argv /\ Unread
  BY <1>1 DEF CommandInv, CountInv
<1>3. PICK P : Sums(P, argv, turn) /\ totlen = FirstLineLen(Len(argv)) + P[turn]
  BY <1>1 DEF CommandInv, CountInv
<1>4. Unread' /\ words' = argv' /\ cmd' = FirstLine(Len(argv'))
  BY <1>1, <1>2 DEF Unread
<1>5. ShortVector(argv') /\ Sums(P, argv', Len(argv')) /\ totlen' = FirstLineLen(Len(argv')) + P[Len(argv')]
  BY <1>1, <1>2, <1>3 DEF FormatTyped, ShortVector
<1>6. BuildInv'
  BY <1>1, <1>4, <1>5, BuildBegins
<1>7. FormatTyped' /\ IdleInv' /\ FormatInv' /\ CountInv'
  BY <1>1, <1>2 DEF FormatTyped, ShortVector, IdleInv, FormatInv, CountInv
<1> QED
  BY <1>6, <1>7 DEF CommandInv

\* What is behind the last argument written is where the next one goes.
LEMMA CommandBuild == ASSUME FormatAssumption, CommandInv, BuildArgument PROVE CommandInv'
<1>1. /\ stage = "build" /\ turn < Len(argv) /\ cmd' = cmd \o Bulk(argv[turn + 1]) /\ turn' = turn + 1
      /\ stage' = stage /\ argv' = argv /\ cur' = cur /\ touched' = touched /\ totlen' = totlen /\ words' = words
      /\ pos' = pos /\ count' = count /\ taken' = taken
  BY DEF BuildArgument, server
<1>2. /\ FormatTyped /\ words = argv /\ turn \in 0 .. Len(argv) /\ cmd \in Seq(Octet)
      /\ Shows(cmd, 0, FirstLine(Len(argv)))
  BY <1>1 DEF CommandInv, BuildInv
<1> DEFINE F == FirstLineLen(Len(argv))
<1>3. PICK P : /\ Sums(P, argv, Len(argv)) /\ totlen = F + P[Len(argv)] /\ Len(cmd) = F + P[turn]
               /\ \A k \in 1 .. turn : Shows(cmd, F + P[k - 1], Bulk(argv[k]))
               /\ Read(P)
  BY <1>1 DEF CommandInv, BuildInv
<1>4. ShortVector(argv) /\ Len(argv) \in Nat
  BY <1>2 DEF FormatTyped, ShortVector
<1>5. F \in Nat /\ FirstLine(Len(argv)) \in Seq(Octet)
  BY <1>4, VectorShort, FirstLineIs, LineIs
<1> HIDE DEF F
<1> DEFINE n == turn + 1
<1>6. n \in 1 .. Len(argv) /\ turn \in Nat /\ n - 1 = turn
  BY <1>1, <1>2, <1>4
<1> HIDE DEF n
<1>7. \A k \in 1 .. Len(argv) : Bulk(argv[k]) \in Seq(Octet) /\ Len(Bulk(argv[k])) = BulkLen(Len(argv[k]))
  BY <1>4, VectorShort, BulkIs
<1>8. P[n] = P[turn] + BulkLen(Len(argv[n])) /\ \A k \in 0 .. Len(argv) : P[k] \in Nat
  BY <1>3, <1>6 DEF Sums
<1>9. /\ cmd' = cmd \o Bulk(argv[n]) /\ cmd' \in Seq(Octet) /\ Len(cmd') = Len(cmd) + Len(Bulk(argv[n]))
  BY <1>1, <1>2, <1>6, <1>7, InOne DEF n
<1>10. Len(cmd') = F + P[n]
  <2>1. P[turn] \in Nat /\ P[n] \in Nat /\ Len(cmd') = Len(cmd) + BulkLen(Len(argv[n]))
    <3>1. n \in 0 .. Len(argv) /\ turn \in 0 .. Len(argv)
      BY <1>2, <1>4, <1>6
    <3>2. P[turn] \in Nat /\ P[n] \in Nat
      BY <3>1, <1>8
    <3>3. Len(Bulk(argv[n])) = BulkLen(Len(argv[n]))
      BY <1>6, <1>7
    <3> QED
      BY <3>2, <3>3, <1>9
  <2>2. Len(cmd') \in Nat /\ Len(cmd) \in Nat
    BY <1>2, <1>9
  <2>3. BulkLen(Len(argv[n])) \in Nat
    BY <1>4, <1>6, VectorShort, BulkIs
  <2> QED
    BY <2>1, <2>2, <2>3, <1>3, <1>5, <1>8
<1>11. Shows(cmd', 0, FirstLine(Len(argv)))
  BY <1>2, <1>5, <1>6, <1>7, <1>9, ShowsStays
<1>12. ASSUME NEW k \in 1 .. n PROVE Shows(cmd', F + P[k - 1], Bulk(argv[k]))
  <2>1. CASE k = n
    <3>1. Shows(cmd', Len(cmd), Bulk(argv[n]))
      BY <1>2, <1>6, <1>7, <1>9, ShowsNext
    <3> QED
      BY <2>1, <3>1, <1>3, <1>6
  <2>2. CASE k \in 1 .. turn
    <3>1. Shows(cmd, F + P[k - 1], Bulk(argv[k]))
      BY <2>2, <1>3
    <3>2. k \in 1 .. Len(argv) /\ k - 1 \in 0 .. Len(argv)
      BY <2>2, <1>2, <1>4
    <3>3. F + P[k - 1] \in Nat
      BY <3>2, <1>5, <1>8
    <3>4. Bulk(argv[k]) \in Seq(Octet) /\ Bulk(argv[n]) \in Seq(Octet)
      BY <3>2, <1>6, <1>7
    <3> QED
      BY <3>1, <3>3, <3>4, <1>2, <1>9, ShowsStays
  <2> QED
    BY <2>1, <2>2, <1>6
<1>13. Read(P)'
  BY <1>1, <1>3 DEF Read, Unread
<1>14. BuildInv'
  <2>1. turn' = n /\ n \in 0 .. Len(argv') /\ words' = argv' /\ stage' # "built"
    BY <1>1, <1>2, <1>4, <1>6 DEF n
  <2>2. /\ Sums(P, argv', Len(argv')) /\ totlen' = FirstLineLen(Len(argv')) + P[Len(argv')]
        /\ Len(cmd') = FirstLineLen(Len(argv')) + P[turn']
        /\ \A k \in 1 .. turn' : Shows(cmd', FirstLineLen(Len(argv')) + P[k - 1], Bulk(argv'[k]))
    BY <2>1, <1>1, <1>3, <1>10, <1>12 DEF F
  <2> QED
    BY <2>1, <2>2, <1>1, <1>9, <1>11, <1>13 DEF BuildInv
<1>15. FormatTyped' /\ IdleInv' /\ FormatInv' /\ CountInv'
  BY <1>1, <1>2 DEF FormatTyped, ShortVector, IdleInv, FormatInv, CountInv
<1> QED
  BY <1>14, <1>15 DEF CommandInv

\* All arguments are written.
LEMMA CommandBuildEnds == ASSUME FormatAssumption, CommandInv, BuildEnds PROVE CommandInv'
<1>1. /\ stage = "build" /\ turn = Len(argv) /\ stage' = "built" /\ turn' = turn /\ cmd' = cmd
      /\ argv' = argv /\ cur' = cur /\ touched' = touched /\ totlen' = totlen /\ words' = words
      /\ pos' = pos /\ count' = count /\ taken' = taken
  BY DEF BuildEnds, locals, server
<1>2. FormatTyped /\ BuildInv
  BY DEF CommandInv
<1>3. ASSUME NEW P, Read(P) PROVE Read(P)'
  BY <1>1, <1>3 DEF Read, Unread
<1>4. BuildInv'
  BY <1>1, <1>2, <1>3 DEF BuildInv
<1>5. FormatTyped' /\ IdleInv' /\ FormatInv' /\ CountInv'
  BY <1>1, <1>2 DEF FormatTyped, ShortVector, IdleInv, FormatInv, CountInv
<1> QED
  BY <1>4, <1>5 DEF CommandInv

\* What the server does changes only what it has read.
LEMMA ServerOnly ==
    ASSUME CommandInv, stage = "built", UNCHANGED <<stage, locals, words, spaced>>,
           NEW P, Sums(P, argv, Len(argv)), totlen = FirstLineLen(Len(argv)) + P[Len(argv)],
           Len(cmd) = FirstLineLen(Len(argv)) + P[turn],
           \A k \in 1 .. turn : Shows(cmd, FirstLineLen(Len(argv)) + P[k - 1], Bulk(argv[k])), Read(P)'
    PROVE  CommandInv'
<1>1. /\ stage' = "built" /\ turn' = turn /\ cmd' = cmd
      /\ argv' = argv /\ cur' = cur /\ touched' = touched /\ totlen' = totlen /\ words' = words
  BY DEF locals
<1>2. FormatTyped /\ BuildInv
  BY DEF CommandInv
<1>3. BuildInv'
  BY <1>1, <1>2 DEF BuildInv
<1>4. FormatTyped' /\ IdleInv' /\ FormatInv' /\ CountInv'
  BY <1>1, <1>2 DEF FormatTyped, ShortVector, IdleInv, FormatInv, CountInv
<1> QED
  BY <1>3, <1>4 DEF CommandInv

\* The server is given the whole command.
LEMMA SentIs ==
    ASSUME FormatAssumption, CommandInv, stage = "built"
    PROVE  /\ Sent = cmd /\ cmd \in Seq(Octet) /\ Len(cmd) = totlen /\ words = argv /\ turn = Len(argv) /\ ShortVector(argv)
           /\ FirstLineLen(Len(argv)) \in Nat /\ FirstLineLen(Len(argv)) = Width(Len(argv)) + 3
           /\ Width(Len(argv)) \in 1 .. 10 /\ Len(argv) \in Nat
           /\ Shows(cmd, 0, Line("*", Len(argv)))
<1>1. /\ words = argv /\ cmd \in Seq(Octet) /\ turn = Len(argv) /\ ShortVector(argv)
      /\ Shows(cmd, 0, FirstLine(Len(argv)))
      /\ \E P : totlen = FirstLineLen(Len(argv)) + P[Len(argv)] /\ Len(cmd) = FirstLineLen(Len(argv)) + P[turn]
  BY DEF CommandInv, BuildInv, FormatTyped
<1>2. Len(cmd) = totlen
  BY <1>1
<1>3. SubSeq(cmd, 1, Len(cmd)) = cmd
  BY <1>1
<1>4. Short(Len(argv)) /\ Len(argv) \in Nat
  BY <1>1, VectorShort DEF ShortVector
<1>5. /\ FirstLineLen(Len(argv)) = Width(Len(argv)) + 3 /\ Width(Len(argv)) \in 1 .. 10
      /\ FirstLine(Len(argv)) = Line("*", Len(argv))
  BY <1>4, FirstLineIs, LineIs
<1> QED
  BY <1>1, <1>2, <1>3, <1>4, <1>5 DEF Sent

\* The server reads how many arguments there are,
LEMMA CommandReadsCount == ASSUME FormatAssumption, CommandInv, ServerReadsCount PROVE CommandInv'
<1>1. /\ stage = "built" /\ pos = 0 /\ count' = NumberRead /\ pos' = LineEnd + 1 /\ taken' = taken
      /\ UNCHANGED <<stage, locals, words, spaced>>
  BY DEF ServerReadsCount
<1>2. PICK P : /\ Sums(P, argv, Len(argv)) /\ totlen = FirstLineLen(Len(argv)) + P[Len(argv)]
               /\ Len(cmd) = FirstLineLen(Len(argv)) + P[turn]
               /\ \A k \in 1 .. turn : Shows(cmd, FirstLineLen(Len(argv)) + P[k - 1], Bulk(argv[k]))
               /\ Read(P)
  BY <1>1 DEF CommandInv, BuildInv
<1>3. /\ Sent = cmd /\ cmd \in Seq(Octet) /\ ShortVector(argv) /\ Len(argv) \in Nat
      /\ FirstLineLen(Len(argv)) = Width(Len(argv)) + 3 /\ Width(Len(argv)) \in 1 .. 10
      /\ Shows(cmd, 0, Line("*", Len(argv)))
  BY <1>1, SentIs
<1>4. Len(argv) \in 0 .. MaxSize + MaxCount
  BY <1>3, VectorShort
<1>5. LineEnd = pos + Width(Len(argv)) + 2 /\ NumberRead = Len(argv)
  BY <1>1, <1>3, <1>4, LineRead
<1>6. taken = <<>>
  <2>1. SUFFICES ASSUME ~Unread PROVE FALSE
    BY DEF Unread
  <2>2. pos = FirstLineLen(Len(argv)) + P[Len(taken)] /\ Len(taken) \in 0 .. Len(argv)
    BY <2>1, <1>2 DEF Read
  <2>3. P[Len(taken)] \in Nat
    BY <2>2, <1>2 DEF Sums
  <2>4. FirstLineLen(Len(argv)) \in Nat /\ FirstLineLen(Len(argv)) > 0 /\ pos = 0
    BY <1>1, <1>3
  <2> QED
    BY <2>2, <2>3, <2>4
<1>7. P[0] = 0
  BY <1>2 DEF Sums
<1>8. Read(P)'
  <2>1. /\ stage' = "built" /\ argv' = argv /\ count' = Len(argv) /\ taken' = <<>>
        /\ pos' = FirstLineLen(Len(argv)) + 0
    BY <1>1, <1>3, <1>5, <1>6 DEF locals
  <2>2. Len(<<>>) = 0 /\ SubSeq(argv, 1, 0) = <<>> /\ Len(<<>>) \in 0 .. Len(argv)
    BY <1>3
  <2> QED
    BY <2>1, <2>2, <1>7 DEF Read
<1> QED
  BY <1>1, <1>2, <1>8, ServerOnly

\* and each of them: the line tells where it ends.
LEMMA CommandReadsArgument == ASSUME FormatAssumption, CommandInv, ServerReadsArgument PROVE CommandInv'
<1>1. /\ stage = "built" /\ pos > 0 /\ Len(taken) < count
      /\ taken' = Append(taken, SubSeq(Sent, LineEnd + 2, LineEnd + 1 + NumberRead))
      /\ pos' = LineEnd + 1 + NumberRead + 2 /\ count' = count
      /\ UNCHANGED <<stage, locals, words, spaced>>
  BY DEF ServerReadsArgument
<1> DEFINE F == FirstLineLen(Len(argv))
<1>2. PICK P : /\ Sums(P, argv, Len(argv)) /\ totlen = F + P[Len(argv)]
               /\ Len(cmd) = F + P[turn]
               /\ \A k \in 1 .. turn : Shows(cmd, F + P[k - 1], Bulk(argv[k]))
               /\ Read(P)
  BY <1>1 DEF CommandInv, BuildInv
<1>3. Sent = cmd /\ cmd \in Seq(Octet) /\ turn = Len(argv) /\ ShortVector(argv) /\ Len(argv) \in Nat /\ F \in Nat
  BY <1>1, SentIs
<1>4. /\ count = Len(argv) /\ Len(taken) \in 0 .. count /\ taken = SubSeq(argv, 1, Len(taken))
      /\ pos = F + P[Len(taken)]
  BY <1>1, <1>2 DEF Read, Unread
<1> HIDE DEF F
<1> DEFINE k == Len(taken) + 1
           arg == argv[k]
           n == Len(arg)
           at == pos + Width(n) + 3
<1>5. k \in 1 .. Len(argv) /\ k - 1 = Len(taken)
  BY <1>1, <1>3, <1>4
<1>6. n \in 0 .. MaxSize + MaxCount /\ Short(n) /\ arg \in Seq(Letters) /\ n \in Nat
  BY <1>3, <1>5, VectorShort DEF Short
<1>7. Shows(cmd, pos, Bulk(arg))
  BY <1>2, <1>3, <1>4, <1>5
<1>8. /\ Bulk(arg) = Line("$", n) \o (arg \o CrLf) /\ BulkLen(n) = Width(n) + 3 + n + 2
      /\ Line("$", n) \in Seq(Octet) /\ Len(Line("$", n)) = Width(n) + 3 /\ Width(n) \in 1 .. 10
      /\ arg \in Seq(Octet) /\ CrLf \in Seq(Octet)
  <2>1. Bulk(arg) = Line("$", n) \o (arg \o CrLf) /\ BulkLen(n) = Width(n) + 3 + n + 2
    BY <1>6, BulkIs
  <2>2. "$" \in {"*", "$"}
    OBVIOUS
  <2>3. Line("$", n) \in Seq(Octet) /\ Len(Line("$", n)) = Width(n) + 3 /\ Width(n) \in 1 .. 10
    BY <1>6, <2>2, LineIs
  <2>4. arg \in Seq(Octet) /\ CrLf \in Seq(Octet)
    BY <1>6 DEF Octet, CrLf
  <2> QED
    BY <2>1, <2>3, <2>4
<1>9. P[k] = P[k - 1] + BulkLen(n) /\ P[k - 1] \in Nat
  BY <1>2, <1>3, <1>5 DEF Sums
<1> HIDE DEF k, arg, n
<1>10. pos \in Nat
  BY <1>3, <1>4, <1>5, <1>9
<1>17. Len(Line("$", n)) = Width(n) + 3 /\ BulkLen(n) = Width(n) + 3 + n + 2 /\ Width(n) \in Nat
  BY <1>8
<1>11. Shows(cmd, pos, Line("$", n)) /\ Shows(cmd, at, arg)
  <2>1. arg \o CrLf \in Seq(Octet)
    BY <1>8, InOne
  <2>2. Shows(cmd, pos, Line("$", n)) /\ Shows(cmd, pos + Len(Line("$", n)), arg \o CrLf)
    BY <2>1, <1>3, <1>7, <1>8, <1>10, ShowsPart
  <2>3. pos + Len(Line("$", n)) = at /\ at \in Nat
    BY <1>17, <1>10
  <2> HIDE DEF at
  <2>4. Shows(cmd, at, arg)
    BY <2>2, <2>3, <1>3, <1>8, ShowsPart
  <2> QED
    BY <2>2, <2>4
<1>12. LineEnd = pos + Width(n) + 2 /\ NumberRead = n
  BY <1>3, <1>6, <1>10, <1>11, LineRead
<1>18. n \in Nat /\ Width(n) \in Nat /\ pos \in Nat
  BY <1>6, <1>10, <1>17
<1>13. SubSeq(Sent, LineEnd + 2, LineEnd + 1 + NumberRead) = arg
  <2>1. LineEnd + 2 = at + 1 /\ LineEnd + 1 + NumberRead = at + n /\ at \in Nat
    BY <1>18, <1>12
  <2> HIDE DEF at
  <2> DEFINE t == SubSeq(cmd, at + 1, at + n)
  <2>2. at + n <= Len(cmd) /\ \A i \in 1 .. n : cmd[at + i] = arg[i]
    BY <1>11 DEF Shows, n
  <2>3. t \in Seq(Octet) /\ Len(t) = n /\ \A i \in 1 .. n : t[i] = cmd[at + 1 + i - 1]
    <3>1. /\ at + 1 \in Int /\ at + n \in Int /\ (at + n) - (at + 1) + 1 = n
          /\ IF at + 1 <= at + n THEN TRUE ELSE n = 0
          /\ \A i \in at + 1 .. at + n : cmd[i] \in Octet
      BY <2>1, <2>2, <1>3, <1>6
    <3> QED
      BY <3>1, SubSeqProperties
  <2>4. ASSUME NEW i \in 1 .. n PROVE t[i] = arg[i]
    <3>1. at + 1 + i - 1 = at + i
      BY <2>1, <1>6
    <3> HIDE DEF t
    <3> QED
      BY <3>1, <2>2, <2>3
  <2> HIDE DEF t
  <2>5. t = arg
    <3>1. Len(arg) = n
      BY DEF n
    <3> QED
      BY <3>1, <2>3, <2>4, <1>8, SeqEqual
  <2> QED
    BY <2>1, <2>5, <1>3 DEF t
<1>14. taken' = SubSeq(argv, 1, k) /\ Len(SubSeq(argv, 1, k)) = k
  <2>1. argv \in Seq(Seq(Letters))
    BY <1>3 DEF ShortVector
  <2>2. SubSeq(argv, 1, k) = Append(SubSeq(argv, 1, k - 1), argv[k])
    BY <2>1, <1>5
  <2>3. Len(SubSeq(argv, 1, k)) = k
    BY <2>1, <1>5
  <2>4. taken' = Append(taken, arg)
    BY <1>1, <1>13
  <2> QED
    BY <2>2, <2>3, <2>4, <1>4, <1>5 DEF arg
<1>15. pos' = F + P[k]
  <2>1. pos' = pos + BulkLen(n)
    <3>1. LineEnd + 1 + NumberRead + 2 = pos + (Width(n) + 3 + n + 2)
      BY <1>18, <1>12
    <3> QED
      BY <3>1, <1>1, <1>17
  <2> QED
    <3>1. F \in Nat /\ BulkLen(n) \in Nat
      BY <1>3, <1>6, <1>17
    <3>2. pos = F + P[k - 1]
      BY <1>4, <1>5
    <3> QED
      BY <2>1, <3>1, <3>2, <1>9
<1>16. Read(P)'
  <2>1. stage' = "built" /\ argv' = argv /\ count' = Len(argv) /\ FirstLineLen(Len(argv')) = F
    BY <1>1, <1>4 DEF locals, F
  <2>2. Len(taken') = k /\ k \in 0 .. Len(argv)
    BY <1>5, <1>14, <1>3
  <2> QED
    BY <2>1, <2>2, <1>14, <1>15 DEF Read
<1> QED
  BY <1>1, <1>2, <1>16, ServerOnly DEF F

\* Nothing happens.
LEMMA CommandStutters == ASSUME CommandInv, UNCHANGED fmtvars PROVE CommandInv'
<1>1. /\ stage' = stage /\ argv' = argv /\ cur' = cur /\ touched' = touched /\ totlen' = totlen /\ cmd' = cmd
      /\ turn' = turn /\ words' = words /\ spaced' = spaced /\ pos' = pos /\ count' = count /\ taken' = taken
  BY DEF fmtvars, locals, server
<1>2. ASSUME NEW P PROVE Read(P)' = Read(P)
  BY <1>1 DEF Read, Unread
<1>3. FormatTyped' /\ IdleInv' /\ FormatInv' /\ CountInv'
  BY <1>1 DEF CommandInv, FormatTyped, ShortVector, IdleInv, FormatInv, CountInv, Unread
<1>4. BuildInv'
  BY <1>1, <1>2 DEF CommandInv, BuildInv
<1> QED
  BY <1>3, <1>4 DEF CommandInv

\* What the invariant says of a command that is built.
LEMMA CommandInvWhole == ASSUME FormatAssumption, CommandInv PROVE CommandsWhole
<1> SUFFICES ASSUME stage = "built" PROVE CommandsWhole
  BY DEF CommandsWhole
<1>1. /\ Len(cmd) = totlen /\ words = argv /\ ShortVector(argv) /\ Len(argv) \in Nat /\ turn = Len(argv)
  BY SentIs
<1>2. ASSUME pos > 0
      PROVE  /\ count = Len(argv) /\ Len(taken) <= count /\ taken = SubSeq(argv, 1, Len(taken))
             /\ IF Len(taken) = count THEN pos = totlen ELSE cmd[pos + 1] = "$"
  <2> DEFINE F == FirstLineLen(Len(argv))
  <2>1. PICK P : /\ Sums(P, argv, Len(argv)) /\ totlen = F + P[Len(argv)]
                 /\ \A k \in 1 .. turn : Shows(cmd, F + P[k - 1], Bulk(argv[k]))
                 /\ Read(P)
    BY DEF CommandInv, BuildInv
  <2>2. /\ count = Len(argv) /\ Len(taken) \in 0 .. count /\ taken = SubSeq(argv, 1, Len(taken))
        /\ pos = F + P[Len(taken)]
    BY <1>2, <2>1 DEF Read, Unread
  <2> HIDE DEF F
  <2>3. ASSUME Len(taken) # count PROVE cmd[pos + 1] = "$"
    <3> DEFINE k == Len(taken) + 1
               arg == argv[k]
    <3>1. k \in 1 .. Len(argv) /\ k - 1 = Len(taken)
      BY <1>1, <2>2, <2>3
    <3>2. Shows(cmd, pos, Bulk(arg))
      BY <1>1, <2>1, <2>2, <3>1
    <3>3. arg \in Seq(Letters) /\ Short(Len(arg))
      BY <1>1, <3>1, VectorShort
    <3> HIDE DEF k, arg
    <3> DEFINE line == Line("$", Len(arg))
               rest == arg \o CrLf
    <3>4. Bulk(arg) = line \o rest /\ arg \in Seq(Octet) /\ CrLf \in Seq(Octet)
      BY <3>3, BulkIs DEF Octet, CrLf
    <3>5. "$" \in {"*", "$"}
      OBVIOUS
    <3>6. line \in Seq(Octet) /\ line[1] = "$" /\ Len(line) = Width(Len(arg)) + 3 /\ Width(Len(arg)) \in 1 .. 10
      BY <3>3, <3>5, LineIs
    <3>7. rest \in Seq(Octet)
      BY <3>4, InOne
    <3> HIDE DEF line, rest
    <3>8. /\ Len(line \o rest) = Len(line) + Len(rest) /\ (line \o rest)[1] = line[1]
      <4>1. 1 \in 1 .. Len(line)
        BY <3>6
      <4> QED
        BY <4>1, <3>6, <3>7, InOne
    <3>9. 1 \in 1 .. Len(Bulk(arg)) /\ Bulk(arg)[1] = "$"
      <4>1. Len(line) \in Nat /\ Len(line) >= 1 /\ Len(rest) \in Nat
        BY <3>6, <3>7
      <4>2. Len(Bulk(arg)) = Len(line) + Len(rest) /\ Bulk(arg)[1] = line[1]
        BY <3>4, <3>8
      <4> QED
        BY <4>1, <4>2, <3>6
    <3>10. cmd[pos + 1] = Bulk(arg)[1]
      BY <3>2, <3>9 DEF Shows
    <3> QED
      BY <3>9, <3>10
  <2>4. Len(taken) = count => pos = totlen
    BY <2>1, <2>2
  <2>5. Len(taken) <= count
    BY <1>1, <2>2
  <2> QED
    BY <2>2, <2>3, <2>4, <2>5
<1> QED
  BY <1>1, <1>2 DEF CommandsWhole

\* The invariant is inductive.
LEMMA CommandNext == ASSUME FormatAssumption, CommandInv, [FormatNext]_fmtvars PROVE CommandInv'
<1>1. CASE Format
  BY <1>1, CommandBegins
<1>2. CASE SpaceRead
  BY <1>2, CommandSpace
<1>3. CASE TextRead
  BY <1>3, CommandText
<1>4. CASE FormatError
  BY <1>4, CommandForgotten DEF FormatError
<1>5. CASE FormatEnds
  BY <1>5, CommandFormatEnds
<1>6. CASE FormatArgv
  BY <1>6, CommandArgv
<1>7. CASE CountArgument
  BY <1>7, CommandCount
<1>8. CASE CountEnds
  BY <1>8, CommandCountEnds
<1>9. CASE BuildArgument
  BY <1>9, CommandBuild
<1>10. CASE BuildEnds
  BY <1>10, CommandBuildEnds
<1>11. CASE FreeCommand
  BY <1>11, CommandForgotten DEF FreeCommand
<1>12. CASE ServerReadsCount
  BY <1>12, CommandReadsCount
<1>13. CASE ServerReadsArgument
  BY <1>13, CommandReadsArgument
<1>14. CASE UNCHANGED fmtvars
  BY <1>14, CommandStutters
<1> QED
  BY <1>1, <1>2, <1>3, <1>4, <1>5, <1>6, <1>7, <1>8, <1>9, <1>10, <1>11, <1>12, <1>13, <1>14 DEF FormatNext

\* hiredis.c:412, 515 and 561 assert that the computed length of a command is its length.
\* They hold, and a server that goes by the lengths in the bytes gets the arguments the
\* caller meant and is left with no byte, for any bytes and numbers of arguments whose
\* lengths fit an int.
THEOREM CommandsAreWhole == FormatSpec => []CommandsWhole
<1>1. FormatInit => CommandInv
  BY FormatAssumption, CommandInit
<1>2. CommandInv /\ [FormatNext]_fmtvars => CommandInv'
  BY FormatAssumption, CommandNext
<1>3. CommandInv => CommandsWhole
  BY FormatAssumption, CommandInvWhole
<1> QED
  BY <1>1, <1>2, <1>3, PTL DEF FormatSpec
=============================================================================
