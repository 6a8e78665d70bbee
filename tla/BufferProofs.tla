----------------------------- MODULE BufferProofs -----------------------------
(***************************************************************************)
(* Proofs about the bytes of a client of wsd.  IoBuffer, for every         *)
(* alphabet, every least size and every bound on what is pushed and held:  *)
(* the array has its type and its NUL, and the buffer implements the queue *)
(* of Fifo.  WsFrames, for every base, limit and masking, any frames of a  *)
(* browser and any messages for it: frames stay in step however recv and   *)
(* send cut the stream.                                                    *)
(***************************************************************************)
EXTENDS IoBuffer, WsFrames, SequenceTheorems, TLAPS

-----------------------------------------------------------------------------
(* The io_buffer                                                           *)

\* The inductive invariant: room for the NUL keeps every index in the array.
BufferInv == TypeOK /\ Terminated

\* What is pushed is a sequence of bytes.
LEMMA DataType ==
    ASSUME NEW data \in Data
    PROVE  Len(data) \in Nat /\ data \in [1 .. Len(data) -> Cell]
<1>1. PICK n \in 0 .. MaxData : data \in [1 .. n -> Bytes \cup {Nul}]
  BY DEF Data
<1>2. n \in Nat
  BY IoBufferAssumption
<1>3. data \in [1 .. n -> Cell]
  BY <1>1 DEF Cell
<1>4. data \in Seq(Cell) /\ Len(data) = n
  BY <1>2, <1>3
<1> QED
  BY <1>2, <1>3, <1>4

\* Once resized the array holds what it held, the new data and a NUL.
LEMMA Roomy ==
    ASSUME TypeOK, Terminated, NEW dlen \in Nat, NEW s \in SizeFor(dlen)
    PROVE  s \in Nat /\ len + dlen < s /\ size <= s
<1> USE DEF TypeOK, Terminated
<1>1. CASE size = 0
  BY <1>1, IoBufferAssumption DEF SizeFor
<1>2. CASE size # 0 /\ size < len + dlen + 1
  <2>1. s \in len + dlen + 1 .. 2 * (len + dlen)
    BY <1>2 DEF SizeFor, Grown
  <2> QED
    BY <1>2, <2>1
<1>3. CASE size # 0 /\ ~(size < len + dlen + 1)
  BY <1>3 DEF SizeFor
<1> QED
  BY <1>1, <1>2, <1>3

\* io_buff_push: what is where in the new array.
LEMMA PushEffect ==
    ASSUME BufferInv, NEW data \in Data, Push(data)
    PROVE  /\ len' = len + Len(data) /\ len' \in Nat
           /\ size' \in Nat /\ len' < size' /\ size <= size'
           /\ value' = Written(data, size')
<1>1. Len(data) \in Nat
  BY DataType
<1>2. PICK s \in SizeFor(Len(data)) : size' = s /\ value' = Written(data, s)
  BY DEF Push
<1>3. s \in Nat /\ len + Len(data) < s /\ size <= s
  BY <1>1, Roomy DEF BufferInv
<1>4. len' = len + Len(data)
  BY DEF Push
<1> QED
  BY <1>1, <1>2, <1>3, <1>4 DEF BufferInv, TypeOK

\* io_buff_push keeps the invariant: the new array ends behind the NUL.
LEMMA PushKeeps == ASSUME BufferInv, NEW data \in Data, Push(data) PROVE BufferInv'
<1> DEFINE n == Len(data)
<1>1. n \in Nat /\ data \in [1 .. n -> Cell]
  BY DataType
<1>2. len' = len + n /\ len' \in Nat /\ size' \in Nat /\ len' < size' /\ size <= size'
  BY PushEffect
<1>3. value' = Written(data, size')
  BY PushEffect
<1>4. len \in Nat /\ size \in Nat /\ value \in [0 .. size - 1 -> Cell]
  BY DEF BufferInv, TypeOK
<1> HIDE DEF n
<1>5. ASSUME NEW i \in 0 .. size' - 1 PROVE value'[i] \in Cell
  <2>1. value'[i] = IF i \in len .. len + n - 1 THEN data[i - len + 1]
                    ELSE IF i = len + n THEN Nul
                    ELSE IF i < size THEN value[i] ELSE Junk
    BY <1>3 DEF Written, n
  <2>2. i \in len .. len + n - 1 => data[i - len + 1] \in Cell
    BY <1>1, <1>4
  <2>3. i < size => value[i] \in Cell
    BY <1>2, <1>4
  <2>4. Nul \in Cell /\ Junk \in Cell
    BY DEF Cell
  <2> QED
    BY <2>1, <2>2, <2>3, <2>4
<1>6. value' = [i \in 0 .. size' - 1 |-> value'[i]]
  BY <1>3 DEF Written
<1>7. value' \in [0 .. size' - 1 -> Cell]
  BY <1>5, <1>6
<1>8. value'[len'] = Nul
  <2>1. len' \in 0 .. size' - 1
    BY <1>2
  <2>2. ~(len' \in len .. len + n - 1)
    BY <1>1, <1>2, <1>4
  <2> QED
    BY <1>2, <1>3, <2>1, <2>2 DEF Written, n
<1>9. TypeOK'
  BY <1>2, <1>7 DEF TypeOK
<1>10. Terminated'
  BY <1>2, <1>8 DEF Terminated
<1> QED
  BY <1>9, <1>10 DEF BufferInv

\* io_buff_get keeps it: the cells that are cleared reach to the NUL.
LEMMA GetKeeps == ASSUME BufferInv, NEW dlen \in Nat, Get(dlen) PROVE BufferInv'
<1> USE DEF BufferInv, TypeOK, Terminated
<1>1. len' = len - dlen /\ len' \in Nat /\ size' = size /\ dlen <= len
  BY DEF Get
<1>2. value' = [i \in 0 .. size - 1 |->
                  IF i < len - dlen THEN value[i + dlen]
                  ELSE IF i < len THEN Nul ELSE value[i]]
  BY DEF Get
<1>3. ASSUME NEW i \in 0 .. size - 1 PROVE value'[i] \in Cell
  <2>1. i < len - dlen => i + dlen \in 0 .. size - 1
    OBVIOUS
  <2>2. Nul \in Cell
    BY DEF Cell
  <2> QED
    BY <1>2, <2>1, <2>2
<1>4. value' \in [0 .. size' - 1 -> Cell]
  BY <1>1, <1>2, <1>3
<1>5. size # 0 => value'[len'] = Nul
  BY <1>1, <1>2
<1>6. size = 0 => len' = 0
  BY <1>1
<1>7. size # 0 => len' < size'
  BY <1>1
<1> QED
  BY <1>1, <1>4, <1>5, <1>6, <1>7

\* After io_buff_free there is no array.
LEMMA FreeKeeps == ASSUME Free PROVE BufferInv'
BY DEF Free, BufferInv, TypeOK, Terminated

\* The array always has its type, and the NUL after its bytes.
THEOREM Invariant == Spec => []BufferInv
<1>1. Init => BufferInv
  BY DEF Init, BufferInv, TypeOK, Terminated
<1>2. BufferInv /\ [Next]_vars => BufferInv'
  <2> SUFFICES ASSUME BufferInv, [Next]_vars PROVE BufferInv'
    OBVIOUS
  <2>1. ASSUME NEW data \in Data, Push(data) PROVE BufferInv'
    BY <2>1, PushKeeps
  <2>2. ASSUME NEW dlen \in 0 .. MaxLen, Get(dlen) PROVE BufferInv'
    <3>1. dlen \in Nat
      BY IoBufferAssumption
    <3> QED
      BY <2>2, <3>1, GetKeeps
  <2>3. CASE Free
    BY <2>3, FreeKeeps
  <2>4. CASE UNCHANGED vars
    BY <2>4 DEF BufferInv, TypeOK, Terminated, vars
  <2> QED
    BY <2>1, <2>2, <2>3, <2>4 DEF Next
<1> QED
  BY <1>1, <1>2, PTL DEF Spec

\* Every state has its type: no index leaves the array, for any sequence of
\* pushes, gets and frees.
THEOREM TypeCorrect == Spec => []TypeOK
<1>1. BufferInv => TypeOK
  BY DEF BufferInv
<1> QED
  BY <1>1, Invariant, PTL

\* The bytes held are always followed by their NUL inside the array, however
\* the array grew and was shifted.
THEOREM AlwaysTerminated == Spec => []Terminated
<1>1. BufferInv => Terminated
  BY DEF BufferInv
<1> QED
  BY <1>1, Invariant, PTL

-----------------------------------------------------------------------------
(* The refinement of Fifo                                                  *)

\* The queue the array stands for.
Held == [i \in 1 .. len |-> value[i - 1]]

\* The queue held is a sequence of len bytes.
LEMMA HeldType ==
    ASSUME BufferInv
    PROVE  Held \in Seq(Cell) /\ Len(Held) = len
<1> USE DEF BufferInv, TypeOK, Terminated
<1>1. ASSUME NEW i \in 1 .. len PROVE value[i - 1] \in Cell
  <2>1. size # 0 /\ len < size
    OBVIOUS
  <2>2. i - 1 \in 0 .. size - 1
    BY <2>1
  <2> QED
    BY <2>2
<1>2. Held \in [1 .. len -> Cell]
  BY <1>1 DEF Held
<1>3. len \in Nat
  OBVIOUS
<1> QED
  BY <1>2, <1>3 DEF Held

\* The byte at place i of the queue is in cell i - 1 of the array.
LEMMA CellOf ==
    ASSUME NEW a \in Nat, NEW b \in Nat, a < b, NEW i \in 1 .. a
    PROVE  i - 1 \in 0 .. b - 1
OBVIOUS

\* Concatenation, element by element.
LEMMA ConcatIs ==
    ASSUME NEW S, NEW s \in Seq(S), NEW t \in Seq(S)
    PROVE  s \o t = [i \in 1 .. Len(s) + Len(t) |->
                        IF i <= Len(s) THEN s[i] ELSE t[i - Len(s)]]
<1> DEFINE r == [i \in 1 .. Len(s) + Len(t) |-> IF i <= Len(s) THEN s[i] ELSE t[i - Len(s)]]
<1>1. /\ s \o t \in Seq(S) /\ Len(s \o t) = Len(s) + Len(t)
      /\ \A i \in 1 .. Len(s) + Len(t) : (s \o t)[i] = r[i]
  BY ConcatProperties
<1>2. r \in Seq(S) /\ Len(r) = Len(s) + Len(t)
  <2>1. Len(s) + Len(t) \in Nat
    OBVIOUS
  <2>2. \A i \in 1 .. Len(s) + Len(t) : r[i] \in S
    BY <1>1
  <2>3. r \in [1 .. Len(s) + Len(t) -> S]
    BY <2>2
  <2> QED
    BY <2>1, <2>3
<1> HIDE DEF r
<1>3. s \o t = r
  BY <1>1, <1>2, SeqEqual
<1> QED
  BY <1>3 DEF r

\* io_buff_push puts the data at the end of the queue.
LEMMA PushPuts == ASSUME BufferInv, NEW data \in Data, Push(data) PROVE Held' = Held \o data
<1> DEFINE n == Len(data)
<1>1. n \in Nat /\ data \in [1 .. n -> Cell]
  BY DataType
<1>2. data \in Seq(Cell)
  BY <1>1
<1>3. Held \in Seq(Cell) /\ Len(Held) = len /\ len \in Nat
  BY HeldType DEF BufferInv, TypeOK
<1>4. len' = len + n /\ len' < size' /\ size' \in Nat
  BY PushEffect
<1>5. value' = Written(data, size')
  BY PushEffect
<1>6. len = 0 \/ len < size
  BY DEF BufferInv, TypeOK, Terminated
<1>n. n = Len(data)
  OBVIOUS
<1> HIDE DEF n
<1>7. ASSUME NEW i \in 1 .. len + n
      PROVE  Held'[i] = IF i <= len THEN Held[i] ELSE data[i - len]
  <2>1. i - 1 \in 0 .. size' - 1
    <3>1. i \in 1 .. len' /\ len' \in Nat
      BY <1>1, <1>3, <1>4
    <3> QED
      BY <3>1, <1>4, CellOf
  <2>2. value'[i - 1] = IF i - 1 \in len .. len + n - 1 THEN data[i - 1 - len + 1]
                        ELSE IF i - 1 = len + n THEN Nul
                        ELSE IF i - 1 < size THEN value[i - 1] ELSE Junk
    BY <1>n, <1>5, <2>1 DEF Written
  <2>3. Held'[i] = value'[i - 1]
    BY <1>4 DEF Held
  <2>4. CASE i <= len
    <3>1. Held[i] = value[i - 1]
      BY <2>4, <1>3 DEF Held
    <3>2. i - 1 < size /\ i - 1 \notin len .. len + n - 1 /\ i - 1 # len + n
      BY <2>4, <1>1, <1>3, <1>6 DEF BufferInv, TypeOK
    <3> QED
      BY <2>2, <2>3, <2>4, <3>1, <3>2
  <2>5. CASE len < i
    <3>1. i - 1 \in len .. len + n - 1 /\ i - 1 - len + 1 = i - len
      BY <2>5, <1>1, <1>3
    <3> QED
      BY <1>3, <2>2, <2>3, <2>5, <3>1
  <2> QED
    BY <1>1, <1>3, <2>4, <2>5
<1>8. Held \o data = [i \in 1 .. len + n |-> IF i <= len THEN Held[i] ELSE data[i - len]]
  <2>1. Held \o data = [i \in 1 .. Len(Held) + Len(data) |->
                         IF i <= Len(Held) THEN Held[i] ELSE data[i - Len(Held)]]
    BY <1>2, <1>3, ConcatIs
  <2> QED
    BY <2>1, <1>3, <1>n
<1>9. Held' = [i \in 1 .. len + n |-> Held'[i]]
  BY <1>4 DEF Held
<1> QED
  BY <1>7, <1>8, <1>9

\* io_buff_get takes bytes from its head.
LEMMA GetTakes ==
    ASSUME BufferInv, NEW dlen \in Nat, Get(dlen)
    PROVE  dlen \in 0 .. Len(Held) /\ Held' = SubSeq(Held, dlen + 1, Len(Held))
<1>1. Held \in Seq(Cell) /\ Len(Held) = len /\ len \in Nat /\ size \in Nat
  BY HeldType DEF BufferInv, TypeOK
<1>2. len' = len - dlen /\ dlen <= len
  BY DEF Get
<1>3. value' = [i \in 0 .. size - 1 |->
                  IF i < len - dlen THEN value[i + dlen]
                  ELSE IF i < len THEN Nul ELSE value[i]]
  BY DEF Get
<1>4. len = 0 \/ len < size
  BY DEF BufferInv, TypeOK, Terminated
<1>5. ASSUME NEW i \in 1 .. len - dlen PROVE Held'[i] = Held[i + dlen]
  <2>1. i - 1 \in 0 .. size - 1 /\ i - 1 < len - dlen
    BY <1>1, <1>2, <1>4
  <2>2. value'[i - 1] = value[i - 1 + dlen]
    BY <1>3, <2>1
  <2>3. Held'[i] = value'[i - 1]
    BY <1>2 DEF Held
  <2>4. i + dlen \in 1 .. len /\ i + dlen - 1 = i - 1 + dlen
    BY <1>1, <1>2
  <2>5. Held[i + dlen] = value[i - 1 + dlen]
    BY <2>4 DEF Held
  <2> QED
    BY <2>2, <2>3, <2>5
<1>6. SubSeq(Held, dlen + 1, len) = [i \in 1 .. len - dlen |-> Held[i + dlen]]
  BY <1>1, <1>2
<1>7. Held' = [i \in 1 .. len - dlen |-> Held'[i]]
  BY <1>2 DEF Held
<1>8. Held' = SubSeq(Held, dlen + 1, len)
  BY <1>5, <1>6, <1>7
<1> QED
  BY <1>1, <1>2, <1>8

\* Freed, the buffer is the empty queue.
LEMMA FreeClears == ASSUME len' = 0 PROVE Held' = <<>>
<1>1. 1 .. 0 = {}
  OBVIOUS
<1> QED
  BY <1>1 DEF Held

\* The buffer implements Fifo: bytes come out in the order they went in, none
\* lost, repeated or made up, for every sequence of operations.
THEOREM BufferIsQueue == Spec => IsQueue
<1>1. Init => Queue!Init
  <2> SUFFICES ASSUME Init PROVE Queue!Init
    OBVIOUS
  <2>1. len = 0
    BY DEF Init
  <2>2. [i \in 1 .. 0 |-> value[i - 1]] = <<>>
    <3>1. 1 .. 0 = {}
      OBVIOUS
    <3> QED
      BY <3>1
  <2> QED
    BY <2>1, <2>2 DEF Queue!Init
<1>2. BufferInv /\ [Next]_vars => [Queue!Next]_Held
  <2> SUFFICES ASSUME BufferInv, [Next]_vars PROVE [Queue!Next]_Held
    OBVIOUS
  <2>1. ASSUME NEW data \in Data, Push(data) PROVE Queue!Put
    BY <2>1, PushPuts DEF Queue!Put, Held
  <2>2. ASSUME NEW dlen \in 0 .. MaxLen, Get(dlen) PROVE Queue!Take
    <3>1. dlen \in Nat
      BY IoBufferAssumption
    <3>2. dlen \in 0 .. Len(Held) /\ Held' = SubSeq(Held, dlen + 1, Len(Held))
      BY <2>2, <3>1, GetTakes
    <3> QED
      BY <3>2 DEF Queue!Take, Held
  <2>3. CASE Free
    <3>1. Held' = <<>>
      BY <2>3, FreeClears DEF Free
    <3>2. Queue!Clear
      BY <3>1 DEF Queue!Clear, Held
    <3> QED
      BY <3>2 DEF Queue!Next
  <2>4. CASE UNCHANGED vars
    BY <2>4 DEF vars, Held
  <2> QED
    BY <2>1, <2>2, <2>3, <2>4 DEF Next, Queue!Next
<1>3. Queue!Spec <=> Queue!Init /\ [][Queue!Next]_Held
  BY DEF Queue!Spec, Held
<1> QED
  BY <1>1, <1>2, <1>3, Invariant, PTL DEF Spec, IsQueue

-----------------------------------------------------------------------------
(* Numbers and their digits: the eight bytes of a length                   *)

\* A number is its last digit and the others, of which there is one fewer.
LEMMA DigitOff ==
    ASSUME NEW n \in Nat, NEW k \in Nat, n < Base * k
    PROVE  /\ n \div Base \in Nat /\ n % Base \in Byte
           /\ (n \div Base) * Base + (n % Base) = n /\ n \div Base < k
<1>1. Base \in Nat /\ Base > 0
  BY FramesAssumption DEF Len64
<1> DEFINE q == n \div Base
<1> DEFINE r == n % Base
<1>2. q \in Nat /\ r \in 0 .. Base - 1 /\ n = Base * q + r
  BY <1>1
<1>3. q * Base = Base * q
  BY <1>1, <1>2
<1> HIDE DEF q, r
<1>4. q < k
  <2>1. SUFFICES ASSUME k <= q PROVE FALSE
    BY <1>2
  <2>2. Base * k <= Base * q
    BY <1>1, <1>2, <2>1
  <2> QED
    BY <1>1, <1>2, <2>2
<1>5. q \in Nat /\ r \in Byte /\ q * Base + r = n /\ q < k
  BY <1>1, <1>2, <1>3, <1>4 DEF Byte
<1> QED
  BY <1>5 DEF q, r

\* The eight bytes of a number are bytes, and give it back.
LEMMA Digits ==
    ASSUME NEW n \in Nat, n < Word
    PROVE  Eight(n) \in [1 .. 8 -> Byte] /\ Number(Eight(n)) = n
<1> DEFINE b1 == Base
           b2 == Base * b1
           b3 == Base * b2
           b4 == Base * b3
           b5 == Base * b4
           b6 == Base * b5
           b7 == Base * b6
<1> DEFINE n7 == n \div Base
           n6 == n7 \div Base
           n5 == n6 \div Base
           n4 == n5 \div Base
           n3 == n4 \div Base
           n2 == n3 \div Base
           n1 == n2 \div Base
           r8 == n % Base
           r7 == n7 % Base
           r6 == n6 % Base
           r5 == n5 % Base
           r4 == n4 % Base
           r3 == n3 % Base
           r2 == n2 % Base
           r1 == n1 % Base
<1>0. Base \in Nat /\ Base > 0
  BY FramesAssumption DEF Len64
<1>1. /\ b1 \in Nat /\ b2 \in Nat /\ b3 \in Nat /\ b4 \in Nat /\ b5 \in Nat /\ b6 \in Nat /\ b7 \in Nat
      /\ Base * b7 = Word
  BY <1>0 DEF Word
<1> HIDE DEF b1, b2, b3, b4, b5, b6, b7
<1>2. n < Base * b7
  BY <1>1
<1>11. n7 \in Nat /\ r8 \in Byte /\ n7 * Base + r8 = n /\ n7 < b7
  BY <1>1, <1>2, DigitOff
<1> HIDE DEF n7, r8
<1>12. n6 \in Nat /\ r7 \in Byte /\ n6 * Base + r7 = n7 /\ n6 < b6
  BY <1>1, <1>11, DigitOff DEF b7
<1> HIDE DEF n6, r7
<1>13. n5 \in Nat /\ r6 \in Byte /\ n5 * Base + r6 = n6 /\ n5 < b5
  BY <1>1, <1>12, DigitOff DEF b6
<1> HIDE DEF n5, r6
<1>14. n4 \in Nat /\ r5 \in Byte /\ n4 * Base + r5 = n5 /\ n4 < b4
  BY <1>1, <1>13, DigitOff DEF b5
<1> HIDE DEF n4, r5
<1>15. n3 \in Nat /\ r4 \in Byte /\ n3 * Base + r4 = n4 /\ n3 < b3
  BY <1>1, <1>14, DigitOff DEF b4
<1> HIDE DEF n3, r4
<1>16. n2 \in Nat /\ r3 \in Byte /\ n2 * Base + r3 = n3 /\ n2 < b2
  BY <1>1, <1>15, DigitOff DEF b3
<1> HIDE DEF n2, r3
<1>17. n1 \in Nat /\ r2 \in Byte /\ n1 * Base + r2 = n2 /\ n1 < b1
  BY <1>1, <1>16, DigitOff DEF b2
<1> HIDE DEF n1, r2
<1>18. r1 = n1 /\ r1 \in Byte
  BY <1>0, <1>17 DEF b1, r1, Byte
<1> HIDE DEF r1
<1>3. Eight(n) = <<r1, r2, r3, r4, r5, r6, r7, r8>>
  BY DEF Eight, r1, r2, r3, r4, r5, r6, r7, r8, n1, n2, n3, n4, n5, n6, n7
<1>4. Eight(n) \in [1 .. 8 -> Byte]
  BY <1>3, <1>11, <1>12, <1>13, <1>14, <1>15, <1>16, <1>17, <1>18
<1>5. Number(Eight(n)) =
        ((((((r1 * Base + r2) * Base + r3) * Base + r4) * Base + r5) * Base + r6) * Base + r7) * Base + r8
  BY <1>3 DEF Number
<1>6. r1 * Base + r2 = n2 /\ n2 * Base + r3 = n3 /\ n3 * Base + r4 = n4 /\ n4 * Base + r5 = n5
      /\ n5 * Base + r6 = n6 /\ n6 * Base + r7 = n7 /\ n7 * Base + r8 = n
  BY <1>11, <1>12, <1>13, <1>14, <1>15, <1>16, <1>17, <1>18
<1>7. Number(Eight(n)) = n
  BY <1>5, <1>6, Zenon
<1> QED
  BY <1>4, <1>7

-----------------------------------------------------------------------------
(* What is where in a frame                                                *)

\* A function from 1 .. n is a sequence of n.
LEMMA Rows == ASSUME NEW n \in Nat, NEW w \in [1 .. n -> Byte] PROVE w \in Seq(Byte) /\ Len(w) = n
  OBVIOUS

\* What s \o t is, said without it: the provers stumble over equalities with \o.
IsConcat(u, s, t) ==
    /\ u \in Seq(Byte) /\ Len(u) = Len(s) + Len(t)
    /\ \A i \in 1 .. Len(s) : u[i] = s[i]
    /\ \A i \in 1 .. Len(t) : u[Len(s) + i] = t[i]

\* Two sequences of bytes make one, with what is where.
LEMMA Concatenation ==
    ASSUME NEW s \in Seq(Byte), NEW t \in Seq(Byte)
    PROVE  s \o t \in Seq(Byte) /\ IsConcat(s \o t, s, t)
<1>1. s \o t \in Seq(Byte) /\ Len(s \o t) = Len(s) + Len(t)
  BY ConcatProperties
<1>2. ASSUME NEW i \in 1 .. Len(s) PROVE (s \o t)[i] = s[i]
  BY ConcatProperties
<1>3. ASSUME NEW i \in 1 .. Len(t) PROVE (s \o t)[Len(s) + i] = t[i]
  <2>1. Len(s) \in Nat /\ Len(t) \in Nat
    OBVIOUS
  <2>2. Len(s) + i \in 1 .. Len(s) + Len(t) /\ ~(Len(s) + i <= Len(s)) /\ Len(s) + i - Len(s) = i
    BY <2>1
  <2>3. (s \o t)[Len(s) + i] = t[Len(s) + i - Len(s)]
    BY <2>2, ConcatProperties
  <2> QED
    BY <2>2, <2>3
<1> QED
  BY <1>1, <1>2, <1>3 DEF IsConcat

\* Two bytes, a length, a key and a body, one behind the other: what is where.
LEMMA LayoutParts ==
    ASSUME NEW two \in Seq(Byte), NEW lb \in Seq(Byte), NEW key \in Seq(Byte), NEW body \in Seq(Byte),
           Len(two) = 2,
           NEW F1, IsConcat(F1, two, lb), NEW F2, IsConcat(F2, F1, key), NEW F, IsConcat(F, F2, body)
    PROVE  /\ F \in Seq(Byte) /\ Len(F) = 2 + Len(lb) + Len(key) + Len(body)
           /\ F[1] = two[1] /\ F[2] = two[2]
           /\ \A i \in 1 .. Len(lb) : F[2 + i] = lb[i]
           /\ \A i \in 1 .. Len(key) : F[2 + Len(lb) + i] = key[i]
           /\ \A i \in 1 .. Len(body) : F[2 + Len(lb) + Len(key) + i] = body[i]
<1>1. /\ F1 \in Seq(Byte) /\ Len(F1) = 2 + Len(lb)
      /\ F1[1] = two[1] /\ F1[2] = two[2]
      /\ \A i \in 1 .. Len(lb) : F1[2 + i] = lb[i]
  BY DEF IsConcat
<1>2. /\ F2 \in Seq(Byte) /\ Len(F2) = 2 + Len(lb) + Len(key)
      /\ F2[1] = two[1] /\ F2[2] = two[2]
      /\ \A i \in 1 .. Len(lb) : F2[2 + i] = lb[i]
      /\ \A i \in 1 .. Len(key) : F2[2 + Len(lb) + i] = key[i]
  BY <1>1 DEF IsConcat
<1>3. /\ F \in Seq(Byte) /\ Len(F) = Len(F2) + Len(body)
      /\ \A i \in 1 .. Len(F2) : F[i] = F2[i]
      /\ \A i \in 1 .. Len(body) : F[Len(F2) + i] = body[i]
  BY DEF IsConcat
<1>4. Len(lb) \in Nat /\ Len(key) \in Nat
  OBVIOUS
<1>5. F[1] = F2[1] /\ F[2] = F2[2]
  BY <1>2, <1>3, <1>4
<1>6. ASSUME NEW i \in 1 .. Len(lb) PROVE F[2 + i] = F2[2 + i]
  BY <1>2, <1>3, <1>4
<1>7. ASSUME NEW i \in 1 .. Len(key) PROVE F[2 + Len(lb) + i] = F2[2 + Len(lb) + i]
  BY <1>2, <1>3, <1>4
<1>8. Len(F2) = 2 + Len(lb) + Len(key)
  BY <1>2
<1>9. ASSUME NEW i \in 1 .. Len(body) PROVE F[2 + Len(lb) + Len(key) + i] = body[i]
  BY <1>3, <1>8
<1>10. Len(F) = 2 + Len(lb) + Len(key) + Len(body)
  BY <1>3, <1>8
<1> QED
  BY <1>2, <1>3, <1>5, <1>6, <1>7, <1>9, <1>10

\* The sequence that starts with two bytes, and goes on with a length, a key and a body.
HasLayout(F, op, code, lb, key, body) ==
    /\ F \in Seq(Byte) /\ Len(F) = 2 + Len(lb) + Len(key) + Len(body)
    /\ F[1] = op /\ F[2] = code
    /\ \A i \in 1 .. Len(lb) : F[2 + i] = lb[i]
    /\ \A i \in 1 .. Len(key) : F[2 + Len(lb) + i] = key[i]
    /\ \A i \in 1 .. Len(body) : F[2 + Len(lb) + Len(key) + i] = body[i]

\* The same of a sequence put together with \o.
LEMMA Layout ==
    ASSUME NEW op \in Byte, NEW code \in Byte,
           NEW lb \in Seq(Byte), NEW key \in Seq(Byte), NEW body \in Seq(Byte)
    PROVE  HasLayout(<<op, code>> \o lb \o key \o body, op, code, lb, key, body)
<1>1. <<op, code>> \in Seq(Byte) /\ Len(<<op, code>>) = 2
      /\ <<op, code>>[1] = op /\ <<op, code>>[2] = code
  OBVIOUS
<1>2. <<op, code>> \o lb \in Seq(Byte) /\ IsConcat(<<op, code>> \o lb, <<op, code>>, lb)
  BY <1>1, Concatenation
<1>3. <<op, code>> \o lb \o key \in Seq(Byte) /\ IsConcat(<<op, code>> \o lb \o key, <<op, code>> \o lb, key)
  BY <1>2, Concatenation
<1>4. IsConcat(<<op, code>> \o lb \o key \o body, <<op, code>> \o lb \o key, body)
  BY <1>3, Concatenation
<1> QED
  BY <1>1, <1>2, <1>3, <1>4, LayoutParts DEF HasLayout

\* The bytes of a length, and how many there are.
Extra(code) == IF code = Len64 THEN 8 ELSE IF code = Len16 THEN 2 ELSE 0

\* A length that its code announces.
Fits(code, n) ==
    CASE code = Len64 -> n < Word
      [] code = Len16 -> n < Base * Base
      [] OTHER -> n = code

\* The bytes of a length are as many as its code says.
LEMMA LengthBytesType ==
    ASSUME NEW code \in Byte, NEW n \in Nat, Fits(code, n)
    PROVE  LengthBytes(code, n) \in Seq(Byte) /\ Len(LengthBytes(code, n)) = Extra(code)
<1>1. Len16 \in Nat /\ Len64 # Len16 /\ Base \in Nat
  BY FramesAssumption DEF Len64
<1>2. CASE code = Len64
  <2>1. Eight(n) \in [1 .. 8 -> Byte]
    BY <1>1, <1>2, Digits DEF Fits
  <2>2. LengthBytes(code, n) = Eight(n)
    BY <1>2 DEF LengthBytes
  <2>3. Eight(n) \in Seq(Byte) /\ Len(Eight(n)) = 8
    BY <2>1, Rows
  <2> QED
    BY <1>2, <2>2, <2>3 DEF Extra
<1>3. CASE code = Len16
  <2>1. n \div Base \in Byte /\ n % Base \in Byte
    BY <1>1, <1>3, DigitOff DEF Fits, Byte
  <2> QED
    BY <1>1, <1>3, <2>1 DEF LengthBytes, Extra
<1>4. CASE code # Len64 /\ code # Len16
  BY <1>4 DEF LengthBytes, Extra
<1> QED
  BY <1>2, <1>3, <1>4

\* What a browser may send.
LEMMA InputTypes ==
    ASSUME NEW f \in Inputs
    PROVE  /\ f.op \in Byte /\ f.code \in Byte /\ f.mask \in [1 .. 4 -> Byte]
           /\ f.data \in Seq(Byte) /\ Len(f.data) \in Nat
           /\ Fits(f.code, Len(f.data))
           /\ f.code = Len64 => 14 + Len(f.data) < Word
<1>1. f \in [op : Byte, code : 0 .. Len64, mask : [1 .. 4 -> Byte], data : Seq(Byte)]
  BY FramesAssumption
<1>2. Len64 \in Nat /\ Len64 < Base /\ Base \in Nat /\ Len64 # Len16
  BY FramesAssumption DEF Len64
<1>3. f.code \in Byte
  BY <1>1, <1>2 DEF Byte
<1>4. /\ f.op \in Byte /\ f.mask \in [1 .. 4 -> Byte]
      /\ f.data \in Seq(Byte) /\ Len(f.data) \in Nat
  BY <1>1
<1>5. (CASE f.code = Len64 -> 14 + Len(f.data) < Word
        [] f.code = Len16 -> Len(f.data) < Base * Base
        [] OTHER -> Len(f.data) = f.code)
  BY FramesAssumption
<1>6. Word \in Nat
  BY <1>2 DEF Word
<1>7. f.code = Len64 => 14 + Len(f.data) < Word /\ Len(f.data) < Word
  BY <1>2, <1>4, <1>5, <1>6
<1>8. f.code = Len16 => Len(f.data) < Base * Base
  BY <1>2, <1>5
<1>9. f.code # Len16 /\ f.code # Len64 => Len(f.data) = f.code
  BY <1>5
<1> QED
  BY <1>2, <1>3, <1>4, <1>7, <1>8, <1>9 DEF Fits

\* A masked payload has the length it had.
LEMMA MaskedType ==
    ASSUME NEW data \in Seq(Byte), NEW mask \in [1 .. 4 -> Byte]
    PROVE  Masked(data, mask) \in Seq(Byte) /\ Len(Masked(data, mask)) = Len(data)
<1>1. ASSUME NEW i \in 1 .. Len(data) PROVE Xor(data[i], mask[((i - 1) % 4) + 1]) \in Byte
  <2>1. ((i - 1) % 4) + 1 \in 1 .. 4
    OBVIOUS
  <2>2. data[i] \in Byte /\ mask[((i - 1) % 4) + 1] \in Byte
    BY <2>1
  <2> QED
    BY <2>2, FramesAssumption
<1>2. Masked(data, mask) \in [1 .. Len(data) -> Byte]
  BY <1>1 DEF Masked
<1>3. Len(data) \in Nat
  OBVIOUS
<1> QED
  BY <1>2, <1>3, Rows

\* What is where in a frame of a browser.
LEMMA FrameLayout ==
    ASSUME NEW f \in Inputs
    PROVE  /\ Frame(f) \in Seq(Byte) /\ Len(Frame(f)) = 6 + Extra(f.code) + Len(f.data)
           /\ Frame(f)[1] = f.op /\ Frame(f)[2] = f.code
           /\ \A i \in 1 .. Extra(f.code) : Frame(f)[2 + i] = LengthBytes(f.code, Len(f.data))[i]
           /\ \A i \in 1 .. 4 : Frame(f)[2 + Extra(f.code) + i] = f.mask[i]
           /\ \A i \in 1 .. Len(f.data) :
                Frame(f)[6 + Extra(f.code) + i] = Xor(f.data[i], f.mask[((i - 1) % 4) + 1])
<1> DEFINE lb == LengthBytes(f.code, Len(f.data))
           body == Masked(f.data, f.mask)
<1>1. lb \in Seq(Byte) /\ Len(lb) = Extra(f.code)
  BY InputTypes, LengthBytesType
<1>2. body \in Seq(Byte) /\ Len(body) = Len(f.data)
  BY InputTypes, MaskedType
<1>3. f.mask \in Seq(Byte) /\ Len(f.mask) = 4
  BY InputTypes, Rows
<1>4. Frame(f) = <<f.op, f.code>> \o lb \o f.mask \o body
  BY DEF Frame
<1>5. \A i \in 1 .. Len(f.data) : body[i] = Xor(f.data[i], f.mask[((i - 1) % 4) + 1])
  BY DEF Masked
<1> HIDE DEF lb, body
<1>6. HasLayout(<<f.op, f.code>> \o lb \o f.mask \o body, f.op, f.code, lb, f.mask, body)
  <2>1. f.op \in Byte /\ f.code \in Byte /\ lb \in Seq(Byte) /\ f.mask \in Seq(Byte) /\ body \in Seq(Byte)
    BY <1>1, <1>2, <1>3, InputTypes
  <2> QED
    BY <2>1, Layout
<1>7. HasLayout(Frame(f), f.op, f.code, lb, f.mask, body)
  BY <1>4, <1>6
<1>8. Extra(f.code) \in Nat /\ Len(f.data) \in Nat
  BY InputTypes DEF Extra
<1>9. 2 + Extra(f.code) + 4 = 6 + Extra(f.code)
  BY <1>8
<1> QED
  BY <1>1, <1>2, <1>3, <1>5, <1>7, <1>8, <1>9 DEF lb, HasLayout

\* A frame of a browser has six bytes at least.
LEMMA FrameLong ==
    ASSUME NEW f \in Inputs
    PROVE  /\ Extra(f.code) \in Nat /\ Len(f.data) \in Nat
           /\ Len(Frame(f)) \in Nat /\ Len(Frame(f)) >= 6
<1>1. Extra(f.code) \in Nat /\ Len(f.data) \in Nat
  BY InputTypes DEF Extra
<1>2. Len(Frame(f)) = 6 + Extra(f.code) + Len(f.data)
  BY FrameLayout
<1> QED
  BY <1>1, <1>2

\* A frame for the browser has no key.
LEMMA PlainLayout ==
    ASSUME NEW op \in Byte, NEW code \in Byte, NEW lb \in Seq(Byte), NEW body \in Seq(Byte)
    PROVE  HasLayout(<<op, code>> \o lb \o body, op, code, lb, <<>>, body)
<1>1. <<op, code>> \in Seq(Byte) /\ Len(<<op, code>>) = 2
      /\ <<op, code>>[1] = op /\ <<op, code>>[2] = code
  OBVIOUS
<1>2. <<op, code>> \o lb \in Seq(Byte) /\ IsConcat(<<op, code>> \o lb, <<op, code>>, lb)
  BY <1>1, Concatenation
<1>3. IsConcat(<<op, code>> \o lb \o body, <<op, code>> \o lb, body)
  BY <1>2, Concatenation
<1>4. ASSUME NEW two \in Seq(Byte), Len(two) = 2, two[1] = op, two[2] = code,
             NEW F1, IsConcat(F1, two, lb), NEW F, IsConcat(F, F1, body)
      PROVE  HasLayout(F, op, code, lb, <<>>, body)
  <2>1. Len(<<>>) = 0 /\ Len(lb) \in Nat
    OBVIOUS
  <2>2. /\ F1 \in Seq(Byte) /\ Len(F1) = 2 + Len(lb)
        /\ F1[1] = op /\ F1[2] = code
        /\ \A i \in 1 .. Len(lb) : F1[2 + i] = lb[i]
    BY <1>4 DEF IsConcat
  <2>3. /\ F \in Seq(Byte) /\ Len(F) = 2 + Len(lb) + Len(body)
        /\ F[1] = op /\ F[2] = code
        /\ \A i \in 1 .. Len(lb) : F[2 + i] = lb[i]
        /\ \A i \in 1 .. Len(body) : F[2 + Len(lb) + i] = body[i]
    BY <1>4, <2>1, <2>2 DEF IsConcat
  <2> QED
    BY <2>1, <2>3 DEF HasLayout
<1> QED
  BY <1>1, <1>2, <1>3, <1>4

\* A message that is sent, and how its length is told.
CodeFor(m) == IF Len(m) < Len16 THEN Len(m) ELSE Len16

\* What is where in a frame for a browser.
LEMMA FrameToLayout ==
    ASSUME NEW m \in Seq(Byte), Len(m) < Base * Base
    PROVE  /\ CodeFor(m) \in Byte /\ CodeFor(m) # Len64 /\ Fits(CodeFor(m), Len(m))
           /\ FrameTo(m) \in Seq(Byte) /\ Len(FrameTo(m)) = 2 + Extra(CodeFor(m)) + Len(m)
           /\ FrameTo(m)[2] = CodeFor(m)
           /\ \A i \in 1 .. Extra(CodeFor(m)) : FrameTo(m)[2 + i] = LengthBytes(CodeFor(m), Len(m))[i]
           /\ \A i \in 1 .. Len(m) : FrameTo(m)[2 + Extra(CodeFor(m)) + i] = m[i]
<1>1. Len16 \in Nat /\ Base \in Nat /\ Len16 + 1 < Base /\ TextFrame \in Byte /\ Len(m) \in Nat
  BY FramesAssumption DEF Len64
<1>2. CodeFor(m) \in Byte /\ CodeFor(m) # Len64 /\ Fits(CodeFor(m), Len(m))
  BY <1>1 DEF CodeFor, Fits, Len64, Byte
<1>3. PICK lb : lb = LengthBytes(CodeFor(m), Len(m))
  OBVIOUS
<1>4. lb \in Seq(Byte) /\ Len(lb) = Extra(CodeFor(m))
  BY <1>1, <1>2, <1>3, LengthBytesType
<1>5. FrameTo(m) = <<TextFrame, CodeFor(m)>> \o lb \o m
  BY <1>3 DEF FrameTo, CodeFor
<1>6. HasLayout(<<TextFrame, CodeFor(m)>> \o lb \o m, TextFrame, CodeFor(m), lb, <<>>, m)
  BY <1>1, <1>2, <1>4, PlainLayout
<1>7. HasLayout(FrameTo(m), TextFrame, CodeFor(m), lb, <<>>, m)
  BY <1>5, <1>6
<1>8. Len(<<>>) = 0 /\ Extra(CodeFor(m)) \in Nat
  BY DEF Extra
<1> QED
  BY <1>1, <1>2, <1>3, <1>4, <1>7, <1>8 DEF HasLayout

-----------------------------------------------------------------------------
(* What is read of bytes that begin with a frame                           *)

\* b and F agree as far as both go.
Starts(b, F) == b \in Seq(Byte) /\ \A j \in 1 .. Len(b) : j <= Len(F) => b[j] = F[j]

\* Two bytes are enough to know the opcode and how the length is told.
LEMMA HeadRead ==
    ASSUME NEW f \in Inputs, NEW b, Starts(b, Frame(f)), Len(b) >= 2
    PROVE  b[1] = f.op /\ b[2] = f.code
<1>1. Len(Frame(f)) \in Nat /\ Len(Frame(f)) >= 6
  BY FrameLong
<1>2. b \in Seq(Byte) /\ \A j \in 1 .. Len(b) : j <= Len(Frame(f)) => b[j] = Frame(f)[j]
  BY DEF Starts
<1>3. b[1] = Frame(f)[1] /\ b[2] = Frame(f)[2]
  BY <1>1, <1>2
<1> QED
  BY <1>3, FrameLayout

\* The two bytes of a length.
LEMMA TwoRead ==
    ASSUME NEW n \in Nat, n < Base * Base, NEW x, NEW y,
           x = LengthBytes(Len16, n)[1], y = LengthBytes(Len16, n)[2]
    PROVE  Base * x + y = n
<1>1. Len16 \in Nat /\ Len64 # Len16 /\ Base \in Nat
  BY FramesAssumption DEF Len64
<1>2. x = n \div Base /\ y = n % Base
  BY <1>1 DEF LengthBytes
<1>3. n \div Base \in Nat /\ n % Base \in Byte /\ (n \div Base) * Base + (n % Base) = n
  BY <1>1, DigitOff
<1>4. x \in Nat /\ y \in Nat /\ x * Base + y = n
  BY <1>1, <1>2, <1>3 DEF Byte
<1> QED
  BY <1>1, <1>4

\* With the header of a frame wsd knows its length, if it is in step with it.
LEMMA LengthRead ==
    ASSUME NEW f \in Inputs, ~OutOfStep(f), NEW b, Starts(b, Frame(f)), Len(b) >= 6 + Extra(f.code)
    PROVE  Length(b) = Len(f.data)
<1> DEFINE n == Len(f.data)
<1>1. Extra(f.code) \in Nat /\ n \in Nat /\ Len(Frame(f)) = 6 + Extra(f.code) + n
  BY FrameLong, FrameLayout
<1>2. Fits(f.code, n)
  BY InputTypes
<1>3. b[2] = f.code
  BY <1>1, HeadRead
<1>4. \A i \in 1 .. Extra(f.code) : Frame(f)[2 + i] = LengthBytes(f.code, n)[i]
  BY FrameLayout
<1>5. b \in Seq(Byte) /\ \A j \in 1 .. Len(b) : j <= Len(Frame(f)) => b[j] = Frame(f)[j]
  BY DEF Starts
<1> HIDE DEF n
<1>6. ASSUME NEW i \in 1 .. Extra(f.code) PROVE b[2 + i] = LengthBytes(f.code, n)[i]
  <2>1. 2 + i \in 1 .. Len(b) /\ 2 + i <= Len(Frame(f))
    BY <1>1, <1>5
  <2> QED
    BY <1>4, <1>5, <2>1
<1>7. Len16 \in Nat /\ Len64 # Len16 /\ Base \in Nat
  BY FramesAssumption DEF Len64
<1>8. CASE f.code = Len64
  <2>1. n < Word
    BY <1>2, <1>7, <1>8 DEF Fits
  <2>2. PICK w : w = Eight(n)
    OBVIOUS
  <2>3. w \in [1 .. 8 -> Byte] /\ Number(w) = n
    BY <1>1, <2>1, <2>2, Digits
  <2>4. \A i \in 1 .. 8 : b[2 + i] = w[i]
    BY <1>6, <1>8, <2>2 DEF Extra, LengthBytes
  <2>5. ~ \E j \in 2 .. 8 : w[j] >= Base \div 2
    BY <1>8, <2>2 DEF OutOfStep, n
  <2>6. ASSUME NEW i \in 1 .. 8 PROVE Wide(b)[i] = w[i]
    <3>1. ASSUME NEW j \in i + 1 .. 8 PROVE ~(b[2 + j] >= Base \div 2)
      <4>1. j \in 2 .. 8 /\ j \in 1 .. 8
        OBVIOUS
      <4> QED
        BY <2>4, <2>5, <4>1
    <3>2. Wide(b)[i] = IF \E j \in i + 1 .. 8 : b[2 + j] >= Base \div 2 THEN Base - 1 ELSE b[2 + i]
      BY DEF Wide
    <3> QED
      BY <2>4, <3>1, <3>2
  <2>7. Wide(b)[1] = w[1] /\ Wide(b)[2] = w[2] /\ Wide(b)[3] = w[3] /\ Wide(b)[4] = w[4]
        /\ Wide(b)[5] = w[5] /\ Wide(b)[6] = w[6] /\ Wide(b)[7] = w[7] /\ Wide(b)[8] = w[8]
    BY <2>6
  <2>8. Number(Wide(b)) = Number(w)
    BY <2>7, Zenon DEF Number
  <2> QED
    BY <1>3, <1>8, <2>3, <2>8 DEF Length, n
<1>9. CASE f.code = Len16
  <2>1. n < Base * Base
    BY <1>2, <1>7, <1>9 DEF Fits
  <2>2. Extra(f.code) = 2
    BY <1>7, <1>9 DEF Extra
  <2>3. b[3] = LengthBytes(Len16, n)[1] /\ b[4] = LengthBytes(Len16, n)[2]
    <3>1. b[2 + 1] = LengthBytes(Len16, n)[1] /\ b[2 + 2] = LengthBytes(Len16, n)[2]
      BY <1>6, <1>9, <2>2
    <3> QED
      BY <3>1
  <2>4. Base * b[3] + b[4] = n
    BY <1>1, <2>1, <2>3, TwoRead
  <2> QED
    BY <1>3, <1>7, <1>9, <2>4 DEF Length, n
<1>10. CASE f.code # Len64 /\ f.code # Len16
  BY <1>2, <1>3, <1>10 DEF Length, Fits, n
<1> QED
  BY <1>8, <1>9, <1>10

\* What process_client_ws waits for is the whole frame.
LEMMA WholeRead ==
    ASSUME NEW f \in Inputs, ~OutOfStep(f), NEW b, Starts(b, Frame(f)), Len(b) >= 2
    PROVE  /\ Whole(b) <=> Len(b) >= Len(Frame(f))
           /\ Whole(b) => Header(b[2]) + Length(b) = Len(Frame(f))
<1>1. Extra(f.code) \in Nat /\ Len(f.data) \in Nat /\ Len(Frame(f)) = 6 + Extra(f.code) + Len(f.data)
  BY FrameLong, FrameLayout
<1>2. b[2] = f.code /\ Len(b) \in Nat
  BY HeadRead DEF Starts
<1>3. Header(b[2]) = 6 + Extra(f.code)
  BY <1>2 DEF Header, Extra
<1>4. CASE Len(b) >= 6 + Extra(f.code)
  <2>1. Length(b) = Len(f.data)
    BY <1>4, LengthRead
  <2>2. Header(b[2]) + Length(b) = Len(Frame(f))
    BY <1>1, <1>3, <2>1
  <2>3. Needed(b) = Len(Frame(f))
    <3>1. CASE f.code = Len64
      <4>1. Extra(f.code) = 8
        BY <3>1 DEF Extra
      <4>2. Base \in Nat
        BY FramesAssumption
      <4>3. Word \in Nat
        BY <4>2 DEF Word
      <4>4. Len(Frame(f)) \in Nat /\ Len(Frame(f)) < Word
        BY <1>1, <3>1, <4>1, <4>3, InputTypes
      <4>5. Len(Frame(f)) % Word = Len(Frame(f))
        BY <4>3, <4>4
      <4> QED
        BY <1>2, <2>2, <3>1, <4>5 DEF Needed
    <3>2. CASE f.code # Len64
      BY <1>2, <2>2, <3>2 DEF Needed
    <3> QED
      BY <3>1, <3>2
  <2> QED
    BY <1>3, <1>4, <2>2, <2>3 DEF Whole
<1>5. CASE ~(Len(b) >= 6 + Extra(f.code))
  BY <1>1, <1>2, <1>3, <1>5 DEF Whole
<1> QED
  BY <1>4, <1>5

\* What it makes of it is what the browser meant.
LEMMA PayloadRead ==
    ASSUME NEW f \in Inputs, ~OutOfStep(f), NEW b, Starts(b, Frame(f)), Len(b) >= Len(Frame(f))
    PROVE  Payload(b) = f.data
<1>1. Extra(f.code) \in Nat /\ Len(f.data) \in Nat /\ Len(Frame(f)) = 6 + Extra(f.code) + Len(f.data)
  BY FrameLong, FrameLayout
<1>2. Len(b) \in Nat /\ b \in Seq(Byte) /\ \A j \in 1 .. Len(b) : j <= Len(Frame(f)) => b[j] = Frame(f)[j]
  BY DEF Starts
<1>3. b[2] = f.code /\ Length(b) = Len(f.data)
  BY <1>1, <1>2, HeadRead, LengthRead
<1>4. PICK h : h = 6 + Extra(f.code)
  OBVIOUS
<1>5. Header(b[2]) = h /\ h \in Nat /\ h >= 6 /\ Len(Frame(f)) = h + Len(f.data)
  BY <1>1, <1>3, <1>4 DEF Header, Extra
<1>6. f.data \in Seq(Byte) /\ f.mask \in [1 .. 4 -> Byte]
  BY InputTypes
<1>7. \A i \in 1 .. 4 : Frame(f)[2 + Extra(f.code) + i] = f.mask[i]
  BY FrameLayout
<1>8. \A i \in 1 .. Len(f.data) : Frame(f)[h + i] = Xor(f.data[i], f.mask[((i - 1) % 4) + 1])
  BY <1>4, FrameLayout
<1>9. ASSUME NEW i \in 1 .. Len(f.data)
      PROVE  Xor(b[h + i], b[h - 3 + ((i - 1) % 4)]) = f.data[i]
  <2>1. PICK k : k = ((i - 1) % 4) + 1
    OBVIOUS
  <2>2. k \in 1 .. 4 /\ h - 3 + ((i - 1) % 4) = h - 4 + k
    BY <1>5, <2>1
  <2>3. b[h + i] = Xor(f.data[i], f.mask[k])
    <3>1. h + i \in 1 .. Len(b) /\ h + i <= Len(Frame(f))
      BY <1>1, <1>2, <1>5
    <3> QED
      BY <1>2, <1>8, <2>1, <3>1
  <2>4. b[h - 4 + k] = f.mask[k]
    <3>1. h - 4 + k \in 1 .. Len(b) /\ h - 4 + k <= Len(Frame(f)) /\ h - 4 + k = 2 + Extra(f.code) + k
      <4>1. k \in 1 .. 4 /\ Len(f.data) \in Nat /\ Len(b) \in Nat /\ Extra(f.code) \in Nat
        BY <1>1, <1>2, <2>2
      <4>2. Len(b) >= h + Len(f.data) /\ h \in Nat /\ h >= 6
        BY <1>5
      <4>3. h - 4 + k \in 1 .. Len(b) /\ h - 4 + k <= h + Len(f.data)
        BY <4>1, <4>2
      <4>4. h - 4 + k = 2 + Extra(f.code) + k
        BY <1>4, <4>1
      <4> QED
        BY <1>5, <4>3, <4>4
    <3> QED
      BY <1>2, <1>7, <2>2, <3>1
  <2>5. f.data[i] \in Byte /\ f.mask[k] \in Byte
    BY <1>6, <2>2
  <2>6. Xor(Xor(f.data[i], f.mask[k]), f.mask[k]) = f.data[i]
    BY <2>5, FramesAssumption
  <2> QED
    BY <2>2, <2>3, <2>4, <2>6
<1>10. Payload(b) = [i \in 1 .. Len(f.data) |-> Xor(b[h + i], b[h - 3 + ((i - 1) % 4)])]
  BY <1>3, <1>5 DEF Payload
<1>11. f.data = [i \in 1 .. Len(f.data) |-> f.data[i]]
  BY <1>6
<1> QED
  BY <1>9, <1>10, <1>11

\* What the browser makes of bytes that begin with a frame for it.
LEMMA ExtentRead ==
    ASSUME NEW m \in Seq(Byte), Len(m) < Base * Base,
           NEW b \in Seq(Byte), Starts(b, FrameTo(m))
    PROVE  /\ HasFrame(b) <=> Len(b) >= Len(FrameTo(m))
           /\ HasFrame(b) => /\ Extent(b) = Len(FrameTo(m))
                             /\ SubSeq(b, Lead(b) + 1, Extent(b)) = m
<1> DEFINE code == CodeFor(m)
<1>1. /\ code \in Byte /\ code # Len64 /\ Fits(code, Len(m))
      /\ Len(FrameTo(m)) = 2 + Extra(code) + Len(m) /\ FrameTo(m)[2] = code
  BY FrameToLayout
<1>2. \A i \in 1 .. Extra(code) : FrameTo(m)[2 + i] = LengthBytes(code, Len(m))[i]
  BY FrameToLayout
<1>3. \A i \in 1 .. Len(m) : FrameTo(m)[2 + Extra(code) + i] = m[i]
  BY FrameToLayout
<1>4. PICK e : e = Extra(code)
  OBVIOUS
<1> HIDE DEF code
<1>5. e \in Nat /\ Len(m) \in Nat /\ Len(b) \in Nat
  BY <1>4 DEF Extra
<1>6. \A j \in 1 .. Len(b) : j <= Len(FrameTo(m)) => b[j] = FrameTo(m)[j]
  BY DEF Starts
<1>7. PICK l : l = Len(FrameTo(m))
  OBVIOUS
<1>8. l = 2 + e + Len(m)
  BY <1>1, <1>4, <1>7
<1>9. CASE Len(b) < 2
  BY <1>5, <1>7, <1>8, <1>9 DEF HasFrame
<1>10. CASE Len(b) >= 2
  <2>1. b[2] = code
    BY <1>1, <1>5, <1>6, <1>7, <1>8, <1>10
  <2>2. Lead(b) = 2 + e
    BY <1>4, <2>1 DEF Lead, Extra
  <2>3. CASE Len(b) < 2 + e
    BY <1>5, <1>7, <1>8, <2>2, <2>3 DEF HasFrame
  <2>4. CASE Len(b) >= 2 + e
    <3>1. Extent(b) = l
      <4>1. Len16 \in Nat /\ Len64 # Len16 /\ Base \in Nat
        BY FramesAssumption DEF Len64
      <4>2. CASE code = Len16
        <5>1. e = 2
          BY <1>4, <4>1, <4>2 DEF Extra
        <5>2. Len(m) < Base * Base
          OBVIOUS
        <5>3. b[2 + 1] = LengthBytes(Len16, Len(m))[1] /\ b[2 + 2] = LengthBytes(Len16, Len(m))[2]
          <6>1. ASSUME NEW i \in 1 .. 2 PROVE b[2 + i] = LengthBytes(Len16, Len(m))[i]
            <7>1. 2 + i \in 1 .. Len(b) /\ 2 + i <= Len(FrameTo(m))
              BY <1>5, <1>7, <1>8, <2>4, <5>1
            <7> QED
              BY <1>2, <1>4, <1>6, <4>2, <5>1, <7>1
          <6> QED
            BY <6>1
        <5>4. Base * b[3] + b[4] = Len(m)
          BY <1>5, <5>2, <5>3, TwoRead
        <5> QED
          BY <1>1, <1>8, <2>1, <2>2, <4>2, <5>4 DEF Extent
      <4>3. CASE code # Len16
        BY <1>1, <1>8, <2>1, <2>2, <4>3 DEF Extent, Fits
      <4> QED
        BY <4>2, <4>3
    <3>2. HasFrame(b) <=> Len(b) >= l
      BY <1>10, <2>2, <2>4, <3>1 DEF HasFrame
    <3>3. ASSUME Len(b) >= l PROVE SubSeq(b, 2 + e + 1, l) = m
      <4>1. ASSUME NEW i \in 1 .. Len(m) PROVE b[2 + e + i] = m[i]
        <5>1. 2 + e + i \in 1 .. Len(b) /\ 2 + e + i <= l
          BY <1>5, <1>8, <3>3
        <5> QED
          BY <1>3, <1>4, <1>6, <1>7, <5>1
      <4>2. l <= Len(b) /\ l \in Nat
        BY <1>5, <1>8, <3>3
      <4>3. PICK u : u = SubSeq(b, 2 + e + 1, l)
        OBVIOUS
      <4>4. \A i \in 2 + e + 1 .. l : b[i] \in Byte
        <5>1. \A i \in 2 + e + 1 .. l : i \in 1 .. Len(b)
          BY <1>5, <4>2
        <5> QED
          BY <5>1
      <4>5. /\ SubSeq(b, 2 + e + 1, l) \in Seq(Byte)
            /\ Len(SubSeq(b, 2 + e + 1, l)) = IF 2 + e + 1 <= l THEN l - (2 + e + 1) + 1 ELSE 0
            /\ \A i \in 1 .. l - (2 + e + 1) + 1 : SubSeq(b, 2 + e + 1, l)[i] = b[2 + e + 1 + i - 1]
        <5>1. 2 + e + 1 \in Int /\ l \in Int
          BY <1>5, <4>2
        <5> QED
          BY <4>4, <5>1, SubSeqProperties
      <4>6. u \in Seq(Byte) /\ Len(u) = Len(m)
        BY <1>5, <1>8, <4>3, <4>5
      <4>7. ASSUME NEW i \in 1 .. Len(m) PROVE u[i] = m[i]
        <5>1. i \in 1 .. l - (2 + e + 1) + 1 /\ 2 + e + 1 + i - 1 = 2 + e + i
          BY <1>5, <1>8
        <5> QED
          BY <4>1, <4>3, <4>5, <5>1
      <4>8. u = m
        BY <4>6, <4>7
      <4> QED
        BY <4>3, <4>8
    <3> QED
      BY <1>7, <2>2, <3>1, <3>2, <3>3
  <2> QED
    BY <1>5, <2>3, <2>4
<1> QED
  BY <1>5, <1>9, <1>10

-----------------------------------------------------------------------------
(* Bytes that are frames one behind the other                              *)

\* S is the first n of strs, one behind the other: there are places where they end.
Joined(S, strs, n) ==
    /\ S \in Seq(Byte) /\ n \in Nat
    /\ \E e \in [0 .. n -> 0 .. Len(S)] :
        /\ e[0] = 0 /\ e[n] = Len(S)
        /\ \A i, k \in 0 .. n : i <= k => e[i] <= e[k]
        /\ \A i \in 1 .. n :
            /\ e[i] = e[i - 1] + Len(strs[i])
            /\ \A j \in 1 .. Len(strs[i]) : S[e[i - 1] + j] = strs[i][j]

\* No sequences, one behind the other, are nothing.
LEMMA JoinedEmpty == ASSUME NEW strs PROVE Joined(<<>>, strs, 0)
<1>1. <<>> \in Seq(Byte) /\ Len(<<>>) = 0
  OBVIOUS
<1>2. [i \in 0 .. 0 |-> 0] \in [0 .. 0 -> 0 .. 0]
  OBVIOUS
<1>3. PICK e \in [0 .. 0 -> 0 .. 0] : \A i \in 0 .. 0 : e[i] = 0
  BY <1>2
<1>4. e[0] = 0 /\ \A i, k \in 0 .. 0 : i <= k => e[i] <= e[k]
  BY <1>3
<1>5. 1 .. 0 = {}
  OBVIOUS
<1> QED
  BY <1>1, <1>3, <1>4, <1>5 DEF Joined

\* And nothing else.
LEMMA JoinedNothing == ASSUME NEW S, NEW strs, Joined(S, strs, 0) PROVE S = <<>>
<1>1. S \in Seq(Byte) /\ Len(S) = 0
  BY DEF Joined
<1> QED
  BY <1>1

\* The bytes begin with the first.
LEMMA JoinedStarts ==
    ASSUME NEW S, NEW strs, NEW n \in Nat, Joined(S, strs, n), n > 0, Len(strs[1]) \in Nat
    PROVE  /\ Len(strs[1]) <= Len(S) /\ Len(S) \in Nat
           /\ \A j \in 1 .. Len(strs[1]) : S[j] = strs[1][j]
<1>1. PICK e \in [0 .. n -> 0 .. Len(S)] :
        /\ e[0] = 0 /\ e[n] = Len(S)
        /\ \A i, k \in 0 .. n : i <= k => e[i] <= e[k]
        /\ \A i \in 1 .. n :
            /\ e[i] = e[i - 1] + Len(strs[i])
            /\ \A j \in 1 .. Len(strs[i]) : S[e[i - 1] + j] = strs[i][j]
  BY DEF Joined
<1>2. S \in Seq(Byte) /\ Len(S) \in Nat
  BY DEF Joined
<1>3. e[1] = e[1 - 1] + Len(strs[1]) /\ \A j \in 1 .. Len(strs[1]) : S[e[1 - 1] + j] = strs[1][j]
  BY <1>1
<1>4. e[1 - 1] = 0
  BY <1>1
<1>5. e[1] = Len(strs[1]) /\ e[1] <= e[n]
  BY <1>1, <1>3, <1>4
<1> QED
  BY <1>1, <1>2, <1>3, <1>4, <1>5

\* Without the first.
Tailed(R, S, l) ==
    R \in Seq(Byte) /\ Len(R) = Len(S) - l /\ \A j \in 1 .. Len(R) : R[j] = S[l + j]
Shifted(rest, strs, n) ==
    \A i \in 1 .. n - 1 : rest[i] = strs[i + 1] /\ Len(strs[i]) \in Nat /\ Len(strs[i + 1]) \in Nat

\* Without its first bytes, what is joined are the sequences but the first.
LEMMA JoinedRest ==
    ASSUME NEW S, NEW strs, NEW n \in Nat, Joined(S, strs, n), n > 0, Len(strs[1]) \in Nat,
           NEW R, Tailed(R, S, Len(strs[1])), NEW rest, Shifted(rest, strs, n)
    PROVE  Joined(R, rest, n - 1)
<1>1. PICK e \in [0 .. n -> 0 .. Len(S)] :
        /\ e[0] = 0 /\ e[n] = Len(S)
        /\ \A i, k \in 0 .. n : i <= k => e[i] <= e[k]
        /\ \A i \in 1 .. n :
            /\ e[i] = e[i - 1] + Len(strs[i])
            /\ \A j \in 1 .. Len(strs[i]) : S[e[i - 1] + j] = strs[i][j]
  BY DEF Joined
<1>2. Len(S) \in Nat /\ Len(R) \in Nat /\ R \in Seq(Byte)
  BY DEF Joined, Tailed
<1>3. PICK l : l = Len(strs[1])
  OBVIOUS
<1>4. l \in Nat /\ e[1] = l /\ Len(R) = Len(S) - l
  <2>1. e[1] = e[1 - 1] + l
    BY <1>1, <1>3
  <2>2. e[1 - 1] = 0
    BY <1>1
  <2> QED
    BY <1>3, <2>1, <2>2 DEF Tailed
<1>5. PICK d : d = [i \in 0 .. n - 1 |-> e[i + 1] - l]
  OBVIOUS
<1>6. ASSUME NEW i \in 0 .. n - 1 PROVE d[i] = e[i + 1] - l /\ d[i] \in 0 .. Len(R) /\ i + 1 \in 0 .. n
  <2>1. i + 1 \in 0 .. n /\ 1 \in 0 .. n /\ n \in 0 .. n /\ 1 <= i + 1 /\ i + 1 <= n
    OBVIOUS
  <2>2. l <= e[i + 1] /\ e[i + 1] <= Len(S) /\ e[i + 1] \in Nat
    BY <1>1, <1>2, <1>4, <2>1
  <2>3. d[i] = e[i + 1] - l
    BY <1>5
  <2> QED
    BY <1>2, <1>4, <2>1, <2>2, <2>3
<1>7. d \in [0 .. n - 1 -> 0 .. Len(R)]
  BY <1>5, <1>6
<1>8. d[0] = 0 /\ d[n - 1] = Len(R)
  <2>1. 0 \in 0 .. n - 1 /\ n - 1 \in 0 .. n - 1 /\ 0 + 1 = 1 /\ n - 1 + 1 = n
    OBVIOUS
  <2>2. d[0] = e[1] - l /\ d[n - 1] = e[n] - l
    BY <1>6, <2>1
  <2>3. e[1] = l /\ e[n] = Len(S)
    BY <1>1, <1>4
  <2> QED
    BY <1>2, <1>4, <2>2, <2>3
<1>9. ASSUME NEW i \in 0 .. n - 1, NEW k \in 0 .. n - 1, i <= k PROVE d[i] <= d[k]
  <2>1. i + 1 \in 0 .. n /\ k + 1 \in 0 .. n /\ i + 1 <= k + 1
    BY <1>9
  <2>2. e[i + 1] <= e[k + 1] /\ e[i + 1] \in Nat /\ e[k + 1] \in Nat
    BY <1>1, <2>1
  <2> QED
    BY <1>4, <1>6, <2>2
<1>10. ASSUME NEW i \in 1 .. n - 1
       PROVE  /\ d[i] = d[i - 1] + Len(rest[i])
              /\ \A j \in 1 .. Len(rest[i]) : R[d[i - 1] + j] = rest[i][j]
  <2>1. i + 1 \in 1 .. n /\ i + 1 - 1 = i /\ i \in 0 .. n /\ i + 1 \in 0 .. n /\ i - 1 \in 0 .. n - 1
        /\ i - 1 + 1 = i /\ i \in 0 .. n - 1
    OBVIOUS
  <2>2. rest[i] = strs[i + 1] /\ Len(rest[i]) \in Nat
    BY DEF Shifted
  <2>3. e[i + 1] = e[i + 1 - 1] + Len(strs[i + 1])
        /\ \A j \in 1 .. Len(strs[i + 1]) : S[e[i + 1 - 1] + j] = strs[i + 1][j]
    BY <1>1, <2>1
  <2>4. e[i + 1] = e[i] + Len(rest[i]) /\ \A j \in 1 .. Len(rest[i]) : S[e[i] + j] = rest[i][j]
    BY <2>1, <2>2, <2>3
  <2>5. d[i] = e[i + 1] - l /\ d[i - 1] = e[i] - l
    BY <1>6, <2>1
  <2>6. e[i] \in Nat /\ e[i + 1] \in Nat /\ e[i + 1] <= Len(S) /\ l <= e[i]
    <3>1. 1 \in 0 .. n /\ 1 <= i
      OBVIOUS
    <3> QED
      BY <1>1, <1>2, <1>4, <2>1, <3>1
  <2>7. PICK x, y, m : x = e[i] /\ y = e[i + 1] /\ m = Len(rest[i])
    OBVIOUS
  <2>8. /\ x \in Nat /\ y \in Nat /\ m \in Nat /\ y = x + m /\ y <= Len(S) /\ l <= x
        /\ d[i] = y - l /\ d[i - 1] = x - l
    BY <2>2, <2>4, <2>5, <2>6, <2>7
  <2>9. d[i] = d[i - 1] + m
    BY <1>4, <2>8
  <2>10. ASSUME NEW j \in 1 .. m PROVE R[d[i - 1] + j] = rest[i][j]
    <3>1. d[i - 1] + j \in 1 .. Len(R) /\ l + (d[i - 1] + j) = x + j
      BY <1>2, <1>4, <2>8
    <3>2. R[d[i - 1] + j] = S[l + (d[i - 1] + j)]
      BY <1>3, <3>1 DEF Tailed
    <3> QED
      BY <2>4, <2>7, <3>1, <3>2
  <2> QED
    BY <2>7, <2>9, <2>10
<1>11. n - 1 \in Nat
  OBVIOUS
<1> QED
  BY <1>2, <1>7, <1>8, <1>9, <1>10, <1>11 DEF Joined

\* With one more.
Extended(more, strs, n, F) ==
    more[n + 1] = F /\ \A i \in 1 .. n : more[i] = strs[i] /\ Len(strs[i]) \in Nat

\* With a sequence behind it, what is joined is one more.
LEMMA JoinedMore ==
    ASSUME NEW S, NEW strs, NEW n \in Nat, Joined(S, strs, n),
           NEW F \in Seq(Byte), NEW U, IsConcat(U, S, F), NEW more, Extended(more, strs, n, F)
    PROVE  Joined(U, more, n + 1)
<1>1. PICK e \in [0 .. n -> 0 .. Len(S)] :
        /\ e[0] = 0 /\ e[n] = Len(S)
        /\ \A i, k \in 0 .. n : i <= k => e[i] <= e[k]
        /\ \A i \in 1 .. n :
            /\ e[i] = e[i - 1] + Len(strs[i])
            /\ \A j \in 1 .. Len(strs[i]) : S[e[i - 1] + j] = strs[i][j]
  BY DEF Joined
<1>2. Len(S) \in Nat /\ Len(F) \in Nat /\ U \in Seq(Byte) /\ Len(U) = Len(S) + Len(F)
  BY DEF Joined, IsConcat
<1>3. PICK d : d = [i \in 0 .. n + 1 |-> IF i <= n THEN e[i] ELSE Len(U)]
  OBVIOUS
<1>4. ASSUME NEW i \in 0 .. n PROVE d[i] = e[i] /\ e[i] \in 0 .. Len(S)
  BY <1>1, <1>3
<1>5. d[n + 1] = Len(U)
  BY <1>3
<1>6. ASSUME NEW i \in 0 .. n + 1 PROVE d[i] \in 0 .. Len(U)
  <2>1. CASE i \in 0 .. n
    BY <1>2, <1>4, <2>1
  <2>2. CASE i = n + 1
    BY <1>2, <1>5, <2>2
  <2> QED
    BY <2>1, <2>2
<1>7. d \in [0 .. n + 1 -> 0 .. Len(U)]
  BY <1>3, <1>6
<1>8. d[0] = 0 /\ d[n] = Len(S)
  BY <1>1, <1>4
<1>9. ASSUME NEW i \in 0 .. n + 1, NEW k \in 0 .. n + 1, i <= k PROVE d[i] <= d[k]
  <2>1. CASE k = n + 1
    BY <1>2, <1>5, <1>6, <2>1
  <2>2. CASE k # n + 1
    <3>1. i \in 0 .. n /\ k \in 0 .. n
      BY <1>9, <2>2
    <3> QED
      BY <1>1, <1>4, <1>9, <3>1
  <2> QED
    BY <2>1, <2>2
<1>10. ASSUME NEW i \in 1 .. n
       PROVE  /\ d[i] = d[i - 1] + Len(more[i])
              /\ \A j \in 1 .. Len(more[i]) : U[d[i - 1] + j] = more[i][j]
  <2>1. i \in 0 .. n /\ i - 1 \in 0 .. n
    OBVIOUS
  <2>2. more[i] = strs[i] /\ Len(more[i]) \in Nat
    BY DEF Extended
  <2>3. PICK x, y, m : x = e[i - 1] /\ y = e[i] /\ m = Len(more[i])
    OBVIOUS
  <2>4. /\ y = x + m /\ \A j \in 1 .. m : S[x + j] = more[i][j]
        /\ x \in Nat /\ y \in Nat /\ m \in Nat /\ y <= Len(S)
    <3>1. e[i] = e[i - 1] + Len(strs[i]) /\ \A j \in 1 .. Len(strs[i]) : S[e[i - 1] + j] = strs[i][j]
      BY <1>1
    <3>2. e[i] \in 0 .. Len(S) /\ e[i - 1] \in 0 .. Len(S)
      BY <1>4, <2>1
    <3>3. y = x + m /\ \A j \in 1 .. m : S[x + j] = more[i][j]
      BY <2>2, <2>3, <3>1
    <3>4. x \in 0 .. Len(S) /\ y \in 0 .. Len(S) /\ m \in Nat
      BY <2>2, <2>3, <3>2
    <3>5. x \in Nat /\ y \in Nat /\ y <= Len(S)
      BY <1>2, <3>4
    <3> QED
      BY <3>3, <3>4, <3>5
  <2>5. d[i] = y /\ d[i - 1] = x
    BY <1>4, <2>1, <2>3
  <2>6. ASSUME NEW j \in 1 .. m PROVE U[x + j] = more[i][j]
    <3>1. x + j \in 1 .. Len(S)
      BY <1>2, <2>4
    <3>2. U[x + j] = S[x + j]
      BY <3>1 DEF IsConcat
    <3> QED
      BY <2>4, <3>2
  <2> QED
    BY <2>3, <2>4, <2>5, <2>6
<1>11. d[n + 1] = d[n + 1 - 1] + Len(more[n + 1])
       /\ \A j \in 1 .. Len(more[n + 1]) : U[d[n + 1 - 1] + j] = more[n + 1][j]
  <2>1. more[n + 1] = F /\ n + 1 - 1 = n
    BY DEF Extended
  <2>2. \A j \in 1 .. Len(F) : U[Len(S) + j] = F[j]
    BY DEF IsConcat
  <2> QED
    BY <1>2, <1>5, <1>8, <2>1, <2>2
<1>12. \A i \in 1 .. n + 1 : i \in 1 .. n \/ i = n + 1
  OBVIOUS
<1>13. n + 1 \in Nat
  OBVIOUS
<1>14. ASSUME NEW i \in 1 .. n + 1
       PROVE  /\ d[i] = d[i - 1] + Len(more[i])
              /\ \A j \in 1 .. Len(more[i]) : U[d[i - 1] + j] = more[i][j]
  <2>1. CASE i \in 1 .. n
    BY <1>10, <2>1
  <2>2. CASE i = n + 1
    BY <1>11, <2>2
  <2> QED
    BY <1>12, <2>1, <2>2
<1>15. d[0] = 0 /\ d[n + 1] = Len(U)
  BY <1>5, <1>8
<1>16. \A i, k \in 0 .. n + 1 : i <= k => d[i] <= d[k]
  BY <1>9
<1>17. \E e2 \in [0 .. n + 1 -> 0 .. Len(U)] :
        /\ e2[0] = 0 /\ e2[n + 1] = Len(U)
        /\ \A i, k \in 0 .. n + 1 : i <= k => e2[i] <= e2[k]
        /\ \A i \in 1 .. n + 1 :
            /\ e2[i] = e2[i - 1] + Len(more[i])
            /\ \A j \in 1 .. Len(more[i]) : U[e2[i - 1] + j] = more[i][j]
  <2> WITNESS d \in [0 .. n + 1 -> 0 .. Len(U)]
  <2> QED
    BY <1>14, <1>15, <1>16
<1> HIDE <1>1
<1> QED
  BY <1>2, <1>13, <1>17 DEF Joined

-----------------------------------------------------------------------------
(* Bytes that go from one place to another                                 *)

\* What is left when the first n were taken.
LEMMA Cut ==
    ASSUME NEW b \in Seq(Byte), NEW n \in Nat, n <= Len(b)
    PROVE  /\ SubSeq(b, n + 1, Len(b)) \in Seq(Byte)
           /\ Len(SubSeq(b, n + 1, Len(b))) = Len(b) - n
           /\ \A j \in 1 .. Len(b) - n : SubSeq(b, n + 1, Len(b))[j] = b[n + j]
           /\ SubSeq(b, 1, n) \in Seq(Byte)
<1>1. Len(b) \in Nat
  OBVIOUS
<1>2. \A j \in n + 1 .. Len(b) : b[j] \in Byte
  <2>1. \A j \in n + 1 .. Len(b) : j \in 1 .. Len(b)
    BY <1>1
  <2> QED
    BY <2>1
<1>3. n + 1 \in Int /\ Len(b) \in Int
  BY <1>1
<1>4. /\ SubSeq(b, n + 1, Len(b)) \in Seq(Byte)
      /\ Len(SubSeq(b, n + 1, Len(b))) = IF n + 1 <= Len(b) THEN Len(b) - (n + 1) + 1 ELSE 0
      /\ \A j \in 1 .. Len(b) - (n + 1) + 1 : SubSeq(b, n + 1, Len(b))[j] = b[n + 1 + j - 1]
  BY <1>2, <1>3, SubSeqProperties
<1>5. ASSUME NEW j \in 1 .. Len(b) - n PROVE SubSeq(b, n + 1, Len(b))[j] = b[n + j]
  <2>1. j \in 1 .. Len(b) - (n + 1) + 1 /\ n + 1 + j - 1 = n + j
    BY <1>1
  <2> QED
    BY <1>4, <2>1
<1>6. Len(SubSeq(b, n + 1, Len(b))) = Len(b) - n
  BY <1>1, <1>4
<1>7. SubSeq(b, 1, n) \in Seq(Byte)
  <2>1. \A j \in 1 .. n : b[j] \in Byte
    BY <1>1
  <2> QED
    BY <2>1, SubSeqProperties
<1> QED
  BY <1>4, <1>5, <1>6, <1>7

\* Bytes moved from the head of one sequence to the end of another.
LEMMA Regroup ==
    ASSUME NEW b \in Seq(Byte), NEW s1 \in Seq(Byte), NEW s2 \in Seq(Byte)
    PROVE  (b \o s1) \o s2 = b \o (s1 \o s2)
  BY ConcatAssociative

\* Bytes moved from the head of the second to the end of the first: together they stay.
LEMMA Moved ==
    ASSUME NEW b \in Seq(Byte), NEW s \in Seq(Byte), NEW n \in Nat, n <= Len(s)
    PROVE  (b \o SubSeq(s, 1, n)) \o SubSeq(s, n + 1, Len(s)) = b \o s
<1>1. Len(s) \in Nat
  OBVIOUS
<1>2. SubSeq(s, 1, n) \in Seq(Byte) /\ SubSeq(s, n + 1, Len(s)) \in Seq(Byte)
  BY Cut
<1>3. SubSeq(s, 1, n) \o SubSeq(s, n + 1, Len(s)) = s
  <2>1. 1 \in 1 .. Len(s) + 1 /\ n \in 1 - 1 .. Len(s) /\ Len(s) \in n .. Len(s)
    BY <1>1
  <2>2. SubSeq(s, 1, n) \o SubSeq(s, n + 1, Len(s)) = SubSeq(s, 1, Len(s))
    BY <2>1, ConcatAdjacentSubSeq
  <2>3. SubSeq(s, 1, Len(s)) = s
    BY SubSeqFull
  <2> QED
    BY <2>2, <2>3, Zenon
<1>4. (b \o SubSeq(s, 1, n)) \o SubSeq(s, n + 1, Len(s)) = b \o (SubSeq(s, 1, n) \o SubSeq(s, n + 1, Len(s)))
  BY <1>2, Regroup, Zenon
<1> QED
  BY <1>3, <1>4, Zenon

\* The first n of two sequences are taken from the first of them.
LEMMA Dropped ==
    ASSUME NEW b \in Seq(Byte), NEW s \in Seq(Byte), NEW n \in Nat, n <= Len(b)
    PROVE  Tailed(SubSeq(b, n + 1, Len(b)) \o s, b \o s, n)
<1>1. PICK c : c = SubSeq(b, n + 1, Len(b))
  OBVIOUS
<1>2. c \in Seq(Byte) /\ Len(c) = Len(b) - n /\ \A j \in 1 .. Len(b) - n : c[j] = b[n + j]
  BY <1>1, Cut
<1>3. IsConcat(c \o s, c, s) /\ IsConcat(b \o s, b, s)
  BY <1>2, Concatenation
<1>4. ASSUME NEW u, NEW v, IsConcat(u, c, s), IsConcat(v, b, s) PROVE Tailed(u, v, n)
  <2>1. u \in Seq(Byte) /\ Len(u) = Len(v) - n /\ Len(s) \in Nat /\ Len(b) \in Nat
        /\ Len(u) = Len(b) - n + Len(s)
    BY <1>2, <1>4 DEF IsConcat
  <2>2. ASSUME NEW j \in 1 .. Len(b) - n PROVE u[j] = v[n + j]
    <3>1. j \in 1 .. Len(c) /\ n + j \in 1 .. Len(b)
      BY <1>2, <2>1
    <3>2. u[j] = c[j] /\ v[n + j] = b[n + j]
      BY <1>4, <3>1 DEF IsConcat
    <3> QED
      BY <1>2, <3>2
  <2>3. ASSUME NEW j \in Len(b) - n + 1 .. Len(u) PROVE u[j] = v[n + j]
    <3>1. PICK k : k = j - (Len(b) - n)
      OBVIOUS
    <3>2. k \in 1 .. Len(s) /\ j = Len(c) + k /\ n + j = Len(b) + k
      <4>1. PICK p, q, r : p = Len(b) /\ q = Len(s) /\ r = Len(u)
        OBVIOUS
      <4>2. p \in Nat /\ q \in Nat /\ r = p - n + q /\ Len(c) = p - n /\ k = j - (p - n) /\ n <= p
        BY <1>2, <2>1, <3>1, <4>1
      <4>3. j \in p - n + 1 .. r
        BY <4>1
      <4>4. k \in 1 .. q /\ j = p - n + k /\ n + j = p + k
        BY <4>2, <4>3
      <4> QED
        BY <4>1, <4>2, <4>4
    <3>3. u[Len(c) + k] = s[k] /\ v[Len(b) + k] = s[k]
      BY <1>4, <3>2 DEF IsConcat
    <3> QED
      BY <3>2, <3>3
  <2>4. \A j \in 1 .. Len(u) : j \in 1 .. Len(b) - n \/ j \in Len(b) - n + 1 .. Len(u)
    BY <2>1
  <2> QED
    BY <2>1, <2>2, <2>3, <2>4 DEF Tailed
<1> QED
  BY <1>1, <1>3, <1>4

-----------------------------------------------------------------------------
(* The frames of the browser: fs are those it sent, hs the payloads that   *)
(* were processed, b and s what is in buffer_read and on its way.          *)

Rest(fs, k) == [i \in 1 .. Len(fs) - k |-> Frame(fs[k + i])]

InOrder(b, s, fs, hs) ==
    /\ b \in Seq(Byte) /\ s \in Seq(Byte)
    /\ hs \in Seq(Seq(Byte)) /\ Len(hs) <= Len(fs)
    /\ \A i \in 1 .. Len(hs) : hs[i] = fs[i].data /\ fs[i].op # ClosingFrame
    /\ \A i \in 1 .. Len(fs) - 1 : fs[i].op # ClosingFrame
    /\ Joined(b \o s, Rest(fs, Len(hs)), Len(fs) - Len(hs))

\* Nothing can be done until more bytes come: the next frame is not whole, or closes.
Waiting(b, fs, hs, closed) ==
    \/ Len(hs) = Len(fs)
    \/ Len(b) < Len(Frame(fs[Len(hs) + 1]))
    \/ fs[Len(hs) + 1].op = ClosingFrame /\ closed

\* The frames that were not processed.
LEMMA RestLong ==
    ASSUME NEW fs \in Seq(Inputs), NEW k \in Nat, k <= Len(fs), NEW i \in 1 .. Len(fs) - k
    PROVE  /\ fs[k + i] \in Inputs
           /\ Rest(fs, k)[i] = Frame(fs[k + i])
           /\ Len(Rest(fs, k)[i]) \in Nat
<1>1. k + i \in 1 .. Len(fs)
  OBVIOUS
<1>2. fs[k + i] \in Inputs
  BY <1>1
<1>3. Rest(fs, k)[i] = Frame(fs[k + i])
  BY DEF Rest
<1> QED
  BY <1>2, <1>3, FrameLong

\* The next frame is the one that buffer_read begins with.
LEMMA NextFrame ==
    ASSUME NEW fs \in Seq(Inputs), NEW b, NEW s, NEW hs, InOrder(b, s, fs, hs), Len(hs) < Len(fs)
    PROVE  /\ fs[Len(hs) + 1] \in Inputs /\ Len(hs) + 1 \in 1 .. Len(fs)
           /\ Starts(b, Frame(fs[Len(hs) + 1]))
           /\ Len(Frame(fs[Len(hs) + 1])) <= Len(b) + Len(s)
<1>1. /\ b \in Seq(Byte) /\ s \in Seq(Byte) /\ Len(b) \in Nat /\ Len(s) \in Nat
      /\ Joined(b \o s, Rest(fs, Len(hs)), Len(fs) - Len(hs))
      /\ Len(hs) \in Nat /\ Len(fs) \in Nat
  BY DEF InOrder
<1>2. Len(hs) + 1 \in 1 .. Len(fs) /\ 1 \in 1 .. Len(fs) - Len(hs)
      /\ Len(fs) - Len(hs) \in Nat /\ Len(fs) - Len(hs) > 0
  BY <1>1
<1>3. PICK F : F = Frame(fs[Len(hs) + 1])
  OBVIOUS
<1>4. fs[Len(hs) + 1] \in Inputs /\ Rest(fs, Len(hs))[1] = F /\ Len(F) \in Nat
  <2>1. Len(hs) \in Nat /\ Len(hs) <= Len(fs) /\ 1 \in 1 .. Len(fs) - Len(hs)
    BY <1>1, <1>2
  <2>2. fs[Len(hs) + 1] \in Inputs /\ Rest(fs, Len(hs))[1] = Frame(fs[Len(hs) + 1])
        /\ Len(Rest(fs, Len(hs))[1]) \in Nat
    BY <2>1, RestLong
  <2> QED
    BY <1>3, <2>2
<1>5. Len(F) <= Len(b \o s) /\ \A j \in 1 .. Len(F) : (b \o s)[j] = F[j]
  BY <1>1, <1>2, <1>4, JoinedStarts
<1>6. IsConcat(b \o s, b, s)
  BY <1>1, Concatenation
<1>7. ASSUME NEW u, IsConcat(u, b, s), Len(F) <= Len(u), \A j \in 1 .. Len(F) : u[j] = F[j]
      PROVE  Starts(b, F) /\ Len(F) <= Len(b) + Len(s)
  <2>1. Len(u) = Len(b) + Len(s) /\ \A j \in 1 .. Len(b) : u[j] = b[j]
    BY <1>7 DEF IsConcat
  <2>2. ASSUME NEW j \in 1 .. Len(b), j <= Len(F) PROVE b[j] = F[j]
    BY <1>1, <1>4, <1>7, <2>1, <2>2
  <2> QED
    BY <1>1, <1>7, <2>1, <2>2 DEF Starts
<1> QED
  BY <1>2, <1>3, <1>4, <1>5, <1>6, <1>7

\* Once all frames are processed no byte is left.
LEMMA NoneLeft ==
    ASSUME NEW fs \in Seq(Inputs), NEW b, NEW s, NEW hs, InOrder(b, s, fs, hs), Len(hs) = Len(fs)
    PROVE  b = <<>> /\ s = <<>>
<1>1. /\ b \in Seq(Byte) /\ s \in Seq(Byte) /\ Len(fs) \in Nat
      /\ Joined(b \o s, Rest(fs, Len(hs)), Len(fs) - Len(hs))
  BY DEF InOrder
<1>2. Len(fs) - Len(hs) = 0
  BY <1>1
<1>3. b \o s = <<>>
  BY <1>1, <1>2, JoinedNothing
<1> QED
  BY <1>1, <1>3, ConcatEqualIffEmpty

\* The browser sends a frame.
LEMMA OneMore ==
    ASSUME NEW fs \in Seq(Inputs), NEW f \in Inputs, NEW b, NEW s, NEW hs, InOrder(b, s, fs, hs),
           \A i \in 1 .. Len(fs) : fs[i].op # ClosingFrame
    PROVE  InOrder(b, s \o Frame(f), Append(fs, f), hs)
<1>1. PICK gs, k, n : gs = Append(fs, f) /\ k = Len(hs) /\ n = Len(fs) - Len(hs)
  OBVIOUS
<1>2. /\ b \in Seq(Byte) /\ s \in Seq(Byte) /\ hs \in Seq(Seq(Byte)) /\ Len(hs) <= Len(fs)
      /\ \A i \in 1 .. Len(hs) : hs[i] = fs[i].data /\ fs[i].op # ClosingFrame
      /\ Joined(b \o s, Rest(fs, Len(hs)), Len(fs) - Len(hs))
  BY DEF InOrder
<1>3. gs \in Seq(Inputs) /\ Len(gs) = Len(fs) + 1 /\ Len(fs) \in Nat
      /\ gs[Len(fs) + 1] = f /\ \A i \in 1 .. Len(fs) : gs[i] = fs[i]
  BY <1>1
<1>4. k \in Nat /\ k <= Len(fs) /\ n \in Nat /\ n = Len(fs) - k /\ Len(gs) - k = n + 1
  BY <1>1, <1>2, <1>3
<1>5. Frame(f) \in Seq(Byte)
  BY FrameLayout
<1>6. Extended(Rest(gs, k), Rest(fs, k), n, Frame(f))
  <2>1. Rest(gs, k)[n + 1] = Frame(f)
    <3>1. n + 1 \in 1 .. Len(gs) - k /\ k + (n + 1) = Len(fs) + 1
      BY <1>3, <1>4
    <3> QED
      BY <1>3, <3>1 DEF Rest
  <2>2. ASSUME NEW i \in 1 .. n PROVE Rest(gs, k)[i] = Rest(fs, k)[i] /\ Len(Rest(fs, k)[i]) \in Nat
    <3>1. i \in 1 .. Len(fs) - k /\ i \in 1 .. Len(gs) - k /\ k + i \in 1 .. Len(fs)
      BY <1>3, <1>4
    <3>2. Rest(fs, k)[i] = Frame(fs[k + i]) /\ Len(Rest(fs, k)[i]) \in Nat
      BY <1>4, <3>1, RestLong
    <3>3. Rest(gs, k)[i] = Frame(gs[k + i])
      BY <3>1 DEF Rest
    <3> QED
      BY <1>3, <3>1, <3>2, <3>3
  <2> QED
    BY <2>1, <2>2 DEF Extended
<1>7. b \o s \in Seq(Byte) /\ s \o Frame(f) \in Seq(Byte)
  BY <1>2, <1>5, Concatenation
<1>8. IsConcat((b \o s) \o Frame(f), b \o s, Frame(f))
  BY <1>5, <1>7, Concatenation
<1>9. Joined((b \o s) \o Frame(f), Rest(gs, k), n + 1)
  BY <1>1, <1>2, <1>4, <1>5, <1>6, <1>8, JoinedMore
<1>10. (b \o s) \o Frame(f) = b \o (s \o Frame(f))
  BY <1>2, <1>5, Regroup
<1>11. Joined(b \o (s \o Frame(f)), Rest(gs, k), Len(gs) - k)
  BY <1>4, <1>9, <1>10
<1>12. \A i \in 1 .. Len(hs) : hs[i] = gs[i].data /\ gs[i].op # ClosingFrame
  BY <1>1, <1>2, <1>3, <1>4
<1>13. \A i \in 1 .. Len(gs) - 1 : gs[i].op # ClosingFrame
  BY <1>3
<1>14. InOrder(b, s \o Frame(f), gs, hs)
  BY <1>1, <1>2, <1>3, <1>4, <1>7, <1>11, <1>12, <1>13 DEF InOrder
<1> QED
  BY <1>1, <1>14

\* What was waited for is waited for when one more frame is sent.
LEMMA WaitingStays ==
    ASSUME NEW fs \in Seq(Inputs), NEW f \in Inputs, NEW b, NEW s, NEW hs, NEW closed,
           InOrder(b, s, fs, hs), Waiting(b, fs, hs, closed)
    PROVE  Waiting(b, Append(fs, f), hs, closed)
<1>1. Len(hs) \in Nat /\ Len(fs) \in Nat /\ Len(hs) <= Len(fs)
  BY DEF InOrder
<1>2. PICK gs : gs = Append(fs, f)
  OBVIOUS
<1>3. Len(gs) = Len(fs) + 1 /\ gs[Len(fs) + 1] = f /\ \A i \in 1 .. Len(fs) : gs[i] = fs[i]
  BY <1>2
<1>4. CASE Len(hs) = Len(fs)
  <2>1. b = <<>> /\ gs[Len(hs) + 1] = f
    BY <1>3, <1>4, NoneLeft
  <2>2. Len(b) < Len(Frame(gs[Len(hs) + 1]))
    BY <2>1, FrameLong
  <2> QED
    BY <1>2, <2>2 DEF Waiting
<1>5. CASE Len(hs) < Len(fs)
  <2>1. gs[Len(hs) + 1] = fs[Len(hs) + 1]
    BY <1>1, <1>3, <1>5
  <2> QED
    BY <1>1, <1>2, <1>5, <2>1 DEF Waiting
<1> QED
  BY <1>1, <1>4, <1>5

\* recv takes bytes off the way.
LEMMA ReadOn ==
    ASSUME NEW fs \in Seq(Inputs), NEW b, NEW s, NEW hs, InOrder(b, s, fs, hs),
           NEW n \in Nat, n <= Len(s)
    PROVE  InOrder(b \o SubSeq(s, 1, n), SubSeq(s, n + 1, Len(s)), fs, hs)
<1>1. b \in Seq(Byte) /\ s \in Seq(Byte)
  BY DEF InOrder
<1>2. SubSeq(s, 1, n) \in Seq(Byte) /\ SubSeq(s, n + 1, Len(s)) \in Seq(Byte)
  BY <1>1, Cut
<1>3. b \o SubSeq(s, 1, n) \in Seq(Byte)
  BY <1>1, <1>2, Concatenation
<1>4. (b \o SubSeq(s, 1, n)) \o SubSeq(s, n + 1, Len(s)) = b \o s
  BY <1>1, Moved
<1>5. Joined(b \o s, Rest(fs, Len(hs)), Len(fs) - Len(hs))
  BY DEF InOrder
<1>6. Joined((b \o SubSeq(s, 1, n)) \o SubSeq(s, n + 1, Len(s)), Rest(fs, Len(hs)), Len(fs) - Len(hs))
  BY <1>4, <1>5
<1> QED
  BY <1>2, <1>3, <1>6 DEF InOrder

\* A frame is processed.
LEMMA OneTaken ==
    ASSUME NEW fs \in Seq(Inputs), NEW b, NEW s, NEW hs, InOrder(b, s, fs, hs), Len(hs) < Len(fs),
           NEW F, F = Frame(fs[Len(hs) + 1]), Len(F) <= Len(b),
           fs[Len(hs) + 1].op # ClosingFrame
    PROVE  InOrder(SubSeq(b, Len(F) + 1, Len(b)), s, fs, Append(hs, fs[Len(hs) + 1].data))
<1>1. PICK k, n : k = Len(hs) /\ n = Len(fs) - Len(hs)
  OBVIOUS
<1>2. /\ b \in Seq(Byte) /\ s \in Seq(Byte) /\ hs \in Seq(Seq(Byte)) /\ Len(hs) <= Len(fs)
      /\ \A i \in 1 .. Len(hs) : hs[i] = fs[i].data /\ fs[i].op # ClosingFrame
      /\ \A i \in 1 .. Len(fs) - 1 : fs[i].op # ClosingFrame
      /\ Joined(b \o s, Rest(fs, Len(hs)), Len(fs) - Len(hs))
  BY DEF InOrder
<1>3. k \in Nat /\ Len(fs) \in Nat /\ k + 1 <= Len(fs) /\ n \in Nat /\ n > 0 /\ n = Len(fs) - k
      /\ 1 \in 1 .. Len(fs) - k /\ k <= Len(fs) /\ k + 1 \in 1 .. Len(fs)
  BY <1>1, <1>2
<1>4. PICK f : f = fs[k + 1]
  OBVIOUS
<1>5. f \in Inputs /\ Rest(fs, k)[1] = F /\ Len(F) \in Nat
  BY <1>1, <1>3, <1>4, RestLong
<1>6. f.data \in Seq(Byte) /\ f.op # ClosingFrame
  BY <1>1, <1>4, <1>5, InputTypes
<1>7. PICK gs : gs = Append(hs, f.data)
  OBVIOUS
<1>8. gs \in Seq(Seq(Byte)) /\ Len(gs) = k + 1 /\ gs[k + 1] = f.data /\ \A i \in 1 .. k : gs[i] = hs[i]
  BY <1>1, <1>2, <1>6, <1>7
<1>9. PICK c : c = SubSeq(b, Len(F) + 1, Len(b))
  OBVIOUS
<1>10. c \in Seq(Byte)
  BY <1>2, <1>5, <1>9, Cut
<1>11. Tailed(c \o s, b \o s, Len(F))
  BY <1>2, <1>5, <1>9, Dropped
<1>12. Shifted(Rest(fs, k + 1), Rest(fs, k), n)
  <2>1. ASSUME NEW i \in 1 .. n - 1
        PROVE  /\ Rest(fs, k + 1)[i] = Rest(fs, k)[i + 1]
               /\ Len(Rest(fs, k)[i]) \in Nat /\ Len(Rest(fs, k)[i + 1]) \in Nat
    <3>1. /\ i \in 1 .. Len(fs) - k /\ i + 1 \in 1 .. Len(fs) - k /\ i \in 1 .. Len(fs) - (k + 1)
          /\ k + (i + 1) = k + 1 + i
      BY <1>3
    <3>2. /\ Rest(fs, k)[i + 1] = Frame(fs[k + (i + 1)])
          /\ Len(Rest(fs, k)[i]) \in Nat /\ Len(Rest(fs, k)[i + 1]) \in Nat
      BY <1>3, <3>1, RestLong
    <3>3. Rest(fs, k + 1)[i] = Frame(fs[k + 1 + i])
      BY <3>1 DEF Rest
    <3> QED
      BY <3>1, <3>2, <3>3
  <2> QED
    BY <2>1 DEF Shifted
<1>13. Joined(b \o s, Rest(fs, k), n)
  BY <1>1, <1>2
<1>14. Joined(c \o s, Rest(fs, k + 1), n - 1)
  BY <1>3, <1>5, <1>11, <1>12, <1>13, JoinedRest
<1>15. n - 1 = Len(fs) - Len(gs) /\ Len(gs) <= Len(fs)
  BY <1>3, <1>8
<1>16. ASSUME NEW i \in 1 .. Len(gs) PROVE gs[i] = fs[i].data /\ fs[i].op # ClosingFrame
  <2>1. CASE i \in 1 .. k
    BY <1>1, <1>2, <1>8, <2>1
  <2>2. CASE i = k + 1
    BY <1>4, <1>6, <1>8, <2>2
  <2> QED
    BY <1>3, <1>8, <2>1, <2>2
<1>17. Joined(c \o s, Rest(fs, Len(gs)), Len(fs) - Len(gs))
  BY <1>8, <1>14, <1>15
<1>18. InOrder(c, s, fs, gs)
  BY <1>2, <1>8, <1>10, <1>15, <1>16, <1>17 DEF InOrder
<1> QED
  BY <1>1, <1>4, <1>7, <1>9, <1>18

-----------------------------------------------------------------------------
(* The frames for it: qs are the messages that were put in the buffer, ss  *)
(* those it has, o and g the bytes in buffer_write and those it has got.   *)

Due(qs, k) == [i \in 1 .. Len(qs) - k |-> FrameTo(qs[k + i])]

OutOrder(o, g, qs, ss) ==
    /\ o \in Seq(Byte) /\ g \in Seq(Byte)
    /\ qs \in Seq(Seq(Byte)) /\ ss \in Seq(Seq(Byte)) /\ Len(ss) <= Len(qs)
    /\ \A i \in 1 .. Len(ss) : ss[i] = qs[i]
    /\ \A i \in 1 .. Len(qs) : Len(qs[i]) < Base * Base
    /\ Joined(g \o o, Due(qs, Len(ss)), Len(qs) - Len(ss))

\* The frames that were not shown.
LEMMA DueLong ==
    ASSUME NEW qs \in Seq(Seq(Byte)), \A i \in 1 .. Len(qs) : Len(qs[i]) < Base * Base,
           NEW k \in Nat, k <= Len(qs), NEW i \in 1 .. Len(qs) - k
    PROVE  /\ qs[k + i] \in Seq(Byte) /\ Len(qs[k + i]) < Base * Base
           /\ Due(qs, k)[i] = FrameTo(qs[k + i])
           /\ Len(Due(qs, k)[i]) \in Nat
<1>1. k + i \in 1 .. Len(qs)
  OBVIOUS
<1>2. qs[k + i] \in Seq(Byte) /\ Len(qs[k + i]) < Base * Base
  BY <1>1
<1>3. Due(qs, k)[i] = FrameTo(qs[k + i])
  BY DEF Due
<1>4. FrameTo(qs[k + i]) \in Seq(Byte)
  BY <1>2, FrameToLayout
<1>5. \A F \in Seq(Byte) : Len(F) \in Nat
  OBVIOUS
<1> QED
  BY <1>2, <1>3, <1>4, <1>5

\* The next message is the one that the bytes of the browser begin with.
LEMMA NextDue ==
    ASSUME NEW o, NEW g, NEW qs, NEW ss, OutOrder(o, g, qs, ss), Len(ss) < Len(qs)
    PROVE  /\ qs[Len(ss) + 1] \in Seq(Byte) /\ Len(qs[Len(ss) + 1]) < Base * Base
           /\ Starts(g, FrameTo(qs[Len(ss) + 1]))
           /\ Len(FrameTo(qs[Len(ss) + 1])) <= Len(g) + Len(o)
<1>1. /\ o \in Seq(Byte) /\ g \in Seq(Byte) /\ Len(o) \in Nat /\ Len(g) \in Nat
      /\ qs \in Seq(Seq(Byte)) /\ Len(ss) \in Nat /\ Len(qs) \in Nat
      /\ Joined(g \o o, Due(qs, Len(ss)), Len(qs) - Len(ss))
  BY DEF OutOrder
<1>2. \A i \in 1 .. Len(qs) : Len(qs[i]) < Base * Base
  BY DEF OutOrder
<1>3. Len(qs) - Len(ss) \in Nat /\ Len(qs) - Len(ss) > 0 /\ Len(ss) <= Len(qs)
      /\ 1 \in 1 .. Len(qs) - Len(ss)
  BY <1>1
<1>4. PICK F : F = FrameTo(qs[Len(ss) + 1])
  OBVIOUS
<1>5. /\ qs[Len(ss) + 1] \in Seq(Byte) /\ Len(qs[Len(ss) + 1]) < Base * Base
      /\ Due(qs, Len(ss))[1] = F /\ Len(F) \in Nat
  <2>1. /\ qs[Len(ss) + 1] \in Seq(Byte) /\ Len(qs[Len(ss) + 1]) < Base * Base
        /\ Due(qs, Len(ss))[1] = FrameTo(qs[Len(ss) + 1]) /\ Len(Due(qs, Len(ss))[1]) \in Nat
    BY <1>1, <1>2, <1>3, DueLong
  <2> QED
    BY <1>4, <2>1
<1>6. Len(F) <= Len(g \o o) /\ \A j \in 1 .. Len(F) : (g \o o)[j] = F[j]
  BY <1>1, <1>3, <1>5, JoinedStarts
<1>7. IsConcat(g \o o, g, o)
  BY <1>1, Concatenation
<1>8. ASSUME NEW u, IsConcat(u, g, o), Len(F) <= Len(u), \A j \in 1 .. Len(F) : u[j] = F[j]
      PROVE  Starts(g, F) /\ Len(F) <= Len(g) + Len(o)
  <2>1. Len(u) = Len(g) + Len(o) /\ \A j \in 1 .. Len(g) : u[j] = g[j]
    BY <1>8 DEF IsConcat
  <2>2. ASSUME NEW j \in 1 .. Len(g), j <= Len(F) PROVE g[j] = F[j]
    BY <1>1, <1>5, <1>8, <2>1, <2>2
  <2> QED
    BY <1>1, <1>8, <2>1, <2>2 DEF Starts
<1> QED
  BY <1>4, <1>5, <1>6, <1>7, <1>8

\* Sequences of the same length with the same members are the same.
LEMMA SameSequence ==
    ASSUME NEW S, NEW s \in Seq(S), NEW t \in Seq(S), Len(s) = Len(t),
           \A i \in 1 .. Len(s) : s[i] = t[i]
    PROVE  s = t
<1>1. s = [i \in 1 .. Len(s) |-> s[i]] /\ t = [i \in 1 .. Len(t) |-> t[i]]
  OBVIOUS
<1> QED
  BY <1>1

\* All messages shown: no byte is left.
LEMMA NothingDue ==
    ASSUME NEW o, NEW g, NEW qs, NEW ss, OutOrder(o, g, qs, ss), Len(ss) = Len(qs)
    PROVE  g = <<>> /\ o = <<>> /\ ss = qs
<1>1. /\ o \in Seq(Byte) /\ g \in Seq(Byte) /\ Len(qs) \in Nat
      /\ qs \in Seq(Seq(Byte)) /\ ss \in Seq(Seq(Byte)) /\ \A i \in 1 .. Len(ss) : ss[i] = qs[i]
      /\ Joined(g \o o, Due(qs, Len(ss)), Len(qs) - Len(ss))
  BY DEF OutOrder
<1>2. Len(qs) - Len(ss) = 0
  BY <1>1
<1>3. g \o o = <<>>
  BY <1>1, <1>2, JoinedNothing
<1>4. g = <<>> /\ o = <<>>
  BY <1>1, <1>3, ConcatEqualIffEmpty
<1>5. qs \in Seq(Seq(Byte)) /\ ss \in Seq(Seq(Byte)) /\ Len(ss) = Len(qs)
      /\ \A i \in 1 .. Len(ss) : ss[i] = qs[i]
  BY <1>1
<1>6. ss = qs
  BY <1>5, SameSequence
<1> QED
  BY <1>4, <1>6

\* A message is put in the buffer.
LEMMA OneQueued ==
    ASSUME NEW o, NEW g, NEW qs, NEW ss, OutOrder(o, g, qs, ss),
           NEW m \in Seq(Byte), Len(m) < Base * Base
    PROVE  OutOrder(o \o FrameTo(m), g, Append(qs, m), ss)
<1>1. PICK rs, k, n : rs = Append(qs, m) /\ k = Len(ss) /\ n = Len(qs) - Len(ss)
  OBVIOUS
<1>2. /\ o \in Seq(Byte) /\ g \in Seq(Byte)
      /\ qs \in Seq(Seq(Byte)) /\ ss \in Seq(Seq(Byte)) /\ Len(ss) <= Len(qs)
      /\ \A i \in 1 .. Len(ss) : ss[i] = qs[i]
      /\ \A i \in 1 .. Len(qs) : Len(qs[i]) < Base * Base
      /\ Joined(g \o o, Due(qs, Len(ss)), Len(qs) - Len(ss))
  BY DEF OutOrder
<1>3. rs \in Seq(Seq(Byte)) /\ Len(rs) = Len(qs) + 1 /\ Len(qs) \in Nat
      /\ rs[Len(qs) + 1] = m /\ \A i \in 1 .. Len(qs) : rs[i] = qs[i]
  BY <1>1, <1>2
<1>4. k \in Nat /\ k <= Len(qs) /\ n \in Nat /\ n = Len(qs) - k /\ Len(rs) - k = n + 1
  BY <1>1, <1>2, <1>3
<1>5. FrameTo(m) \in Seq(Byte)
  BY FrameToLayout
<1>6. Extended(Due(rs, k), Due(qs, k), n, FrameTo(m))
  <2>1. Due(rs, k)[n + 1] = FrameTo(m)
    <3>1. n + 1 \in 1 .. Len(rs) - k /\ k + (n + 1) = Len(qs) + 1
      BY <1>3, <1>4
    <3> QED
      BY <1>3, <3>1 DEF Due
  <2>2. ASSUME NEW i \in 1 .. n PROVE Due(rs, k)[i] = Due(qs, k)[i] /\ Len(Due(qs, k)[i]) \in Nat
    <3>1. i \in 1 .. Len(qs) - k /\ i \in 1 .. Len(rs) - k /\ k + i \in 1 .. Len(qs)
      BY <1>3, <1>4
    <3>2. Due(qs, k)[i] = FrameTo(qs[k + i]) /\ Len(Due(qs, k)[i]) \in Nat
      BY <1>2, <1>4, <3>1, DueLong
    <3>3. Due(rs, k)[i] = FrameTo(rs[k + i])
      BY <3>1 DEF Due
    <3> QED
      BY <1>3, <3>1, <3>2, <3>3
  <2> QED
    BY <2>1, <2>2 DEF Extended
<1>7. g \o o \in Seq(Byte) /\ o \o FrameTo(m) \in Seq(Byte)
  BY <1>2, <1>5, Concatenation
<1>8. IsConcat((g \o o) \o FrameTo(m), g \o o, FrameTo(m))
  BY <1>5, <1>7, Concatenation
<1>9. Joined((g \o o) \o FrameTo(m), Due(rs, k), n + 1)
  BY <1>1, <1>2, <1>4, <1>5, <1>6, <1>8, JoinedMore
<1>10. (g \o o) \o FrameTo(m) = g \o (o \o FrameTo(m))
  BY <1>2, <1>5, Regroup
<1>11. Joined(g \o (o \o FrameTo(m)), Due(rs, k), Len(rs) - k)
  BY <1>4, <1>9, <1>10
<1>12. \A i \in 1 .. Len(ss) : ss[i] = rs[i]
  BY <1>1, <1>2, <1>3, <1>4
<1>13. ASSUME NEW i \in 1 .. Len(rs) PROVE Len(rs[i]) < Base * Base
  <2>1. CASE i \in 1 .. Len(qs)
    BY <1>2, <1>3, <2>1
  <2>2. CASE i = Len(qs) + 1
    BY <1>3, <2>2
  <2> QED
    BY <1>3, <2>1, <2>2
<1>14. OutOrder(o \o FrameTo(m), g, rs, ss)
  BY <1>1, <1>2, <1>3, <1>4, <1>7, <1>11, <1>12, <1>13 DEF OutOrder
<1> QED
  BY <1>1, <1>14

\* send takes bytes of the buffer.
LEMMA WrittenOn ==
    ASSUME NEW o, NEW g, NEW qs, NEW ss, OutOrder(o, g, qs, ss), NEW n \in Nat, n <= Len(o)
    PROVE  OutOrder(SubSeq(o, n + 1, Len(o)), g \o SubSeq(o, 1, n), qs, ss)
<1>1. o \in Seq(Byte) /\ g \in Seq(Byte)
  BY DEF OutOrder
<1>2. SubSeq(o, 1, n) \in Seq(Byte) /\ SubSeq(o, n + 1, Len(o)) \in Seq(Byte)
  BY <1>1, Cut
<1>3. g \o SubSeq(o, 1, n) \in Seq(Byte)
  BY <1>1, <1>2, Concatenation
<1>4. (g \o SubSeq(o, 1, n)) \o SubSeq(o, n + 1, Len(o)) = g \o o
  BY <1>1, Moved
<1>5. Joined(g \o o, Due(qs, Len(ss)), Len(qs) - Len(ss))
  BY DEF OutOrder
<1>6. Joined((g \o SubSeq(o, 1, n)) \o SubSeq(o, n + 1, Len(o)), Due(qs, Len(ss)), Len(qs) - Len(ss))
  BY <1>4, <1>5
<1> QED
  BY <1>2, <1>3, <1>6 DEF OutOrder

\* The browser takes a frame: there is a message for it, and that is what it takes.
LEMMA OneShown ==
    ASSUME NEW o, NEW g, NEW qs, NEW ss, OutOrder(o, g, qs, ss), HasFrame(g)
    PROVE  OutOrder(o, SubSeq(g, Extent(g) + 1, Len(g)), qs,
                    Append(ss, SubSeq(g, Lead(g) + 1, Extent(g))))
<1>1. PICK k, n : k = Len(ss) /\ n = Len(qs) - Len(ss)
  OBVIOUS
<1>2. /\ o \in Seq(Byte) /\ g \in Seq(Byte)
      /\ qs \in Seq(Seq(Byte)) /\ ss \in Seq(Seq(Byte)) /\ Len(ss) <= Len(qs)
      /\ \A i \in 1 .. Len(ss) : ss[i] = qs[i]
      /\ Joined(g \o o, Due(qs, Len(ss)), Len(qs) - Len(ss))
  BY DEF OutOrder
<1>3. \A i \in 1 .. Len(qs) : Len(qs[i]) < Base * Base
  BY DEF OutOrder
<1>4. Len(ss) # Len(qs)
  <2>1. SUFFICES ASSUME Len(ss) = Len(qs) PROVE FALSE
    OBVIOUS
  <2>2. g = <<>>
    BY <2>1, NothingDue
  <2>3. Len(g) = 0
    BY <2>2
  <2> QED
    BY <2>3 DEF HasFrame
<1>5. k \in Nat /\ Len(qs) \in Nat /\ k + 1 <= Len(qs) /\ n \in Nat /\ n > 0 /\ n = Len(qs) - k
      /\ 1 \in 1 .. Len(qs) - k /\ k <= Len(qs) /\ k + 1 \in 1 .. Len(qs) /\ Len(ss) < Len(qs)
  BY <1>1, <1>2, <1>4
<1>6. PICK m, F : m = qs[k + 1] /\ F = FrameTo(m)
  OBVIOUS
<1>7. m \in Seq(Byte) /\ Len(m) < Base * Base /\ Starts(g, F)
  BY <1>1, <1>5, <1>6, NextDue
<1>8. Len(g) >= Len(F) /\ Extent(g) = Len(F) /\ SubSeq(g, Lead(g) + 1, Extent(g)) = m
  BY <1>2, <1>6, <1>7, ExtentRead
<1>9. Due(qs, k)[1] = F /\ Len(F) \in Nat
  BY <1>2, <1>3, <1>5, <1>6, DueLong
<1>10. PICK ts : ts = Append(ss, m)
  OBVIOUS
<1>11. ts \in Seq(Seq(Byte)) /\ Len(ts) = k + 1 /\ ts[k + 1] = m /\ \A i \in 1 .. k : ts[i] = ss[i]
  BY <1>1, <1>2, <1>7, <1>10
<1>12. PICK c : c = SubSeq(g, Len(F) + 1, Len(g))
  OBVIOUS
<1>13. Len(F) <= Len(g)
  BY <1>2, <1>8, <1>9
<1>14. c \in Seq(Byte)
  BY <1>2, <1>9, <1>12, <1>13, Cut
<1>15. Tailed(c \o o, g \o o, Len(F))
  BY <1>2, <1>9, <1>12, <1>13, Dropped
<1>16. Shifted(Due(qs, k + 1), Due(qs, k), n)
  <2>1. ASSUME NEW i \in 1 .. n - 1
        PROVE  /\ Due(qs, k + 1)[i] = Due(qs, k)[i + 1]
               /\ Len(Due(qs, k)[i]) \in Nat /\ Len(Due(qs, k)[i + 1]) \in Nat
    <3>1. /\ i \in 1 .. Len(qs) - k /\ i + 1 \in 1 .. Len(qs) - k /\ i \in 1 .. Len(qs) - (k + 1)
          /\ k + (i + 1) = k + 1 + i
      BY <1>5
    <3>2. /\ Due(qs, k)[i + 1] = FrameTo(qs[k + (i + 1)])
          /\ Len(Due(qs, k)[i]) \in Nat /\ Len(Due(qs, k)[i + 1]) \in Nat
      BY <1>2, <1>3, <1>5, <3>1, DueLong
    <3>3. Due(qs, k + 1)[i] = FrameTo(qs[k + 1 + i])
      BY <3>1 DEF Due
    <3> QED
      BY <3>1, <3>2, <3>3
  <2> QED
    BY <2>1 DEF Shifted
<1>17. Joined(g \o o, Due(qs, k), n)
  BY <1>1, <1>2
<1>18. Joined(c \o o, Due(qs, k + 1), n - 1)
  BY <1>5, <1>9, <1>15, <1>16, <1>17, JoinedRest
<1>19. n - 1 = Len(qs) - Len(ts) /\ Len(ts) <= Len(qs)
  BY <1>5, <1>11
<1>20. ASSUME NEW i \in 1 .. Len(ts) PROVE ts[i] = qs[i]
  <2>1. CASE i \in 1 .. k
    BY <1>1, <1>2, <1>11, <2>1
  <2>2. CASE i = k + 1
    BY <1>6, <1>11, <2>2
  <2> QED
    BY <1>5, <1>11, <2>1, <2>2
<1>21. Joined(c \o o, Due(qs, Len(ts)), Len(qs) - Len(ts))
  BY <1>11, <1>18, <1>19
<1>22. OutOrder(o, c, qs, ts)
  BY <1>2, <1>3, <1>11, <1>14, <1>19, <1>20, <1>21 DEF OutOrder
<1> QED
  BY <1>8, <1>10, <1>12, <1>22

-----------------------------------------------------------------------------
(* The invariant: as long as the browser sent nothing that wsd does not    *)
(* stay in step with, both directions are in order, and where the loop of  *)
(* process_client_read ended it could not have gone on.                    *)

InStep == \A i \in 1 .. Len(sent) : ~OutOfStep(sent[i])

Orderly ==
    /\ ~crashed
    /\ InOrder(buf, sending, sent, handed)
    /\ ~visiting => Waiting(buf, sent, handed, closeIt)
    /\ OutOrder(out, got, queued, shown)

FramesInv == sent \in Seq(Inputs) /\ (InStep => Orderly)

\* The connection begins orderly: nothing was sent either way.
LEMMA FramesInvInit == ASSUME FrameInit PROVE FramesInv
<1>1. /\ sending = <<>> /\ buf = <<>> /\ handed = <<>> /\ sent = <<>> /\ ~crashed
      /\ out = <<>> /\ got = <<>> /\ shown = <<>> /\ queued = <<>>
  BY DEF FrameInit
<1>2. <<>> \in Seq(Byte) /\ <<>> \in Seq(Inputs) /\ <<>> \in Seq(Seq(Byte)) /\ Len(<<>>) = 0
      /\ Len(<<>>) - Len(<<>>) = 0 /\ 1 .. 0 = {} /\ 1 .. 0 - 1 = {}
  OBVIOUS
<1>3. <<>> \o <<>> = <<>>
  BY <1>2
<1>4. Joined(<<>> \o <<>>, Rest(<<>>, Len(<<>>)), Len(<<>>) - Len(<<>>))
      /\ Joined(<<>> \o <<>>, Due(<<>>, Len(<<>>)), Len(<<>>) - Len(<<>>))
  BY <1>2, <1>3, JoinedEmpty
<1>5. InOrder(<<>>, <<>>, <<>>, <<>>) /\ OutOrder(<<>>, <<>>, <<>>, <<>>)
  BY <1>2, <1>4 DEF InOrder, OutOrder
<1>6. Waiting(<<>>, <<>>, <<>>, closeIt)
  BY DEF Waiting
<1> QED
  BY <1>1, <1>2, <1>5, <1>6 DEF FramesInv, Orderly

\* A message goes through process_client_ws_sendn_frame, and is put in the buffer or not.
LEMMA FrameSent ==
    ASSUME OutOrder(out, got, queued, shown), NEW message \in Seq(Byte), SendFrame(message)
    PROVE  OutOrder(out, got, queued, shown)'
<1>1. got' = got /\ shown' = shown
  BY DEF SendFrame
<1>2. CASE Len(message) < Base * Base /\ Len(out) <= MaxOutBuff
  <2>1. out' = out \o FrameTo(message) /\ queued' = Append(queued, message)
    BY <1>2 DEF SendFrame
  <2>2. OutOrder(out \o FrameTo(message), got, Append(queued, message), shown)
    BY <1>2, OneQueued
  <2> QED
    BY <1>1, <2>1, <2>2
<1>3. CASE ~(Len(message) < Base * Base /\ Len(out) <= MaxOutBuff)
  <2>1. out' = out /\ queued' = queued
    BY <1>3 DEF SendFrame
  <2> QED
    BY <1>1, <2>1
<1> QED
  BY <1>2, <1>3

\* The browser sends a frame.
LEMMA OrderlySends ==
    ASSUME FramesInv, Sends
    PROVE  FramesInv'
<1>1. PICK f \in Inputs :
        /\ \A i \in 1 .. Len(sent) : sent[i].op # ClosingFrame
        /\ sending' = sending \o Frame(f) /\ sent' = Append(sent, f)
        /\ UNCHANGED <<buf, visiting, closeIt, opened, crashed, handed, outgoing>>
  BY DEF Sends
<1>2. sent \in Seq(Inputs) /\ (InStep => Orderly)
  BY DEF FramesInv
<1>3. sent' \in Seq(Inputs) /\ Len(sent') = Len(sent) + 1 /\ Len(sent) \in Nat
      /\ \A i \in 1 .. Len(sent) : sent'[i] = sent[i]
  BY <1>1, <1>2
<1>4. ASSUME InStep' PROVE Orderly'
  <2>1. \A i \in 1 .. Len(sent') : ~OutOfStep(sent'[i])
    BY <1>4 DEF InStep
  <2>2. InStep
    <3>1. ASSUME NEW i \in 1 .. Len(sent) PROVE ~OutOfStep(sent[i])
      <4>1. i \in 1 .. Len(sent') /\ sent'[i] = sent[i]
        BY <1>3
      <4> QED
        BY <2>1, <4>1
    <3> QED
      BY <3>1 DEF InStep
  <2>3. ~crashed /\ InOrder(buf, sending, sent, handed) /\ (~visiting => Waiting(buf, sent, handed, closeIt))
        /\ OutOrder(out, got, queued, shown)
    BY <1>2, <2>2 DEF Orderly
  <2>4. InOrder(buf, sending \o Frame(f), Append(sent, f), handed)
    BY <1>1, <1>2, <2>3, OneMore
  <2>5. ~visiting => Waiting(buf, Append(sent, f), handed, closeIt)
    BY <1>2, <2>3, WaitingStays
  <2>6. UNCHANGED <<buf, visiting, closeIt, crashed, handed, out, got, queued, shown>>
    BY <1>1 DEF outgoing
  <2>7. InOrder(buf, sending, sent, handed)'
    BY <1>1, <2>4, <2>6
  <2>8. ~visiting' => Waiting(buf, sent, handed, closeIt)'
    BY <1>1, <2>5, <2>6
  <2>9. OutOrder(out, got, queued, shown)' /\ ~crashed'
    BY <2>3, <2>6
  <2> QED
    BY <2>7, <2>8, <2>9 DEF Orderly
<1> QED
  BY <1>3, <1>4 DEF FramesInv

\* The browser takes a frame.
LEMMA OrderlyShows == ASSUME Orderly, Shows PROVE Orderly'
<1>1. /\ HasFrame(got)
      /\ shown' = Append(shown, SubSeq(got, Lead(got) + 1, Extent(got)))
      /\ got' = SubSeq(got, Extent(got) + 1, Len(got))
      /\ UNCHANGED <<sending, buf, visiting, closeIt, crashed, handed, sent, out, queued>>
  BY DEF Shows, incoming
<1>2. OutOrder(out, SubSeq(got, Extent(got) + 1, Len(got)), queued,
               Append(shown, SubSeq(got, Lead(got) + 1, Extent(got))))
  BY <1>1, OneShown DEF Orderly
<1>3. OutOrder(out, got, queued, shown)'
  BY <1>1, <1>2
<1>4. /\ ~crashed' /\ InOrder(buf, sending, sent, handed)'
      /\ ~visiting' => Waiting(buf, sent, handed, closeIt)'
  BY <1>1 DEF Orderly
<1> QED
  BY <1>3, <1>4 DEF Orderly

\* wsd has a message for the browser.
LEMMA OrderlySendMessage == ASSUME Orderly, SendMessage PROVE Orderly'
<1>1. PICK message \in Outputs : SendFrame(message) /\ UNCHANGED incoming
  BY DEF SendMessage
<1>2. message \in Seq(Byte)
  BY FramesAssumption
<1>3. OutOrder(out, got, queued, shown)'
  BY <1>1, <1>2, FrameSent DEF Orderly
<1>4. UNCHANGED <<sending, buf, visiting, closeIt, crashed, handed, sent>>
  BY <1>1 DEF incoming
<1>5. /\ ~crashed' /\ InOrder(buf, sending, sent, handed)'
      /\ ~visiting' => Waiting(buf, sent, handed, closeIt)'
  BY <1>4 DEF Orderly
<1> QED
  BY <1>3, <1>5 DEF Orderly

\* recv brings bytes: the loop begins.
LEMMA OrderlyReads == ASSUME sent \in Seq(Inputs), Orderly, Reads PROVE Orderly'
<1>1. PICK n \in 1 .. MaxRead :
        /\ n <= Len(sending) /\ visiting' = TRUE
        /\ buf' = buf \o SubSeq(sending, 1, n) /\ sending' = SubSeq(sending, n + 1, Len(sending))
        /\ UNCHANGED <<crashed, handed, sent, out, got, queued, shown>>
  BY DEF Reads, Consumed, outgoing
<1>2. n \in Nat
  BY FramesAssumption
<1>3. InOrder(buf \o SubSeq(sending, 1, n), SubSeq(sending, n + 1, Len(sending)), sent, handed)
  BY <1>1, <1>2, ReadOn DEF Orderly
<1>4. InOrder(buf, sending, sent, handed)'
  BY <1>1, <1>3
<1>5. ~crashed' /\ OutOrder(out, got, queued, shown)' /\ visiting'
  BY <1>1 DEF Orderly
<1> QED
  BY <1>4, <1>5 DEF Orderly

\* send takes bytes, and the client may be closed.
LEMMA OrderlyWrites == ASSUME Orderly, Writes PROVE Orderly'
<1>1. PICK n \in 1 .. MaxRead :
        /\ n <= Len(out)
        /\ got' = got \o SubSeq(out, 1, n) /\ out' = SubSeq(out, n + 1, Len(out))
        /\ UNCHANGED <<sending, buf, visiting, closeIt, crashed, handed, sent, shown, queued>>
  BY DEF Writes, Consumed
<1>2. n \in Nat
  BY FramesAssumption
<1>3. OutOrder(SubSeq(out, n + 1, Len(out)), got \o SubSeq(out, 1, n), queued, shown)
  BY <1>1, <1>2, WrittenOn DEF Orderly
<1>4. OutOrder(out, got, queued, shown)'
  BY <1>1, <1>3
<1>5. /\ ~crashed' /\ InOrder(buf, sending, sent, handed)'
      /\ ~visiting' => Waiting(buf, sent, handed, closeIt)'
  BY <1>1 DEF Orderly
<1> QED
  BY <1>4, <1>5 DEF Orderly

\* The bytes in buffer_read, if it has two, begin with a frame that was not processed.
LEMMA HeadOfNext ==
    ASSUME sent \in Seq(Inputs), InStep, Orderly, Len(buf) >= 2
    PROVE  /\ Len(handed) \in Nat /\ Len(sent) \in Nat /\ Len(handed) < Len(sent)
           /\ Len(handed) + 1 \in 1 .. Len(sent)
           /\ sent[Len(handed) + 1] \in Inputs /\ ~OutOfStep(sent[Len(handed) + 1])
           /\ Starts(buf, Frame(sent[Len(handed) + 1]))
           /\ buf[1] = sent[Len(handed) + 1].op
<1>1. InOrder(buf, sending, sent, handed)
  BY DEF Orderly
<1>2. Len(handed) \in Nat /\ Len(sent) \in Nat /\ Len(handed) <= Len(sent)
  BY <1>1 DEF InOrder
<1>3. Len(handed) # Len(sent)
  <2>1. SUFFICES ASSUME Len(handed) = Len(sent) PROVE FALSE
    OBVIOUS
  <2>2. buf = <<>>
    BY <1>1, <2>1, NoneLeft
  <2>3. Len(buf) = 0
    BY <2>2
  <2> QED
    BY <2>3
<1>4. Len(handed) < Len(sent)
  BY <1>2, <1>3
<1>5. /\ sent[Len(handed) + 1] \in Inputs /\ Len(handed) + 1 \in 1 .. Len(sent)
      /\ Starts(buf, Frame(sent[Len(handed) + 1]))
  BY <1>1, <1>4, NextFrame
<1>6. ~OutOfStep(sent[Len(handed) + 1])
  BY <1>5 DEF InStep
<1>7. buf[1] = sent[Len(handed) + 1].op
  BY <1>5, HeadRead
<1> QED
  BY <1>2, <1>4, <1>5, <1>6, <1>7

\* process_client_ws waits for more bytes: the frame is not whole.
LEMMA OrderlyWaits == ASSUME sent \in Seq(Inputs), InStep, Orderly, Waits PROVE Orderly'
<1>1. /\ Len(buf) < 2 \/ ~Whole(buf)
      /\ UNCHANGED <<sending, buf, closeIt, crashed, handed, sent, out, got, queued, shown>>
  BY DEF Waits, outgoing
<1>2. InOrder(buf, sending, sent, handed)
  BY DEF Orderly
<1>3. Len(handed) \in Nat /\ Len(sent) \in Nat /\ Len(handed) <= Len(sent) /\ Len(buf) \in Nat
  BY <1>2 DEF InOrder
<1>4. Waiting(buf, sent, handed, closeIt)
  <2>1. CASE Len(handed) = Len(sent)
    BY <2>1 DEF Waiting
  <2>2. CASE Len(handed) < Len(sent) /\ Len(buf) < 2
    <3>1. sent[Len(handed) + 1] \in Inputs
      BY <1>2, <2>2, NextFrame
    <3>2. Len(Frame(sent[Len(handed) + 1])) \in Nat /\ Len(Frame(sent[Len(handed) + 1])) >= 6
      BY <3>1, FrameLong
    <3>3. Len(buf) < Len(Frame(sent[Len(handed) + 1]))
      BY <1>3, <2>2, <3>2
    <3> QED
      BY <3>3 DEF Waiting
  <2>3. CASE Len(buf) >= 2
    <3>1. /\ sent[Len(handed) + 1] \in Inputs /\ ~OutOfStep(sent[Len(handed) + 1])
          /\ Starts(buf, Frame(sent[Len(handed) + 1]))
      BY <2>3, HeadOfNext
    <3>2. Whole(buf) <=> Len(buf) >= Len(Frame(sent[Len(handed) + 1]))
      BY <2>3, <3>1, WholeRead
    <3>3. Len(Frame(sent[Len(handed) + 1])) \in Nat
      BY <3>1, FrameLong
    <3>4. Len(buf) < Len(Frame(sent[Len(handed) + 1]))
      BY <1>1, <1>3, <2>3, <3>2, <3>3
    <3> QED
      BY <3>4 DEF Waiting
  <2> QED
    BY <1>3, <2>1, <2>2, <2>3
<1>5. Waiting(buf, sent, handed, closeIt)'
  BY <1>1, <1>4
<1>6. ~crashed' /\ InOrder(buf, sending, sent, handed)' /\ OutOrder(out, got, queued, shown)'
  BY <1>1 DEF Orderly
<1> QED
  BY <1>5, <1>6 DEF Orderly

\* A closing frame ends the loop.
LEMMA OrderlyCloses == ASSUME sent \in Seq(Inputs), InStep, Orderly, Closes PROVE Orderly'
<1>1. /\ Len(buf) >= 2 /\ buf[1] = ClosingFrame /\ closeIt' = TRUE
      /\ UNCHANGED <<sending, buf, crashed, handed, sent, out, got, queued, shown>>
  BY DEF Closes, outgoing
<1>2. sent[Len(handed) + 1].op = ClosingFrame
  BY <1>1, HeadOfNext
<1>3. Waiting(buf, sent, handed, TRUE)
  BY <1>2 DEF Waiting
<1>4. Waiting(buf, sent, handed, closeIt)'
  BY <1>1, <1>3
<1>5. ~crashed' /\ InOrder(buf, sending, sent, handed)' /\ OutOrder(out, got, queued, shown)'
  BY <1>1 DEF Orderly
<1> QED
  BY <1>4, <1>5 DEF Orderly

\* No frame is refused, and none overruns the buffer, as long as all are in step.
LEMMA NoneRefused == ASSUME sent \in Seq(Inputs), InStep, Orderly PROVE ~Refuses /\ ~Overruns
<1>1. SUFFICES ASSUME Refuses \/ Overruns PROVE FALSE
  OBVIOUS
<1>2. Len(buf) >= 2
  BY <1>1 DEF Refuses, Overruns
<1>3. /\ sent[Len(handed) + 1] \in Inputs /\ ~OutOfStep(sent[Len(handed) + 1])
      /\ Starts(buf, Frame(sent[Len(handed) + 1]))
      /\ buf[1] = sent[Len(handed) + 1].op
  BY <1>2, HeadOfNext
<1>4. buf[1] \in {TextFrame, PongFrame, ClosingFrame}
  BY <1>3 DEF OutOfStep
<1>5. CASE Refuses
  BY <1>4, <1>5 DEF Refuses, Knows
<1>6. CASE Overruns
  <2>1. Whole(buf) /\ Len(buf) < Header(buf[2]) + Length(buf)
    BY <1>6 DEF Overruns
  <2>2. Len(buf) >= Len(Frame(sent[Len(handed) + 1]))
        /\ Header(buf[2]) + Length(buf) = Len(Frame(sent[Len(handed) + 1]))
    BY <1>2, <1>3, <2>1, WholeRead
  <2>3. Len(Frame(sent[Len(handed) + 1])) \in Nat /\ Len(buf) \in Nat
    BY <1>3, FrameLong DEF Starts
  <2> QED
    BY <2>1, <2>2, <2>3
<1> QED
  BY <1>1, <1>5, <1>6

\* A whole frame is processed: its payload is what the browser meant, and the loop
\* goes on if a byte is left.
LEMMA OrderlyTakes == ASSUME sent \in Seq(Inputs), InStep, Orderly, Takes PROVE Orderly'
<1>1. PICK f, F, end : f = sent[Len(handed) + 1] /\ F = Frame(f) /\ end = Header(buf[2]) + Length(buf)
  OBVIOUS
<1>2. /\ Len(buf) >= 2 /\ Knows(buf[1]) /\ Whole(buf) /\ Len(buf) >= end
      /\ handed' = Append(handed, Payload(buf))
      /\ buf' = SubSeq(buf, end + 1, Len(buf))
      /\ visiting' = (Len(buf) > end)
      /\ UNCHANGED <<sending, crashed, sent>>
  BY <1>1 DEF Takes, Consumed
<1>3. InOrder(buf, sending, sent, handed)
  BY DEF Orderly
<1>4. /\ Len(handed) \in Nat /\ Len(sent) \in Nat /\ Len(handed) < Len(sent)
      /\ f \in Inputs /\ ~OutOfStep(f) /\ Starts(buf, F) /\ buf[1] = f.op
  BY <1>1, <1>2, HeadOfNext
<1>5. Len(F) \in Nat /\ Len(buf) \in Nat /\ buf \in Seq(Byte) /\ handed \in Seq(Seq(Byte))
  BY <1>1, <1>3, <1>4, FrameLong DEF InOrder
<1>6. end = Len(F)
  BY <1>1, <1>2, <1>4, WholeRead
<1>7. Payload(buf) = f.data
  BY <1>1, <1>2, <1>4, <1>6, PayloadRead
<1>8. f.op # ClosingFrame
  BY <1>2, <1>4, FramesAssumption DEF Knows
<1>9. InOrder(SubSeq(buf, Len(F) + 1, Len(buf)), sending, sent, Append(handed, f.data))
  BY <1>1, <1>2, <1>3, <1>4, <1>6, <1>8, OneTaken
<1>10. InOrder(buf, sending, sent, handed)'
  BY <1>2, <1>6, <1>7, <1>9
<1>11. ASSUME ~visiting' PROVE Waiting(buf, sent, handed, closeIt)'
  <2>0. ~(Len(buf) > end)
    BY <1>2, <1>11, Zenon
  <2>1. Len(buf) = Len(F)
    BY <1>2, <1>5, <1>6, <2>0
  <2>2. Len(buf') = 0
    <3>1. Len(SubSeq(buf, Len(F) + 1, Len(buf))) = Len(buf) - Len(F)
      BY <1>5, <2>1, Cut
    <3> QED
      BY <1>2, <1>5, <1>6, <2>1, <3>1
  <2>3. f.data \in Seq(Byte)
    BY <1>4, InputTypes
  <2>4. Len(handed') = Len(handed) + 1
    BY <1>2, <1>5, <1>7, <2>3
  <2>5. CASE Len(handed') = Len(sent)
    BY <1>2, <2>5 DEF Waiting
  <2>6. CASE Len(handed') # Len(sent)
    <3>1. Len(handed') + 1 \in 1 .. Len(sent)
      BY <1>4, <2>4, <2>6
    <3>2. sent[Len(handed') + 1] \in Inputs
      BY <3>1
    <3>3. Len(Frame(sent[Len(handed') + 1])) \in Nat /\ Len(Frame(sent[Len(handed') + 1])) >= 6
      BY <3>2, FrameLong
    <3>4. Len(buf') < Len(Frame(sent[Len(handed') + 1]))
      BY <2>2, <3>3
    <3>5. Waiting(buf', sent, handed', closeIt')
      BY <3>4 DEF Waiting
    <3> QED
      BY <1>2, <3>5
  <2> QED
    BY <2>5, <2>6
<1>12. OutOrder(out, got, queued, shown)'
  <2>1. OutOrder(out, got, queued, shown)
    BY DEF Orderly
  <2>2. CASE UNCHANGED outgoing
    BY <2>1, <2>2 DEF outgoing
  <2>3. CASE \E hello \in Hellos : SendFrame(hello)
    <3>1. PICK hello \in Hellos : SendFrame(hello)
      BY <2>3
    <3>2. hello \in Seq(Byte)
      BY FramesAssumption
    <3> QED
      BY <2>1, <3>1, <3>2, FrameSent
  <2> QED
    BY <2>2, <2>3 DEF Takes
<1>13. ~crashed'
  BY <1>2 DEF Orderly
<1> QED
  BY <1>10, <1>11, <1>12, <1>13 DEF Orderly

\* Every step keeps the invariant.
LEMMA FramesInvNext == ASSUME FramesInv, [FrameNext]_fvars PROVE FramesInv'
<1>1. sent \in Seq(Inputs) /\ (InStep => Orderly)
  BY DEF FramesInv
<1>2. CASE Sends
  BY <1>2, OrderlySends
<1>3. ASSUME sent' = sent, InStep => Orderly' PROVE FramesInv'
  BY <1>1, <1>3 DEF FramesInv, InStep
<1>4. CASE UNCHANGED fvars
  <2>1. UNCHANGED <<sending, buf, visiting, closeIt, crashed, handed, sent, out, got, queued, shown>>
    BY <1>4 DEF fvars, incoming, outgoing
  <2>2. Orderly => Orderly'
    BY <2>1 DEF Orderly
  <2> QED
    BY <1>1, <1>3, <2>1, <2>2
<1>5. CASE Shows
  <2>1. sent' = sent
    BY <1>5 DEF Shows, incoming
  <2> QED
    BY <1>1, <1>3, <1>5, <2>1, OrderlyShows
<1>6. CASE SendMessage
  <2>1. sent' = sent
    BY <1>6 DEF SendMessage, incoming
  <2> QED
    BY <1>1, <1>3, <1>6, <2>1, OrderlySendMessage
<1>7. CASE Reads
  <2>1. sent' = sent
    BY <1>7 DEF Reads
  <2> QED
    BY <1>1, <1>3, <1>7, <2>1, OrderlyReads
<1>8. CASE Writes
  <2>1. sent' = sent
    BY <1>8 DEF Writes
  <2> QED
    BY <1>1, <1>3, <1>8, <2>1, OrderlyWrites
<1>9. CASE CloseClient
  <2>1. UNCHANGED <<sending, buf, visiting, closeIt, crashed, handed, sent, out, got, queued, shown>>
    BY <1>9 DEF CloseClient, outgoing
  <2>2. Orderly => Orderly'
    BY <2>1 DEF Orderly
  <2> QED
    BY <1>1, <1>3, <2>1, <2>2
<1>10. CASE Waits
  <2>1. sent' = sent
    BY <1>10 DEF Waits
  <2> QED
    BY <1>1, <1>3, <1>10, <2>1, OrderlyWaits
<1>11. CASE Closes
  <2>1. sent' = sent
    BY <1>11 DEF Closes
  <2> QED
    BY <1>1, <1>3, <1>11, <2>1, OrderlyCloses
<1>12. CASE Refuses \/ Overruns
  <2>1. sent' = sent
    BY <1>12 DEF Refuses, Overruns
  <2> QED
    BY <1>1, <1>3, <1>12, <2>1, NoneRefused
<1>13. CASE Takes
  <2>1. sent' = sent
    BY <1>13 DEF Takes
  <2> QED
    BY <1>1, <1>3, <1>13, <2>1, OrderlyTakes
<1> QED
  BY <1>2, <1>4, <1>5, <1>6, <1>7, <1>8, <1>9, <1>10, <1>11, <1>12, <1>13 DEF FrameNext

\* When no byte is on its way from the browser and the loop is done, only a closing
\* frame is left, and the client is to be closed for it.
LEMMA AllHanded ==
    ASSUME sent \in Seq(Inputs), Orderly, sending = <<>>, ~visiting
    PROVE  /\ \A i \in Len(handed) + 1 .. Len(sent) : sent[i].op = ClosingFrame /\ closeIt
           /\ Len(handed) = Len(sent) => buf = <<>>
<1>1. InOrder(buf, sending, sent, handed) /\ Waiting(buf, sent, handed, closeIt)
  BY DEF Orderly
<1>2. Len(handed) \in Nat /\ Len(sent) \in Nat /\ Len(handed) <= Len(sent) /\ Len(buf) \in Nat
      /\ \A i \in 1 .. Len(sent) - 1 : sent[i].op # ClosingFrame
  BY <1>1 DEF InOrder
<1>3. Len(handed) = Len(sent) => buf = <<>>
  BY <1>1, NoneLeft
<1>4. ASSUME NEW i \in Len(handed) + 1 .. Len(sent) PROVE sent[i].op = ClosingFrame /\ closeIt
  <2>1. Len(handed) < Len(sent)
    BY <1>2
  <2>2. /\ sent[Len(handed) + 1] \in Inputs
        /\ Len(Frame(sent[Len(handed) + 1])) <= Len(buf) + Len(sending)
    BY <1>1, <2>1, NextFrame
  <2>3. Len(sending) = 0 /\ Len(Frame(sent[Len(handed) + 1])) \in Nat
    BY <2>2, FrameLong
  <2>4. ~(Len(buf) < Len(Frame(sent[Len(handed) + 1])))
    BY <1>2, <2>2, <2>3
  <2>5. sent[Len(handed) + 1].op = ClosingFrame /\ closeIt
    BY <1>1, <1>2, <2>1, <2>4 DEF Waiting
  <2>6. Len(handed) + 1 \notin 1 .. Len(sent) - 1
    BY <1>2, <2>5
  <2>7. i = Len(handed) + 1
    BY <1>2, <2>1, <2>6
  <2> QED
    BY <2>5, <2>7
<1> QED
  BY <1>3, <1>4

\* When no byte is on its way to the browser, and it has no frame that it could take,
\* it has shown every message that was put in the buffer.
LEMMA AllShown ==
    ASSUME Orderly, out = <<>>, ~HasFrame(got)
    PROVE  got = <<>> /\ shown = queued
<1>1. OutOrder(out, got, queued, shown)
  BY DEF Orderly
<1>2. Len(shown) \in Nat /\ Len(queued) \in Nat /\ Len(shown) <= Len(queued) /\ got \in Seq(Byte)
  BY <1>1 DEF OutOrder
<1>3. Len(shown) = Len(queued)
  <2>1. SUFFICES ASSUME Len(shown) < Len(queued) PROVE FALSE
    BY <1>2
  <2>2. PICK m, F : m = queued[Len(shown) + 1] /\ F = FrameTo(m)
    OBVIOUS
  <2>3. /\ m \in Seq(Byte) /\ Len(m) < Base * Base /\ Starts(got, F)
        /\ Len(F) <= Len(got) + Len(out)
    BY <1>1, <2>1, <2>2, NextDue
  <2>4. F \in Seq(Byte)
    BY <2>2, <2>3, FrameToLayout
  <2>5. Len(out) = 0 /\ Len(F) \in Nat /\ Len(got) \in Nat
    BY <1>2, <2>4
  <2>6. Len(got) >= Len(F)
    BY <2>3, <2>5
  <2> QED
    BY <1>2, <2>2, <2>3, <2>6, ExtentRead
<1> QED
  BY <1>1, <1>3, NothingDue

\* What the property says is in the invariant.
LEMMA FramesInvGives == ASSUME FramesInv PROVE FramesInStep
<1>1. SUFFICES ASSUME InStep
      PROVE  /\ ~crashed
             /\ Len(handed) <= Len(sent)
             /\ \A i \in 1 .. Len(handed) : handed[i] = sent[i].data /\ sent[i].op # ClosingFrame
             /\ sending = <<>> /\ ~visiting =>
                 /\ \A i \in Len(handed) + 1 .. Len(sent) : sent[i].op = ClosingFrame /\ closeIt
                 /\ Len(handed) = Len(sent) => buf = <<>>
             /\ Len(shown) <= Len(queued)
             /\ \A i \in 1 .. Len(shown) : shown[i] = queued[i]
             /\ out = <<>> /\ ~HasFrame(got) => got = <<>> /\ shown = queued
  BY <1>1 DEF FramesInStep, InStep
<1>2. sent \in Seq(Inputs) /\ Orderly
  BY <1>1 DEF FramesInv
<1>3. ~crashed /\ InOrder(buf, sending, sent, handed) /\ OutOrder(out, got, queued, shown)
  BY <1>2 DEF Orderly
<1>4. /\ Len(handed) <= Len(sent)
      /\ \A i \in 1 .. Len(handed) : handed[i] = sent[i].data /\ sent[i].op # ClosingFrame
  BY <1>3 DEF InOrder
<1>5. Len(shown) <= Len(queued) /\ \A i \in 1 .. Len(shown) : shown[i] = queued[i]
  BY <1>3 DEF OutOrder
<1>6. sending = <<>> /\ ~visiting =>
        /\ \A i \in Len(handed) + 1 .. Len(sent) : sent[i].op = ClosingFrame /\ closeIt
        /\ Len(handed) = Len(sent) => buf = <<>>
  BY <1>2, AllHanded
<1>7. out = <<>> /\ ~HasFrame(got) => got = <<>> /\ shown = queued
  BY <1>2, AllShown
<1> QED
  BY <1>3, <1>4, <1>5, <1>6, <1>7

\* However the bytes of a connection are cut, and for every base, every limit, every
\* masking and any frames of a browser, frames do not run into each other, in neither
\* direction (process_client_ws, process_client_ws_sendn_frame, io_buff_get).
THEOREM FramesStayInStep == FrameSpec => []FramesInStep
<1>1. FrameInit => FramesInv
  BY FramesInvInit
<1>2. FramesInv /\ [FrameNext]_fvars => FramesInv'
  BY FramesInvNext
<1>3. FramesInv => FramesInStep
  BY FramesInvGives
<1> QED
  BY <1>1, <1>2, <1>3, PTL DEF FrameSpec
=============================================================================
