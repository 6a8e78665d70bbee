------------------------------- MODULE IoBuffer -------------------------------
(***************************************************************************)
(* The io_buffer of api/websockets/wsd/lists.c: an array on the heap that   *)
(* doubles when it is full, keeps its first len bytes and a NUL after them  *)
(* (the reactor searches buffer_read with strstr), and is read from its     *)
(* head.  Memory that was never written holds Junk.                         *)
(***************************************************************************)
EXTENDS Naturals, Sequences

CONSTANTS
    Bytes,     \* bytes other than NUL
    MinSize,   \* min_buff_size
    MaxData,   \* bound: bytes pushed at once
    MaxLen     \* bound: bytes held

ASSUME IoBufferAssumption == MinSize \in Nat \ {0} /\ MaxData \in Nat /\ MaxLen \in Nat

Nul == "nul"
Junk == "junk"
Cell == Bytes \cup {Nul, Junk}

VARIABLES
    value,  \* the array, indexed from 0; nothing while value is NULL
    len, size

vars == <<value, len, size>>

TypeOK == /\ len \in Nat /\ size \in Nat
          /\ value \in [0 .. size - 1 -> Cell]

Init == len = 0 /\ size = 0 /\ value = [i \in {} |-> Junk]

Data == UNION {[1 .. n -> Bytes \cup {Nul}] : n \in 0 .. MaxData}

\* Variant: the loop stops as soon as the data fits, without its NUL.
GrownTight(s, need) == {t \in need .. 2 * need - 1 : \E k \in 1 .. need : t = s * 2 ^ k}

\* The do-while loop, for s <= need: s is doubled until it exceeds need.
Grown(s, need) == {t \in need + 1 .. 2 * need : \E k \in 1 .. need : t = s * 2 ^ k}

\* The size io_buff_push goes on with: a first allocation, a larger one, or as is.
SizeFor(dlen) ==
    IF size = 0 THEN {IF dlen + 1 < MinSize THEN MinSize ELSE dlen + 1}
    ELSE IF size < len + dlen + 1 THEN Grown(size, len + dlen)
    ELSE {size}

\* Variant: the data is put at the start of the array.
WrittenAtStart(data, s) ==
    [i \in 0 .. s - 1 |->
        IF i < Len(data) THEN data[i + 1]
        ELSE IF i = len + Len(data) THEN Nul
        ELSE IF i < size THEN value[i] ELSE Junk]

\* The array, once it has s cells, with data and a NUL after what it held.
Written(data, s) ==
    [i \in 0 .. s - 1 |->
        IF i \in len .. len + Len(data) - 1 THEN data[i - len + 1]
        ELSE IF i = len + Len(data) THEN Nul
        ELSE IF i < size THEN value[i] ELSE Junk]

\* io_buff_push.
Push(data) ==
    /\ len + Len(data) <= MaxLen
    /\ len' = len + Len(data)
    /\ \E s \in SizeFor(Len(data)) : size' = s /\ value' = Written(data, s)

\* Variant: the length asked for is not looked at.
GetUnchecked(dlen) ==
    /\ len' = len - dlen
    /\ value' = [i \in 0 .. size - 1 |->
                   IF i < len - dlen THEN value[i + dlen]
                   ELSE IF i < len THEN Nul ELSE value[i]]
    /\ UNCHANGED size

\* Variant: the rest of the array is not cleared after the move.
GetUncleared(dlen) ==
    /\ dlen <= len
    /\ len' = len - dlen
    /\ value' = [i \in 0 .. size - 1 |->
                   IF i < len - dlen THEN value[i + dlen] ELSE value[i]]
    /\ UNCHANGED size

\* io_buff_get: the rest moves to the front, and as many cells are cleared.
Get(dlen) ==
    /\ dlen <= len
    /\ len' = len - dlen
    /\ value' = [i \in 0 .. size - 1 |->
                   IF i < len - dlen THEN value[i + dlen]
                   ELSE IF i < len THEN Nul ELSE value[i]]
    /\ UNCHANGED size

\* io_buff_free.
Free == len' = 0 /\ size' = 0 /\ value' = [i \in {} |-> Junk]

Next == \/ \E data \in Data : Push(data)
        \/ \E dlen \in 0 .. MaxLen : Get(dlen)
        \/ Free

Spec == Init /\ [][Next]_vars
-----------------------------------------------------------------------------
(* Properties                                                              *)

\* Whatever was pushed and taken, an array that exists has a cell for the NUL
\* after its bytes and the NUL is in it, although lists.c:157 and 160 size it by
\* different comparisons and io_buff_get moves bytes over it.
Terminated == IF size = 0 THEN len = 0 ELSE len < size /\ value[len] = Nul

\* The buffer is a queue of bytes, whatever io_buff_push and io_buff_get move,
\* clear and reallocate: lists.c:173-178 and 199-202.
Queue == INSTANCE Fifo WITH queue <- [i \in 1 .. len |-> value[i - 1]]
IsQueue == Queue!Spec
=============================================================================
