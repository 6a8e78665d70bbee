---------------------------- MODULE Client3Proofs ----------------------------
(***************************************************************************)
(* Proofs about Client3, for every set of commands, with and without       *)
(* reconnection, for any number of broken connections: types, the offsets  *)
(* of commands_to_send, what a status says of the write buffer, and the    *)
(* promise of Rpc.                                                         *)
(*                                                                         *)
(* A command is whole once its End is there.  Placed follows the End of    *)
(* every command from the write buffer to the server and says that it is   *)
(* in one place at a time, so that a command can be executed once only.    *)
(***************************************************************************)
EXTENDS Client3, SequenceTheorems, TLAPS

End(c) == [of |-> c, tail |-> TRUE]
Has(s, u) == \E i \in 1 .. Len(s) : s[i] = u

\* No command ends twice in s.
EndsOnce(s) == \A i, j \in 1 .. Len(s) : s[i].tail /\ s[i] = s[j] => i = j

\* A head in the write buffer is followed by its tail.
HeadsFollowed == \A i \in 1 .. Len(wbuf) :
    ~wbuf[i].tail => i < Len(wbuf) /\ wbuf[i + 1] = End(wbuf[i].of)

\* Where the end of a command is, and what that says of it.
PlacedAt(c) ==
    /\ executed[c] \in 0 .. 1
    /\ call[c] = "idle" =>
         ~Has(wbuf, End(c)) /\ ~Has(toserver, End(c)) /\ executed[c] = 0
    /\ Has(wbuf, End(c)) => ~Has(toserver, End(c)) /\ executed[c] = 0
    /\ Has(toserver, End(c)) => executed[c] = 0
    /\ (c \in owed \/ status[c] = 3 \/ Has(toclient, End(c)) \/ Has(rbuf, End(c)))
         => executed[c] = 1
    /\ status[c] = 2 => ~Has(wbuf, End(c))

Placed ==
    /\ OffsetsExact /\ HeadsFollowed
    /\ EndsOnce(wbuf) /\ EndsOnce(toserver)
    /\ \A c \in Cmds : PlacedAt(c)

\* The inductive invariant.
IInv == TypeOK /\ Placed

-----------------------------------------------------------------------------
(* Sequences of units                                                      *)

LEMMA LineType ==
    ASSUME NEW c \in Cmds
    PROVE  /\ Line(c) \in Seq(Unit) /\ Len(Line(c)) = 2
           /\ Line(c)[1] = [of |-> c, tail |-> FALSE] /\ Line(c)[2] = End(c)
BY DEF Line, Unit, End

LEMMA LineEnds == ASSUME NEW c \in Cmds PROVE Has(Line(c), End(c))
<1>1. Len(Line(c)) = 2 /\ Line(c)[2] = End(c)
  BY LineType
<1>2. 2 \in 1 .. 2
  OBVIOUS
<1> QED
  BY <1>1, <1>2 DEF Has

LEMMA LineHas ==
    ASSUME NEW c \in Cmds, NEW d \in Cmds, Has(Line(c), End(d)) PROVE d = c
<1>1. PICK i \in 1 .. 2 : Line(c)[i] = End(d)
  BY LineType DEF Has
<1>2. CASE i = 1
  <2>1. End(d) = [of |-> c, tail |-> FALSE]
    BY <1>1, <1>2, LineType
  <2>2. End(d).tail = TRUE /\ [of |-> c, tail |-> FALSE].tail = FALSE
    BY DEF End
  <2> QED
    BY <2>1, <2>2
<1>3. CASE i = 2
  <2>1. End(d) = End(c)
    BY <1>1, <1>3, LineType
  <2>2. End(d).of = d /\ End(c).of = c
    BY DEF End
  <2> QED
    BY <2>1, <2>2
<1> QED
  BY <1>2, <1>3

LEMMA DropIs ==
    ASSUME NEW s \in Seq(Unit), NEW n \in 0 .. Len(s)
    PROVE  /\ Drop(s, n) \in Seq(Unit) /\ Len(Drop(s, n)) = Len(s) - n
           /\ \A i \in 1 .. Len(s) - n : n + i \in 1 .. Len(s) /\ Drop(s, n)[i] = s[n + i]
<1> DEFINE d == SubSeq(s, n + 1, Len(s))
<1>1. Len(s) \in Nat /\ n \in Nat /\ n <= Len(s)
  OBVIOUS
<1>2. d \in Seq(Unit) /\ Len(d) = Len(s) - n
  <2>1. \A i \in n + 1 .. Len(s) : i \in 1 .. Len(s)
    BY <1>1
  <2> QED
    BY <1>1, <2>1, SubSeqProperties
<1>3. ASSUME NEW i \in 1 .. Len(s) - n PROVE n + i \in 1 .. Len(s) /\ d[i] = s[n + i]
  <2>1. n + i \in 1 .. Len(s) /\ n + 1 + i - 1 = n + i
    BY <1>1
  <2>2. d[i] = s[n + 1 + i - 1]
    BY <1>1, SubSeqProperties
  <2> QED
    BY <2>1, <2>2
<1> QED
  BY <1>2, <1>3 DEF Drop

LEMMA KeepIs ==
    ASSUME NEW s \in Seq(Unit), NEW n \in 0 .. Len(s)
    PROVE  /\ Keep(s, n) \in Seq(Unit) /\ Len(Keep(s, n)) = n
           /\ \A i \in 1 .. n : i \in 1 .. Len(s) /\ Keep(s, n)[i] = s[i]
BY DEF Keep

LEMMA DropHas ==
    ASSUME NEW s \in Seq(Unit), NEW n \in 0 .. Len(s), NEW u, Has(Drop(s, n), u)
    PROVE  /\ Has(s, u)
           /\ \E i \in 1 .. Len(s) - n : s[n + i] = u /\ n + i \in 1 .. Len(s)
<1>1. Len(Drop(s, n)) = Len(s) - n
  BY DropIs
<1>2. PICK i \in 1 .. Len(s) - n : Drop(s, n)[i] = u
  BY <1>1 DEF Has
<1>3. n + i \in 1 .. Len(s) /\ s[n + i] = u
  BY <1>2, DropIs
<1> QED
  BY <1>3 DEF Has

LEMMA KeepHas ==
    ASSUME NEW s \in Seq(Unit), NEW n \in 0 .. Len(s), NEW u, Has(Keep(s, n), u)
    PROVE  Has(s, u) /\ \E i \in 1 .. n : s[i] = u /\ i \in 1 .. Len(s)
<1>1. Len(Keep(s, n)) = n
  BY KeepIs
<1>2. PICK i \in 1 .. n : Keep(s, n)[i] = u
  BY <1>1 DEF Has
<1>3. i \in 1 .. Len(s) /\ s[i] = u
  BY <1>2, KeepIs
<1> QED
  BY <1>3 DEF Has

LEMMA ConcatHas ==
    ASSUME NEW s \in Seq(Unit), NEW t \in Seq(Unit), NEW u, Has(s \o t, u)
    PROVE  Has(s, u) \/ Has(t, u)
<1>1. PICK i \in 1 .. Len(s \o t) : (s \o t)[i] = u
  BY DEF Has
<1>2. CASE i <= Len(s)
  BY <1>1, <1>2, ConcatProperties DEF Has
<1>3. CASE i > Len(s)
  <2>1. i - Len(s) \in 1 .. Len(t) /\ t[i - Len(s)] = u
    BY <1>1, <1>3, ConcatProperties
  <2> QED
    BY <2>1 DEF Has
<1> QED
  BY <1>1, <1>2, <1>3, ConcatProperties

LEMMA ConcatEndsOnce ==
    ASSUME NEW s \in Seq(Unit), NEW t \in Seq(Unit), EndsOnce(s), EndsOnce(t),
           \A c \in Cmds : ~(Has(s, End(c)) /\ Has(t, End(c)))
    PROVE  EndsOnce(s \o t)
<1> DEFINE st == s \o t
<1>1. Len(st) = Len(s) + Len(t) /\ Len(s) \in Nat /\ Len(t) \in Nat
  BY ConcatProperties
<1>2. \A i \in 1 .. Len(s) + Len(t) : st[i] = IF i <= Len(s) THEN s[i] ELSE t[i - Len(s)]
  BY ConcatProperties
<1>3. ASSUME NEW i \in 1 .. Len(s), NEW j \in 1 .. Len(t), s[i].tail PROVE s[i] # t[j]
  <2>1. s[i] \in Unit
    OBVIOUS
  <2>2. s[i].of \in Cmds /\ s[i] = End(s[i].of)
    BY <1>3, <2>1 DEF Unit, End
  <2> QED
    BY <2>2 DEF Has
<1> HIDE DEF st
<1>4. ASSUME NEW i \in 1 .. Len(st), NEW j \in 1 .. Len(st), st[i].tail, st[i] = st[j]
      PROVE  i = j
  <2>1. CASE i <= Len(s) /\ j <= Len(s)
    BY <2>1, <1>1, <1>2, <1>4 DEF EndsOnce
  <2>2. CASE i > Len(s) /\ j > Len(s)
    <3>1. i - Len(s) \in 1 .. Len(t) /\ j - Len(s) \in 1 .. Len(t)
      BY <2>2, <1>1
    <3>2. st[i] = t[i - Len(s)] /\ st[j] = t[j - Len(s)]
      BY <2>2, <1>1, <1>2
    <3>3. i - Len(s) = j - Len(s)
      BY <3>1, <3>2, <1>4 DEF EndsOnce
    <3> QED
      BY <3>3, <1>1
  <2>3. CASE i <= Len(s) /\ j > Len(s)
    <3>1. i \in 1 .. Len(s) /\ j - Len(s) \in 1 .. Len(t)
      BY <2>3, <1>1
    <3>2. st[i] = s[i] /\ st[j] = t[j - Len(s)]
      BY <2>3, <1>1, <1>2
    <3> QED
      BY <3>1, <3>2, <1>3, <1>4
  <2>4. CASE i > Len(s) /\ j <= Len(s)
    <3>1. j \in 1 .. Len(s) /\ i - Len(s) \in 1 .. Len(t)
      BY <2>4, <1>1
    <3>2. st[j] = s[j] /\ st[i] = t[i - Len(s)]
      BY <2>4, <1>1, <1>2
    <3> QED
      BY <3>1, <3>2, <1>3, <1>4
  <2> QED
    BY <1>1, <2>1, <2>2, <2>3, <2>4
<1> QED
  BY <1>4 DEF EndsOnce, st

LEMMA PartEndsOnce ==
    ASSUME NEW s \in Seq(Unit), NEW n \in 0 .. Len(s), EndsOnce(s)
    PROVE  /\ EndsOnce(Drop(s, n)) /\ EndsOnce(Keep(s, n))
           /\ \A c \in Cmds : ~(Has(Keep(s, n), End(c)) /\ Has(Drop(s, n), End(c)))
<1>1. EndsOnce(Drop(s, n))
  <2> SUFFICES ASSUME NEW i \in 1 .. Len(s) - n, NEW j \in 1 .. Len(s) - n,
                      Drop(s, n)[i].tail, Drop(s, n)[i] = Drop(s, n)[j]
               PROVE  i = j
    BY DropIs DEF EndsOnce
  <2>1. n + i \in 1 .. Len(s) /\ n + j \in 1 .. Len(s) /\ s[n + i].tail /\ s[n + i] = s[n + j]
    BY DropIs
  <2>2. n + i = n + j
    BY <2>1 DEF EndsOnce
  <2>3. n \in Nat /\ Len(s) - n \in Int /\ i \in Int /\ j \in Int
    OBVIOUS
  <2> QED
    BY <2>2, <2>3
<1>2. EndsOnce(Keep(s, n))
  <2> SUFFICES ASSUME NEW i \in 1 .. n, NEW j \in 1 .. n,
                      Keep(s, n)[i].tail, Keep(s, n)[i] = Keep(s, n)[j]
               PROVE  i = j
    BY KeepIs DEF EndsOnce
  <2>1. i \in 1 .. Len(s) /\ j \in 1 .. Len(s) /\ s[i].tail /\ s[i] = s[j]
    BY KeepIs
  <2> QED
    BY <2>1 DEF EndsOnce
<1>3. ASSUME NEW c \in Cmds, Has(Keep(s, n), End(c)), Has(Drop(s, n), End(c)) PROVE FALSE
  <2>1. PICK i \in 1 .. n : s[i] = End(c) /\ i \in 1 .. Len(s)
    BY <1>3, KeepHas
  <2>2. PICK j \in 1 .. Len(s) - n : s[n + j] = End(c) /\ n + j \in 1 .. Len(s)
    BY <1>3, DropHas
  <2>3. s[i].tail
    BY <2>1 DEF End
  <2>4. i = n + j
    BY <2>1, <2>2, <2>3 DEF EndsOnce
  <2> QED
    BY <2>1, <2>2, <2>4
<1> QED
  BY <1>1, <1>2, <1>3

\* Nothing is in an empty buffer.
LEMMA EmptyHas == EndsOnce(<<>>) /\ \A u : ~Has(<<>>, u)
BY DEF EndsOnce, Has

-----------------------------------------------------------------------------
(* Types                                                                   *)

LEMMA ExceptType ==
    ASSUME NEW D, NEW R, NEW f \in [D -> R], NEW d, NEW x \in R
    PROVE  [f EXCEPT ![d] = x] \in [D -> R]
OBVIOUS

LEMMA CallType ==
    ASSUME TypeOK, NEW c \in Cmds, Call(c) PROVE TypeOK'
<1>1. wbuf \in Seq(Unit) /\ Len(wbuf) + 2 \in Nat
  BY DEF TypeOK
<1>2. wbuf \o Line(c) \in Seq(Unit)
  BY <1>1, LineType, ConcatProperties
<1>3. wbuf' = wbuf \/ wbuf' = wbuf \o Line(c)
  BY DEF Call
<1>4. call' \in [Cmds -> {"idle", "waiting", "answered", "failed"}]
  <2>1. call' = [call EXCEPT ![c] = "waiting"] \/ call' = [call EXCEPT ![c] = "failed"]
    BY DEF Call
  <2> QED
    BY <2>1, ExceptType DEF TypeOK
<1>5. status' \in [Cmds -> 0 .. 4]
  <2>1. status' = status \/ status' = [status EXCEPT ![c] = 1]
    BY DEF Call
  <2>2. 1 \in 0 .. 4
    OBVIOUS
  <2> QED
    BY <2>1, <2>2, ExceptType DEF TypeOK
<1>6. tosend' \subseteq Cmds
  <2>1. tosend' = tosend \/ tosend' = tosend \cup {c}
    BY DEF Call
  <2> QED
    BY <2>1 DEF TypeOK
<1>7. ebyte' \in [Cmds -> Nat]
  <2>1. ebyte' = ebyte \/ ebyte' = [ebyte EXCEPT ![c] = Len(wbuf) + 2]
    BY DEF Call
  <2> QED
    BY <1>1, <2>1 DEF TypeOK
<1>8. UNCHANGED <<timed, late, is_exit, at, conn, dead, toserver, toclient, owed, breaks, rbuf,
                  executed>>
  BY DEF Call, conns
<1> QED
  BY <1>1, <1>2, <1>3, <1>4, <1>5, <1>6, <1>7, <1>8 DEF TypeOK

LEMMA CallerType ==
    ASSUME TypeOK, NEW c \in Cmds, TimePasses(c) \/ Poll(c) PROVE TypeOK'
<1>1. UNCHANGED <<timed, tosend, ebyte, is_exit, at, conn, dead, toserver, toclient, owed, breaks,
                  wbuf, rbuf, executed>>
  BY DEF TimePasses, Poll, track, conns
<1>2. late' \in [Cmds -> BOOLEAN]
  <2>1. late' = late \/ late' = [late EXCEPT ![c] = TRUE]
    BY DEF TimePasses, Poll
  <2> QED
    BY <2>1 DEF TypeOK
<1>3. call' \in [Cmds -> {"idle", "waiting", "answered", "failed"}]
  <2>1. \/ call' = call
        \/ call' = [call EXCEPT ![c] = "answered"]
        \/ call' = [call EXCEPT ![c] = "failed"]
    BY DEF TimePasses, Poll
  <2> QED
    BY <2>1, ExceptType DEF TypeOK
<1>4. status' \in [Cmds -> 0 .. 4]
  <2>1. status' = status \/ status' = [status EXCEPT ![c] = 4]
    BY DEF TimePasses, Poll, track
  <2>2. 4 \in 0 .. 4
    OBVIOUS
  <2> QED
    BY <2>1, <2>2, ExceptType DEF TypeOK
<1> QED
  BY <1>1, <1>2, <1>3, <1>4 DEF TypeOK

LEMMA MarkedType == ASSUME TypeOK PROVE MarkedFailed \in [Cmds -> 0 .. 4]
BY DEF TypeOK, MarkedFailed

LEMMA StopType == ASSUME TypeOK, Stop PROVE TypeOK'
BY MarkedType DEF TypeOK, Stop, caller, conns

LEMMA LoopType ==
    ASSUME TypeOK, LoopStarts \/ CheckConnected \/ ConnectSucceeds \/ ConnectFails \/ DeadExpires
    PROVE  TypeOK'
<1>1. CASE LoopStarts /\ is_exit
  BY <1>1 DEF TypeOK, LoopStarts, Closed, caller
<1>2. CASE LoopStarts /\ ~is_exit
  <2>1. rbuf' \in Seq(Unit)
    BY <1>2, DropIs DEF TypeOK, LoopStarts
  <2>2. status' \in [Cmds -> 0 .. 4]
    BY <1>2 DEF TypeOK, LoopStarts
  <2> QED
    BY <1>2, <2>1, <2>2 DEF TypeOK, LoopStarts, caller
<1>3. CASE CheckConnected
  BY <1>3 DEF TypeOK, CheckConnected, caller, track, conns
<1>4. CASE ConnectSucceeds
  BY <1>4, MarkedType DEF TypeOK, ConnectSucceeds, caller
<1>5. CASE ConnectFails
  BY <1>5 DEF TypeOK, ConnectFails, caller, track, DeadMark
<1>6. CASE DeadExpires
  BY <1>6 DEF TypeOK, DeadExpires, caller, track
<1> QED
  BY <1>1, <1>2, <1>3, <1>4, <1>5, <1>6

LEMMA SentType ==
    ASSUME TypeOK, NEW count \in Nat, TestSent(count)
    PROVE  /\ status' \in [Cmds -> 0 .. 4] /\ timed' \in [Cmds -> BOOLEAN]
           /\ tosend' \subseteq Cmds /\ ebyte' \in [Cmds -> Nat]
<1> DEFINE sent == {c \in tosend : ebyte[c] <= count}
<1>1. tosend' \subseteq Cmds
  BY DEF TypeOK, TestSent
<1>2. status' \in [Cmds -> 0 .. 4]
  BY DEF TypeOK, TestSent
<1>3. timed' \in [Cmds -> BOOLEAN]
  BY DEF TypeOK, TestSent
<1>4. \A c \in Cmds : c \in tosend \ sent => ebyte[c] - count \in Nat
  BY DEF TypeOK
<1>5. ebyte' = [c \in Cmds |-> IF c \in tosend \ sent THEN ebyte[c] - count ELSE ebyte[c]]
  BY DEF TestSent
<1>6. ebyte' \in [Cmds -> Nat]
  BY <1>4, <1>5 DEF TypeOK
<1> QED
  BY <1>1, <1>2, <1>3, <1>6

LEMMA ReadWriteType ==
    ASSUME TypeOK, NEW fr \in BOOLEAN, NEW fw \in BOOLEAN, NEW got \in 0 .. Len(toclient),
           NEW count \in 0 .. Len(wbuf), ReadWrite(fr, fw, got, count)
    PROVE  TypeOK'
<1>1. wbuf \in Seq(Unit) /\ rbuf \in Seq(Unit) /\ toserver \in Seq(Unit) /\ toclient \in Seq(Unit)
  BY DEF TypeOK
<1>2. rbuf' \in Seq(Unit)
  BY <1>1, KeepIs, ConcatProperties DEF ReadWrite
<1>3. wbuf' \in Seq(Unit)
  <2>1. wbuf' = Drop(wbuf, count)
    BY DEF ReadWrite, Unsent
  <2> QED
    BY <1>1, <2>1, DropIs
<1>4. toclient' \in Seq(Unit)
  <2>1. toclient' = <<>> \/ toclient' = Drop(toclient, got)
    BY DEF ReadWrite, Closed
  <2>2. Drop(toclient, got) \in Seq(Unit) /\ <<>> \in Seq(Unit)
    BY <1>1, DropIs
  <2> QED
    BY <2>1, <2>2
<1>5. toserver' \in Seq(Unit)
  <2>1. toserver' = <<>> \/ toserver' = toserver \o Keep(wbuf, count)
    BY DEF ReadWrite, Closed
  <2>2. Keep(wbuf, count) \in Seq(Unit) /\ <<>> \in Seq(Unit)
    BY <1>1, KeepIs
  <2>3. toserver \o Keep(wbuf, count) \in Seq(Unit)
    BY <1>1, <2>2, ConcatProperties
  <2> QED
    BY <2>1, <2>2, <2>3
<1>6. conn' \in {"none", "up", "broken"} /\ dead' \in {"no", "until", "forever"} /\ owed' \subseteq Cmds
  BY DEF ReadWrite, Closed, DeadMark, TypeOK
<1>7. count \in Nat
  OBVIOUS
<1>8. /\ status' \in [Cmds -> 0 .. 4] /\ timed' \in [Cmds -> BOOLEAN]
      /\ tosend' \subseteq Cmds /\ ebyte' \in [Cmds -> Nat]
  BY <1>7, SentType DEF ReadWrite, TypeOK, track
<1>9. at' = "start" /\ UNCHANGED <<call, late, is_exit, breaks, executed>>
  BY DEF ReadWrite, caller
<1> QED
  BY <1>2, <1>3, <1>4, <1>5, <1>6, <1>8, <1>9 DEF TypeOK

LEMMA ServerType ==
    ASSUME TypeOK, ServerReads \/ (\E c \in Cmds : ServerAnswers(c)) \/ Break
    PROVE  TypeOK'
<1>1. CASE ServerReads
  <2>1. PICK i \in Ends(toserver) :
          /\ toserver' = Drop(toserver, i)
          /\ \E S \in {{c \in Cmds : Keep(toserver, i) = Line(c)}} :
               /\ executed' = [c \in Cmds |-> IF c \in S THEN executed[c] + 1 ELSE executed[c]]
               /\ owed' = owed \cup S
    BY <1>1 DEF ServerReads
  <2>2. toserver' \in Seq(Unit)
    BY <2>1, DropIs DEF Ends, TypeOK
  <2>3. executed' \in [Cmds -> Nat] /\ owed' \subseteq Cmds
    BY <2>1 DEF TypeOK
  <2>4. UNCHANGED <<caller, track, is_exit, at, conn, dead, toclient, breaks, wbuf, rbuf>>
    BY <1>1 DEF ServerReads
  <2> QED
    BY <2>2, <2>3, <2>4 DEF TypeOK, caller, track
<1>2. ASSUME NEW c \in Cmds, ServerAnswers(c) PROVE TypeOK'
  <2>1. toclient' \in Seq(Unit)
    BY <1>2, LineType, ConcatProperties DEF ServerAnswers, TypeOK
  <2> QED
    BY <1>2, <2>1 DEF ServerAnswers, TypeOK, caller, track
<1>3. CASE Break
  <2>1. toclient' \in Seq(Unit)
    BY <1>3, KeepIs DEF Break, TypeOK
  <2> QED
    BY <1>3, <2>1 DEF Break, TypeOK, caller, track
<1> QED
  BY <1>1, <1>2, <1>3

LEMMA InitType == ASSUME Init PROVE TypeOK
<1>1. wbuf \in Seq(Unit) /\ rbuf \in Seq(Unit) /\ toserver \in Seq(Unit) /\ toclient \in Seq(Unit)
  BY DEF Init
<1>2. call \in [Cmds -> {"idle", "waiting", "answered", "failed"}]
  BY DEF Init
<1>3. status \in [Cmds -> 0 .. 4] /\ timed \in [Cmds -> BOOLEAN] /\ late \in [Cmds -> BOOLEAN]
  BY DEF Init
<1>4. ebyte \in [Cmds -> Nat] /\ executed \in [Cmds -> Nat]
  BY DEF Init
<1>5. is_exit = FALSE /\ at = "start" /\ tosend = {} /\ owed = {}
  BY DEF Init
<1>6. conn \in {"none", "up"} /\ dead \in {"no", "until", "forever"} /\ breaks \in Nat
  BY DEF Init, DeadMark
<1> QED
  BY <1>1, <1>2, <1>3, <1>4, <1>5, <1>6 DEF TypeOK

LEMMA TypeStep == TypeOK /\ [Next]_vars => TypeOK'
<1> SUFFICES ASSUME TypeOK, [Next]_vars PROVE TypeOK'
  OBVIOUS
<1>1. ASSUME NEW c \in Cmds, Call(c) PROVE TypeOK'
  BY <1>1, CallType
<1>2. ASSUME NEW c \in Cmds, TimePasses(c) \/ Poll(c) PROVE TypeOK'
  BY <1>2, CallerType
<1>3. CASE Stop
  BY <1>3, StopType
<1>4. CASE LoopStarts \/ CheckConnected \/ ConnectSucceeds \/ ConnectFails \/ DeadExpires
  BY <1>4, LoopType
<1>5. ASSUME NEW fr \in BOOLEAN, NEW fw \in BOOLEAN, NEW got \in 0 .. Len(toclient),
             NEW count \in 0 .. Len(wbuf), ReadWrite(fr, fw, got, count)
      PROVE  TypeOK'
  BY <1>5, ReadWriteType
<1>6. CASE Server \/ Break
  BY <1>6, ServerType DEF Server
<1>7. CASE UNCHANGED vars
  BY <1>7 DEF TypeOK, vars, caller, track, conns
<1> QED
  BY <1>1, <1>2, <1>3, <1>4, <1>5, <1>6, <1>7 DEF Next, Connector

\* Every state has its type; in particular the offsets of commands_to_send are
\* never reduced below zero by what has been written.
THEOREM TypeCorrect == Spec => []TypeOK
BY InitType, TypeStep, PTL DEF Spec

-----------------------------------------------------------------------------
(* Where the ends of the commands are                                      *)

\* At first nothing is anywhere.
LEMMA InitPlaced == ASSUME Init PROVE Placed
<1>1. wbuf = <<>> /\ rbuf = <<>> /\ toserver = <<>> /\ toclient = <<>>
  BY DEF Init
<1>2. tosend = {} /\ owed = {} /\ \A c \in Cmds : executed[c] = 0 /\ status[c] = 0
  BY DEF Init
<1>3. OffsetsExact
  BY <1>2 DEF OffsetsExact
<1>4. HeadsFollowed
  BY <1>1 DEF HeadsFollowed
<1>5. \A c \in Cmds : PlacedAt(c)
  BY <1>1, <1>2, EmptyHas DEF PlacedAt
<1> QED
  BY <1>1, <1>3, <1>4, <1>5, EmptyHas DEF Placed

\* The steps that leave the write buffer alone, and put nothing new where only
\* executed commands are.
LEMMA Quiet ==
    ASSUME IInv, UNCHANGED <<wbuf, tosend, ebyte, executed>>,
           toserver' = toserver \/ toserver' = <<>>,
           \A c \in Cmds :
             /\ call'[c] = "idle" => call[c] = "idle"
             /\ status'[c] = 2 => status[c] = 2
             /\ (c \in owed' \/ status'[c] = 3 \/ Has(toclient', End(c)) \/ Has(rbuf', End(c)))
                  => executed[c] = 1
    PROVE  Placed'
<1>1. OffsetsExact' /\ HeadsFollowed' /\ EndsOnce(wbuf)'
  BY DEF IInv, Placed, OffsetsExact, HeadsFollowed, EndsOnce
<1>2. EndsOnce(toserver)'
  BY EmptyHas DEF IInv, Placed, EndsOnce
<1>3. ASSUME NEW c \in Cmds PROVE PlacedAt(c)'
  <2>1. PlacedAt(c)
    BY DEF IInv, Placed
  <2>2. Has(wbuf', End(c)) <=> Has(wbuf, End(c))
    BY DEF Has
  <2>3. Has(toserver', End(c)) => Has(toserver, End(c))
    BY EmptyHas DEF Has
  <2> QED
    BY <2>1, <2>2, <2>3 DEF PlacedAt
<1> QED
  BY <1>1, <1>2, <1>3 DEF Placed

LEMMA CallPlaced ==
    ASSUME IInv, NEW c \in Cmds, Call(c) PROVE Placed'
<1>0. UNCHANGED <<toserver, toclient, rbuf, owed, executed>>
  BY DEF Call, conns
<1>1. CASE dead # "no"
  <2>1. UNCHANGED <<status, tosend, ebyte, wbuf>> /\ call' = [call EXCEPT ![c] = "failed"]
    BY <1>1 DEF Call
  <2>2. ASSUME NEW d \in Cmds, call'[d] = "idle" PROVE call[d] = "idle"
    <3>1. call'[d] = IF d = c THEN "failed" ELSE call[d]
      BY <2>1 DEF IInv, TypeOK
    <3> QED
      BY <2>2, <3>1
  <2>3. \A d \in Cmds : d \in owed \/ status[d] = 3 \/ Has(toclient, End(d)) \/ Has(rbuf, End(d))
                          => executed[d] = 1
    BY DEF IInv, Placed, PlacedAt
  <2> QED
    BY <1>0, <2>1, <2>2, <2>3, Quiet
<1>2. CASE dead = "no"
  <2> DEFINE n == Len(wbuf)
  <2>1. /\ call' = [call EXCEPT ![c] = "waiting"] /\ status' = [status EXCEPT ![c] = 1]
        /\ wbuf' = wbuf \o Line(c) /\ tosend' = tosend \cup {c}
        /\ ebyte' = [ebyte EXCEPT ![c] = n + 2]
    BY <1>2 DEF Call
  <2>2. wbuf \in Seq(Unit) /\ n \in Nat
    BY DEF IInv, TypeOK
  <2>3. /\ Len(wbuf') = n + 2 /\ wbuf'[n + 1] = [of |-> c, tail |-> FALSE] /\ wbuf'[n + 2] = End(c)
        /\ \A i \in 1 .. n : wbuf'[i] = wbuf[i]
    <3>1. /\ Len(wbuf') = n + 2
          /\ \A i \in 1 .. n + 2 : wbuf'[i] = IF i <= n THEN wbuf[i] ELSE Line(c)[i - n]
      <4>1. Line(c) \in Seq(Unit) /\ Len(Line(c)) = 2
        BY LineType
      <4>2. /\ Len(wbuf \o Line(c)) = n + 2
            /\ \A i \in 1 .. n + 2 :
                 (wbuf \o Line(c))[i] = IF i <= n THEN wbuf[i] ELSE Line(c)[i - n]
        <5>1. /\ Len(wbuf \o Line(c)) = Len(wbuf) + Len(Line(c))
              /\ \A i \in 1 .. Len(wbuf) + Len(Line(c)) : (wbuf \o Line(c))[i] =
                   IF i <= Len(wbuf) THEN wbuf[i] ELSE Line(c)[i - Len(wbuf)]
          BY <2>2, <4>1, ConcatProperties
        <5> QED
          BY <5>1, <4>1
      <4> QED
        BY <4>2, <2>1
    <3>2. n + 1 - n = 1 /\ n + 2 - n = 2
      BY <2>2
    <3>3. n + 1 \in 1 .. n + 2 /\ ~(n + 1 <= n) /\ n + 2 \in 1 .. n + 2 /\ ~(n + 2 <= n)
      BY <2>2
    <3>4. wbuf'[n + 1] = Line(c)[1] /\ wbuf'[n + 2] = Line(c)[2]
      BY <3>1, <3>2, <3>3
    <3>5. \A i \in 1 .. n : wbuf'[i] = wbuf[i]
      BY <3>1, <2>2
    <3> QED
      BY <3>1, <3>4, <3>5, LineType
  <2>4. call[c] = "idle"
    BY DEF Call
  <2>5. ~Has(wbuf, End(c)) /\ ~Has(toserver, End(c)) /\ executed[c] = 0
    BY <2>4 DEF IInv, Placed, PlacedAt
  <2> HIDE DEF n
  <2>6. OffsetsExact'
    <3> SUFFICES ASSUME NEW d \in tosend'
                 PROVE  ebyte'[d] \in 1 .. Len(wbuf') /\ wbuf'[ebyte'[d]] = End(d)
      BY DEF OffsetsExact, End
    <3>1. CASE d = c
      <4>1. ebyte'[d] = n + 2
        BY <2>1, <3>1 DEF IInv, TypeOK
      <4> QED
        BY <4>1, <2>2, <2>3, <3>1
    <3>2. CASE d # c
      <4>1. d \in tosend /\ ebyte'[d] = ebyte[d]
        BY <2>1, <3>2 DEF IInv, TypeOK
      <4>2. ebyte[d] \in 1 .. n /\ wbuf[ebyte[d]] = End(d)
        BY <4>1 DEF IInv, Placed, OffsetsExact, End, n
      <4> QED
        BY <4>1, <4>2, <2>2, <2>3
    <3> QED
      BY <3>1, <3>2
  <2>7. HeadsFollowed'
    <3> SUFFICES ASSUME NEW i \in 1 .. n + 2, ~wbuf'[i].tail
                 PROVE  i < n + 2 /\ wbuf'[i + 1] = End(wbuf'[i].of)
      BY <2>3 DEF HeadsFollowed
    <3>1. CASE i \in 1 .. n
      <4>1. i < n /\ wbuf[i + 1] = End(wbuf[i].of)
        BY <3>1, <2>3 DEF IInv, Placed, HeadsFollowed, n
      <4>2. i + 1 \in 1 .. n
        BY <4>1, <3>1, <2>2
      <4> QED
        BY <4>1, <4>2, <3>1, <2>2, <2>3
    <3>2. CASE i = n + 1
      <4>1. i + 1 = n + 2 /\ i < n + 2
        BY <3>2, <2>2
      <4> QED
        BY <4>1, <3>2, <2>3
    <3>3. CASE i = n + 2
      BY <3>3, <2>3 DEF End
    <3> QED
      BY <3>1, <3>2, <3>3, <2>2
  <2>8. EndsOnce(wbuf)'
    <3>1. EndsOnce(Line(c))
      <4>1. \A i \in 1 .. 2 : Line(c)[i].tail => i = 2
        <5>1. \A i \in 1 .. 2 : i = 1 \/ i = 2
          OBVIOUS
        <5>2. ~[of |-> c, tail |-> FALSE].tail
          OBVIOUS
        <5>3. ~Line(c)[1].tail
          BY <5>2, LineType
        <5> QED
          BY <5>1, <5>3
      <4>2. ASSUME NEW i \in 1 .. Len(Line(c)), NEW j \in 1 .. Len(Line(c)),
                   Line(c)[i].tail, Line(c)[i] = Line(c)[j]
            PROVE  i = j
        <5>1. i \in 1 .. 2 /\ j \in 1 .. 2 /\ Line(c)[j].tail
          BY <4>2, LineType
        <5> QED
          BY <4>1, <4>2, <5>1
      <4> QED
        BY <4>2 DEF EndsOnce
    <3>2. \A d \in Cmds : ~(Has(wbuf, End(d)) /\ Has(Line(c), End(d)))
      BY <2>5, LineHas
    <3>3. EndsOnce(wbuf)
      BY DEF IInv, Placed
    <3>4. EndsOnce(wbuf \o Line(c))
      BY <3>1, <3>2, <3>3, <2>2, LineType, ConcatEndsOnce
    <3> QED
      BY <3>4, <2>1
  <2>9. EndsOnce(toserver)'
    BY <1>0 DEF IInv, Placed, EndsOnce
  <2>10. ASSUME NEW d \in Cmds PROVE PlacedAt(d)'
    <3>1. PlacedAt(d)
      BY DEF IInv, Placed
    <3>2. Has(wbuf', End(d)) => Has(wbuf, End(d)) \/ d = c
      BY <2>1, <2>2, LineType, LineHas, ConcatHas
    <3>3. CASE d = c
      <4>1. call'[c] = "waiting" /\ status'[c] = 1
        BY <2>1 DEF IInv, TypeOK
      <4> QED
        BY <1>0, <2>5, <3>1, <3>3, <4>1 DEF PlacedAt
    <3>4. CASE d # c
      <4>1. call'[d] = call[d] /\ status'[d] = status[d]
        BY <2>1, <3>4 DEF IInv, TypeOK
      <4> QED
        BY <1>0, <3>1, <3>2, <3>4, <4>1 DEF PlacedAt
    <3> QED
      BY <3>3, <3>4
  <2> QED
    BY <2>6, <2>7, <2>8, <2>9, <2>10 DEF Placed
<1> QED
  BY <1>1, <1>2

\* What Placed says of the answers on their way.
LEMMA AnswersExecuted ==
    ASSUME IInv, NEW c \in Cmds,
           c \in owed \/ status[c] = 3 \/ Has(toclient, End(c)) \/ Has(rbuf, End(c))
    PROVE  executed[c] = 1
BY DEF IInv, Placed, PlacedAt

LEMMA CallerPlaced ==
    ASSUME IInv, NEW c \in Cmds, TimePasses(c) \/ Poll(c) PROVE Placed'
<1>1. UNCHANGED <<wbuf, tosend, ebyte, executed, toserver, toclient, owed, rbuf>>
  BY DEF TimePasses, Poll, track, conns
<1>2. /\ status' = status \/ status' = [status EXCEPT ![c] = 4]
      /\ \/ call' = call
         \/ call' = [call EXCEPT ![c] = "answered"]
         \/ call' = [call EXCEPT ![c] = "failed"]
  BY DEF TimePasses, Poll, track
<1>3. ASSUME NEW d \in Cmds
      PROVE  /\ status'[d] = status[d] \/ status'[d] = 4
             /\ call'[d] = call[d] \/ call'[d] = "answered" \/ call'[d] = "failed"
  <2>1. status'[d] = status[d] \/ status'[d] = 4
    BY <1>2 DEF IInv, TypeOK
  <2>2. call'[d] = call[d] \/ call'[d] = "answered" \/ call'[d] = "failed"
    BY <1>2 DEF IInv, TypeOK
  <2> QED
    BY <2>1, <2>2
<1>4. ASSUME NEW d \in Cmds
      PROVE  /\ call'[d] = "idle" => call[d] = "idle"
             /\ status'[d] = 2 => status[d] = 2
             /\ status'[d] = 3 => status[d] = 3
  BY <1>3
<1>5. \A d \in Cmds :
        (d \in owed' \/ status'[d] = 3 \/ Has(toclient', End(d)) \/ Has(rbuf', End(d)))
          => executed[d] = 1
  BY <1>1, <1>4, AnswersExecuted
<1> QED
  BY <1>1, <1>4, <1>5, Quiet

\* Marking the calls that wait moves nothing.
LEMMA MarkedAt ==
    ASSUME NEW c \in Cmds
    PROVE  MarkedFailed[c] = 4 \/ MarkedFailed[c] = status[c]
BY DEF MarkedFailed

\* Steps of the loop, of the server and of the network that leave the write
\* buffer alone.
LEMMA StopPlaced ==
    ASSUME IInv, Stop \/ ConnectSucceeds PROVE Placed'
<1>1. UNCHANGED <<call, wbuf, tosend, ebyte, executed, toserver, toclient, owed, rbuf>>
  BY DEF Stop, ConnectSucceeds, caller, conns
<1>2. status' = MarkedFailed
  BY DEF Stop, ConnectSucceeds
<1>3. ASSUME NEW d \in Cmds
      PROVE  /\ call'[d] = "idle" => call[d] = "idle"
             /\ status'[d] = 2 => status[d] = 2
             /\ status'[d] = 3 => status[d] = 3
  BY <1>1, <1>2, MarkedAt
<1>4. \A d \in Cmds :
        (d \in owed' \/ status'[d] = 3 \/ Has(toclient', End(d)) \/ Has(rbuf', End(d)))
          => executed[d] = 1
  BY <1>1, <1>3, AnswersExecuted
<1> QED
  BY <1>1, <1>3, <1>4, Quiet

\* A line found in the read buffer ends there.
LEMMA LineRead ==
    ASSUME NEW s \in Seq(Unit), NEW c \in LinesOf(s) PROVE Has(s, End(c))
<1>1. PICK i \in Ends(s) \ {1} : SubSeq(s, i - 1, i) = Line(c)
  BY DEF LinesOf
<1>2. i \in 2 .. Len(s) /\ Len(s) \in Nat
  BY <1>1 DEF Ends
<1>3. SubSeq(s, i - 1, i)[2] = s[i]
  <2>1. i - 1 \in Int /\ i \in Int /\ 2 \in 1 .. i - (i - 1) + 1 /\ (i - 1) + 2 - 1 = i
    BY <1>2
  <2>2. \A j \in i - 1 .. i : s[j] \in Unit
    <3>1. \A j \in i - 1 .. i : j \in 1 .. Len(s)
      BY <1>2
    <3> QED
      BY <3>1
  <2>3. \A j \in 1 .. i - (i - 1) + 1 : SubSeq(s, i - 1, i)[j] = s[(i - 1) + j - 1]
    BY <2>1, <2>2, SubSeqProperties
  <2>4. SubSeq(s, i - 1, i)[2] = s[(i - 1) + 2 - 1]
    BY <2>1, <2>3
  <2> QED
    BY <2>1, <2>4
<1>4. s[i] = End(c) /\ i \in 1 .. Len(s)
  <2>1. c \in Cmds
    BY DEF LinesOf
  <2>2. Line(c)[2] = End(c)
    BY <2>1, LineType
  <2>3. i \in 1 .. Len(s)
    BY <1>2
  <2> QED
    BY <1>1, <1>3, <2>2, <2>3
<1> QED
  BY <1>4 DEF Has

LEMMA LoopPlaced ==
    ASSUME IInv, LoopStarts PROVE Placed'
<1>1. UNCHANGED <<call, wbuf, tosend, ebyte, executed>>
  BY DEF LoopStarts, caller
<1>2. CASE is_exit
  <2>1. toserver' = <<>> /\ toclient' = <<>> /\ owed' = {} /\ UNCHANGED <<rbuf, status>>
    BY <1>2 DEF LoopStarts, Closed
  <2>2. \A d \in Cmds :
          (d \in owed' \/ status'[d] = 3 \/ Has(toclient', End(d)) \/ Has(rbuf', End(d)))
            => executed[d] = 1
    BY <2>1, AnswersExecuted, EmptyHas
  <2> QED
    BY <1>1, <2>1, <2>2, Quiet
<1>3. CASE ~is_exit
  <2>1. UNCHANGED <<toserver, toclient, owed>>
    BY <1>3 DEF LoopStarts
  <2>2. PICK n \in 0 .. Len(rbuf) : rbuf' = Drop(rbuf, n)
    BY <1>3 DEF LoopStarts
  <2>3. rbuf \in Seq(Unit)
    BY DEF IInv, TypeOK
  <2>4. ASSUME NEW d \in Cmds
        PROVE  status'[d] = status[d] \/ (status'[d] = 3 /\ d \in LinesOf(rbuf))
    BY <1>3 DEF LoopStarts
  <2>5. ASSUME NEW d \in Cmds
        PROVE  (d \in owed' \/ status'[d] = 3 \/ Has(toclient', End(d)) \/ Has(rbuf', End(d)))
                 => executed[d] = 1
    <3>1. Has(rbuf', End(d)) => Has(rbuf, End(d))
      BY <2>2, <2>3, DropHas
    <3>2. status'[d] = 3 => status[d] = 3 \/ Has(rbuf, End(d))
      BY <2>3, <2>4, LineRead
    <3> QED
      BY <2>1, <3>1, <3>2, AnswersExecuted
  <2>6. \A d \in Cmds : status'[d] = 2 => status[d] = 2
    BY <2>4
  <2> QED
    BY <1>1, <2>1, <2>5, <2>6, Quiet
<1> QED
  BY <1>2, <1>3

LEMMA IdlePlaced ==
    ASSUME IInv, CheckConnected \/ ConnectFails \/ DeadExpires PROVE Placed'
<1>1. UNCHANGED <<call, status, wbuf, tosend, ebyte, executed, toserver, toclient, owed, rbuf>>
  BY DEF CheckConnected, ConnectFails, DeadExpires, caller, track, conns
<1>2. \A d \in Cmds :
        (d \in owed' \/ status'[d] = 3 \/ Has(toclient', End(d)) \/ Has(rbuf', End(d)))
          => executed[d] = 1
  BY <1>1, AnswersExecuted
<1> QED
  BY <1>1, <1>2, Quiet

LEMMA AnswerPlaced ==
    ASSUME IInv, NEW c \in Cmds, ServerAnswers(c) PROVE Placed'
<1>1. UNCHANGED <<call, status, wbuf, tosend, ebyte, executed, toserver, rbuf>>
  BY DEF ServerAnswers, caller, track
<1>2. c \in owed /\ owed' \subseteq owed /\ toclient' = toclient \o Line(c)
  BY DEF ServerAnswers
<1>3. toclient \in Seq(Unit)
  BY DEF IInv, TypeOK
<1>4. ASSUME NEW d \in Cmds
      PROVE  (d \in owed' \/ status'[d] = 3 \/ Has(toclient', End(d)) \/ Has(rbuf', End(d)))
               => executed[d] = 1
  <2>1. Has(toclient', End(d)) => Has(toclient, End(d)) \/ d = c
    BY <1>2, <1>3, LineType, LineHas, ConcatHas
  <2> QED
    BY <1>1, <1>2, <2>1, AnswersExecuted
<1> QED
  BY <1>1, <1>4, Quiet

LEMMA BreakPlaced ==
    ASSUME IInv, Break PROVE Placed'
<1>1. UNCHANGED <<call, status, wbuf, tosend, ebyte, executed, rbuf>>
  BY DEF Break, caller, track
<1>2. toserver' = <<>> /\ owed' = {}
  BY DEF Break
<1>3. PICK n \in 0 .. Len(toclient) : toclient' = Keep(toclient, n)
  BY DEF Break
<1>4. toclient \in Seq(Unit)
  BY DEF IInv, TypeOK
<1>5. ASSUME NEW d \in Cmds
      PROVE  (d \in owed' \/ status'[d] = 3 \/ Has(toclient', End(d)) \/ Has(rbuf', End(d)))
               => executed[d] = 1
  <2>1. Has(toclient', End(d)) => Has(toclient, End(d))
    BY <1>3, <1>4, KeepHas
  <2> QED
    BY <1>1, <1>2, <2>1, AnswersExecuted
<1> QED
  BY <1>1, <1>2, <1>5, Quiet

-----------------------------------------------------------------------------
(* The steps that move commands on                                         *)

LEMMA ReadsPlaced ==
    ASSUME IInv, ServerReads PROVE Placed'
<1>1. PICK i \in Ends(toserver) :
        /\ toserver' = Drop(toserver, i)
        /\ \E S \in {{c \in Cmds : Keep(toserver, i) = Line(c)}} :
             /\ executed' = [c \in Cmds |-> IF c \in S THEN executed[c] + 1 ELSE executed[c]]
             /\ owed' = owed \cup S
  BY DEF ServerReads
<1>2. UNCHANGED <<call, status, tosend, ebyte, toclient, wbuf, rbuf>>
  BY DEF ServerReads, caller, track
<1> DEFINE S == {c \in Cmds : Keep(toserver, i) = Line(c)}
<1>3. /\ executed' = [c \in Cmds |-> IF c \in S THEN executed[c] + 1 ELSE executed[c]]
      /\ owed' = owed \cup S
  BY <1>1
<1>4. toserver \in Seq(Unit) /\ i \in 0 .. Len(toserver) /\ EndsOnce(toserver)
  BY DEF IInv, TypeOK, Placed, Ends
<1>5. ASSUME NEW c \in S PROVE Has(Keep(toserver, i), End(c))
  <2>1. Keep(toserver, i) = Line(c)
    OBVIOUS
  <2>2. c \in Cmds
    OBVIOUS
  <2> QED
    BY <2>1, <2>2, LineEnds
<1>6. OffsetsExact' /\ HeadsFollowed' /\ EndsOnce(wbuf)'
  BY <1>2 DEF IInv, Placed, OffsetsExact, HeadsFollowed, EndsOnce
<1>7. EndsOnce(toserver)'
  BY <1>1, <1>4, PartEndsOnce
<1> HIDE DEF S
<1>8. ASSUME NEW c \in Cmds PROVE PlacedAt(c)'
  <2>1. PlacedAt(c)
    BY DEF IInv, Placed
  <2>2. Has(toserver', End(c)) => Has(toserver, End(c))
    BY <1>1, <1>4, DropHas
  <2>3. CASE c \in S
    <3>1. Has(Keep(toserver, i), End(c))
      BY <1>5, <2>3
    <3>2. Has(toserver, End(c))
      BY <1>4, <3>1, KeepHas
    <3>3. ~Has(toserver', End(c))
      BY <1>1, <1>4, <3>1, PartEndsOnce
    <3>4. executed[c] = 0 /\ ~Has(wbuf, End(c)) /\ call[c] # "idle"
      BY <2>1, <3>2 DEF PlacedAt
    <3>5. executed'[c] = 1
      BY <1>3, <2>3, <3>4
    <3> QED
      BY <1>2, <2>1, <3>3, <3>4, <3>5 DEF PlacedAt
  <2>4. CASE c \notin S
    <3>1. executed'[c] = executed[c] /\ (c \in owed' <=> c \in owed)
      BY <1>3, <2>4
    <3> QED
      BY <1>2, <2>1, <2>2, <3>1 DEF PlacedAt
  <2> QED
    BY <2>3, <2>4
<1> QED
  BY <1>6, <1>7, <1>8 DEF Placed

\* What TestSent does to the commands still to be sent, and what the loop does
\* when the socket is not writable, in one formula.
LEMMA SentEffect ==
    ASSUME IInv, NEW fr \in BOOLEAN, NEW fw \in BOOLEAN, NEW got \in 0 .. Len(toclient),
           NEW count \in 0 .. Len(wbuf), ReadWrite(fr, fw, got, count), NEW c \in Cmds
    PROVE  /\ c \in tosend' => c \in tosend /\ ebyte[c] > count /\ ebyte'[c] = ebyte[c] - count
           /\ status'[c] = 2 => status[c] = 2 \/ (c \in tosend /\ ebyte[c] <= count)
           /\ status'[c] = 3 => status[c] = 3
<1>0. count \in Nat /\ ebyte[c] \in Nat
  BY DEF IInv, TypeOK
<1>1. CASE fw
  <2>1. TestSent(count)
    BY <1>1 DEF ReadWrite
  <2> DEFINE sent == {d \in tosend : ebyte[d] <= count}
  <2>2. /\ status'[c] = IF c \in sent THEN 2 ELSE status[c]
        /\ ebyte'[c] = IF c \in tosend \ sent THEN ebyte[c] - count ELSE ebyte[c]
        /\ c \in tosend' => c \in tosend \ sent
    BY <2>1 DEF TestSent
  <2>3. c \in sent <=> c \in tosend /\ ebyte[c] <= count
    OBVIOUS
  <2> HIDE DEF sent
  <2> QED
    BY <1>0, <2>2, <2>3
<1>2. CASE ~fw
  <2>1. count = 0 /\ UNCHANGED <<status, tosend, ebyte>>
    BY <1>0, <1>2 DEF ReadWrite, track
  <2>2. c \in tosend => ebyte[c] > 0
    <3>1. c \in tosend => ebyte[c] \in 1 .. Len(wbuf)
      BY DEF IInv, Placed, OffsetsExact
    <3>2. Len(wbuf) \in Nat
      BY DEF IInv, TypeOK
    <3> QED
      BY <1>0, <3>1, <3>2
  <2> QED
    BY <1>0, <2>1, <2>2
<1> QED
  BY <1>1, <1>2

LEMMA ReadWritePlaced ==
    ASSUME IInv, NEW fr \in BOOLEAN, NEW fw \in BOOLEAN, NEW got \in 0 .. Len(toclient),
           NEW count \in 0 .. Len(wbuf), ReadWrite(fr, fw, got, count)
    PROVE  Placed'
<1> DEFINE n == Len(wbuf)
<1>1. /\ wbuf \in Seq(Unit) /\ rbuf \in Seq(Unit) /\ toserver \in Seq(Unit)
      /\ toclient \in Seq(Unit) /\ count \in Nat /\ n \in Nat /\ count <= n
      /\ tosend \subseteq Cmds
  BY DEF IInv, TypeOK
<1>2. wbuf' = Drop(wbuf, count)
  BY DEF ReadWrite, Unsent
<1>3. /\ Len(wbuf') = n - count
      /\ \A i \in 1 .. n - count : count + i \in 1 .. n /\ wbuf'[i] = wbuf[count + i]
  BY <1>1, <1>2, DropIs
<1>4. UNCHANGED <<call, executed>>
  BY DEF ReadWrite, caller
<1>5. EndsOnce(wbuf) /\ EndsOnce(toserver)
  BY DEF IInv, Placed
<1>6. /\ EndsOnce(Drop(wbuf, count)) /\ EndsOnce(Keep(wbuf, count))
      /\ \A c \in Cmds : ~(Has(Keep(wbuf, count), End(c)) /\ Has(Drop(wbuf, count), End(c)))
  BY <1>1, <1>5, PartEndsOnce
<1>7. Keep(wbuf, count) \in Seq(Unit)
  BY <1>1, KeepIs
<1> HIDE DEF n
<1>8. OffsetsExact'
  <2> SUFFICES ASSUME NEW c \in tosend'
               PROVE  ebyte'[c] \in 1 .. Len(wbuf') /\ wbuf'[ebyte'[c]] = End(c)
    BY DEF OffsetsExact, End
  <2>0. c \in Cmds
    BY ReadWriteType DEF IInv, TypeOK
  <2>1. c \in tosend /\ ebyte[c] > count /\ ebyte'[c] = ebyte[c] - count
    BY <2>0, SentEffect
  <2>2. ebyte[c] \in 1 .. n /\ wbuf[ebyte[c]] = End(c)
    BY <2>1 DEF IInv, Placed, OffsetsExact, End, n
  <2>3. ebyte'[c] \in 1 .. n - count /\ count + ebyte'[c] = ebyte[c]
    BY <1>1, <2>1, <2>2
  <2> QED
    BY <1>3, <2>2, <2>3
<1>9. HeadsFollowed'
  <2> SUFFICES ASSUME NEW i \in 1 .. n - count, ~wbuf'[i].tail
               PROVE  i < n - count /\ wbuf'[i + 1] = End(wbuf'[i].of)
    BY <1>3 DEF HeadsFollowed
  <2>1. count + i \in 1 .. n /\ wbuf'[i] = wbuf[count + i]
    BY <1>3
  <2>2. count + i < n /\ wbuf[count + i + 1] = End(wbuf[count + i].of)
    BY <2>1 DEF IInv, Placed, HeadsFollowed, n
  <2>3. i < n - count /\ i + 1 \in 1 .. n - count /\ count + (i + 1) = count + i + 1
    BY <1>1, <2>2
  <2>4. wbuf'[i + 1] = wbuf[count + (i + 1)]
    BY <1>3, <2>3
  <2> QED
    BY <2>1, <2>2, <2>3, <2>4
<1>10. EndsOnce(wbuf)'
  BY <1>2, <1>6
<1>11. toserver' = <<>> \/ toserver' = toserver \o Keep(wbuf, count)
  BY DEF ReadWrite, Closed
<1>12. EndsOnce(toserver)'
  <2>1. \A c \in Cmds : Has(wbuf, End(c)) => ~Has(toserver, End(c))
    BY DEF IInv, Placed, PlacedAt
  <2>2. \A c \in Cmds : ~(Has(toserver, End(c)) /\ Has(Keep(wbuf, count), End(c)))
    BY <1>1, <2>1, KeepHas
  <2>3. EndsOnce(toserver \o Keep(wbuf, count))
    BY <1>1, <1>5, <1>6, <1>7, <2>2, ConcatEndsOnce
  <2> QED
    BY <1>11, <2>3, EmptyHas
<1>13. ASSUME NEW c \in Cmds PROVE PlacedAt(c)'
  <2>1. PlacedAt(c)
    BY DEF IInv, Placed
  <2>2. Has(wbuf', End(c)) => Has(wbuf, End(c)) /\ ~Has(Keep(wbuf, count), End(c))
    BY <1>1, <1>2, <1>6, DropHas
  <2>3. Has(Keep(wbuf, count), End(c)) => Has(wbuf, End(c))
    BY <1>1, KeepHas
  <2>4. Has(toserver', End(c)) => Has(toserver, End(c)) \/ Has(Keep(wbuf, count), End(c))
    <3>1. CASE toserver' = <<>>
      BY <3>1, EmptyHas
    <3>2. CASE toserver' = toserver \o Keep(wbuf, count)
      BY <1>1, <1>7, <3>2, ConcatHas
    <3> QED
      BY <1>11, <3>1, <3>2
  <2>5. c \in owed' => c \in owed
    BY DEF ReadWrite, Closed
  <2>6. Has(toclient', End(c)) => Has(toclient, End(c))
    <3>1. toclient' = <<>> \/ toclient' = Drop(toclient, got)
      BY DEF ReadWrite, Closed
    <3> QED
      BY <1>1, <3>1, DropHas, EmptyHas
  <2>7. Has(rbuf', End(c)) => Has(rbuf, End(c)) \/ Has(toclient, End(c))
    <3>1. rbuf' = rbuf \o Keep(toclient, got) /\ Keep(toclient, got) \in Seq(Unit)
      BY <1>1, KeepIs DEF ReadWrite
    <3>2. Has(rbuf', End(c)) => Has(rbuf, End(c)) \/ Has(Keep(toclient, got), End(c))
      BY <1>1, <3>1, ConcatHas
    <3> QED
      BY <1>1, <3>2, KeepHas
  <2>8. status'[c] = 2 => ~Has(wbuf', End(c))
    <3>1. ASSUME c \in tosend, ebyte[c] <= count PROVE Has(Keep(wbuf, count), End(c))
      <4>1. ebyte[c] \in 1 .. count /\ wbuf[ebyte[c]] = End(c)
        BY <1>1, <3>1 DEF IInv, Placed, OffsetsExact, End, n
      <4>2. Len(Keep(wbuf, count)) = count /\ Keep(wbuf, count)[ebyte[c]] = wbuf[ebyte[c]]
        BY <1>1, <4>1, KeepIs
      <4> QED
        BY <4>1, <4>2 DEF Has
    <3>2. status'[c] = 2 => status[c] = 2 \/ (c \in tosend /\ ebyte[c] <= count)
      BY SentEffect
    <3>3. status[c] = 2 => ~Has(wbuf, End(c))
      BY <2>1 DEF PlacedAt
    <3> QED
      BY <2>2, <3>1, <3>2, <3>3
  <2>9. status'[c] = 3 => status[c] = 3
    BY SentEffect
  <2> QED
    BY <1>4, <2>1, <2>2, <2>3, <2>4, <2>5, <2>6, <2>7, <2>8, <2>9 DEF PlacedAt
<1> QED
  BY <1>8, <1>9, <1>10, <1>12, <1>13 DEF Placed

\* Every step keeps the invariant.
LEMMA IInvStep == IInv /\ [Next]_vars => IInv'
<1> SUFFICES ASSUME IInv, [Next]_vars PROVE IInv'
  OBVIOUS
<1>0. TypeOK'
  BY TypeStep DEF IInv
<1> SUFFICES Placed'
  BY <1>0 DEF IInv
<1>1. ASSUME NEW c \in Cmds, Call(c) PROVE Placed'
  BY <1>1, CallPlaced
<1>2. ASSUME NEW c \in Cmds, TimePasses(c) \/ Poll(c) PROVE Placed'
  BY <1>2, CallerPlaced
<1>3. CASE Stop \/ ConnectSucceeds
  BY <1>3, StopPlaced
<1>4. CASE LoopStarts
  BY <1>4, LoopPlaced
<1>5. CASE CheckConnected \/ ConnectFails \/ DeadExpires
  BY <1>5, IdlePlaced
<1>6. ASSUME NEW fr \in BOOLEAN, NEW fw \in BOOLEAN, NEW got \in 0 .. Len(toclient),
             NEW count \in 0 .. Len(wbuf), ReadWrite(fr, fw, got, count)
      PROVE  Placed'
  BY <1>6, ReadWritePlaced
<1>7. CASE Server \/ Break
  BY <1>7, ReadsPlaced, AnswerPlaced, BreakPlaced DEF Server
<1>8. CASE UNCHANGED vars
  <2>1. UNCHANGED <<call, status, wbuf, tosend, ebyte, executed, toserver, toclient, owed, rbuf>>
    BY <1>8 DEF vars, caller, track, conns
  <2>2. \A d \in Cmds :
          (d \in owed' \/ status'[d] = 3 \/ Has(toclient', End(d)) \/ Has(rbuf', End(d)))
            => executed[d] = 1
    BY <2>1, AnswersExecuted
  <2> QED
    BY <2>1, <2>2, Quiet
<1> QED
  BY <1>1, <1>2, <1>3, <1>4, <1>5, <1>6, <1>7, <1>8 DEF Next, Connector

\* The inductive invariant holds: the End of a command is in the write buffer, on
\* its way or executed, never in two of these places.
THEOREM Invariant == Spec => []IInv
<1>1. Init => IInv
  BY InitType, InitPlaced DEF IInv
<1> QED
  BY <1>1, IInvStep, PTL DEF Spec

\* The offsets kept beside buffer_write point at the end of their own command,
\* however writes cut it and calls append to it.
THEOREM OffsetsAreExact == Spec => []OffsetsExact
<1>1. IInv => OffsetsExact
  BY DEF IInv, Placed
<1> QED
  BY <1>1, Invariant, PTL

\* No unit of a command that is said to be sent or answered is still to be sent.
THEOREM SentLeft == Spec => []SentIsOut
<1>1. IInv => SentIsOut
  <2> SUFFICES ASSUME IInv, NEW c \in Cmds, status[c] \in {2, 3}, NEW i \in 1 .. Len(wbuf),
                      wbuf[i].of = c
               PROVE  FALSE
    BY DEF SentIsOut
  <2>1. ~Has(wbuf, End(c))
    BY AnswersExecuted DEF IInv, Placed, PlacedAt
  <2>2. wbuf \in Seq(Unit) /\ wbuf[i] \in Unit
    BY DEF IInv, TypeOK
  <2>3. CASE wbuf[i].tail
    <3>1. wbuf[i] = End(c)
      BY <2>2, <2>3 DEF Unit, End
    <3> QED
      BY <2>1, <3>1 DEF Has
  <2>4. CASE ~wbuf[i].tail
    <3>1. i < Len(wbuf) /\ wbuf[i + 1] = End(c)
      BY <2>4 DEF IInv, Placed, HeadsFollowed
    <3>2. i + 1 \in 1 .. Len(wbuf)
      BY <2>2, <3>1
    <3> QED
      BY <2>1, <3>1, <3>2 DEF Has
  <2> QED
    BY <2>3, <2>4
<1> QED
  BY <1>1, Invariant, PTL

-----------------------------------------------------------------------------
(* The refinement of Rpc                                                   *)

LEMMA InitPromise == ASSUME Init PROVE Promise!Init
BY DEF Init, Promise!Init

LEMMA CallAsks == ASSUME NEW c \in Cmds, Call(c) PROVE Promise!Ask(c)
<1>1. call[c] = "idle" /\ UNCHANGED executed
  BY DEF Call
<1>2. call' = [call EXCEPT ![c] = "waiting"] \/ call' = [call EXCEPT ![c] = "failed"]
  BY DEF Call
<1> QED
  BY <1>1, <1>2 DEF Promise!Ask, Promise!Become

LEMMA PollEnds ==
    ASSUME IInv, NEW c \in Cmds, Poll(c) PROVE Promise!Answer(c) \/ Promise!Fail(c)
<1>1. call[c] = "waiting" /\ UNCHANGED executed
  BY DEF Poll
<1>2. CASE status[c] = 3 /\ call' = [call EXCEPT ![c] = "answered"]
  <2>1. executed[c] = 1
    BY <1>2, AnswersExecuted
  <2> QED
    BY <1>1, <1>2, <2>1 DEF Promise!Answer, Promise!Become
<1>3. CASE call' = [call EXCEPT ![c] = "failed"]
  BY <1>1, <1>3 DEF Promise!Fail, Promise!Become
<1> QED
  BY <1>2, <1>3 DEF Poll

\* The server executes at most the one command it has read whole.
LEMMA ReadsExecute ==
    ASSUME IInv, ServerReads
    PROVE  (\E c \in Cmds : Promise!Execute(c)) \/ UNCHANGED <<call, executed>>
<1>1. PICK i \in Ends(toserver) :
        \E S \in {{c \in Cmds : Keep(toserver, i) = Line(c)}} :
          executed' = [c \in Cmds |-> IF c \in S THEN executed[c] + 1 ELSE executed[c]]
  BY DEF ServerReads
<1> DEFINE S == {c \in Cmds : Keep(toserver, i) = Line(c)}
<1>2. executed' = [c \in Cmds |-> IF c \in S THEN executed[c] + 1 ELSE executed[c]]
  BY <1>1
<1>3. call' = call
  BY DEF ServerReads, caller
<1>4. executed \in [Cmds -> Nat] /\ toserver \in Seq(Unit) /\ i \in 0 .. Len(toserver)
  BY DEF IInv, TypeOK, Ends
<1>5. CASE S = {}
  <2>1. executed' = executed
    BY <1>2, <1>4, <1>5
  <2> QED
    BY <1>3, <2>1
<1>6. CASE S # {}
  <2>1. PICK c \in Cmds : Keep(toserver, i) = Line(c)
    BY <1>6
  <2>2. Has(Line(c), End(c))
    BY LineEnds
  <2>3. Has(toserver, End(c))
    BY <1>4, <2>1, <2>2, KeepHas
  <2>4. call[c] # "idle" /\ executed[c] = 0
    BY <2>3 DEF IInv, Placed, PlacedAt
  <2>5. ASSUME NEW d \in S PROVE d = c
    <3>1. Has(Line(d), End(c)) /\ d \in Cmds
      BY <2>1, <2>2
    <3> QED
      BY <3>1, LineHas
  <2>6. c \in S
    BY <2>1
  <2> HIDE DEF S
  <2>7. executed' = [executed EXCEPT ![c] = 1]
    <3>1. ASSUME NEW d \in Cmds
          PROVE  (IF d \in S THEN executed[d] + 1 ELSE executed[d])
                   = IF d = c THEN 1 ELSE executed[d]
      BY <2>4, <2>5, <2>6
    <3> QED
      BY <1>2, <1>4, <3>1
  <2> QED
    BY <1>3, <2>4, <2>7 DEF Promise!Execute
<1> QED
  BY <1>5, <1>6

LEMMA PromiseStep == IInv /\ [Next]_vars => [Promise!Next]_<<call, executed>>
<1> SUFFICES ASSUME IInv, [Next]_vars PROVE Promise!Next \/ UNCHANGED <<call, executed>>
  OBVIOUS
<1>1. ASSUME NEW c \in Cmds, Call(c) PROVE Promise!Next
  BY <1>1, CallAsks DEF Promise!Next
<1>2. ASSUME NEW c \in Cmds, Poll(c) PROVE Promise!Next
  BY <1>2, PollEnds DEF Promise!Next
<1>3. ASSUME NEW c \in Cmds, TimePasses(c) \/ ServerAnswers(c) PROVE UNCHANGED <<call, executed>>
  BY <1>3 DEF TimePasses, ServerAnswers, caller
<1>4. CASE Stop \/ LoopStarts \/ CheckConnected \/ ConnectSucceeds
  BY <1>4 DEF Stop, LoopStarts, CheckConnected, ConnectSucceeds, caller
<1>5. CASE ConnectFails \/ DeadExpires \/ Break
  BY <1>5 DEF ConnectFails, DeadExpires, Break, caller
<1>6. ASSUME NEW fr \in BOOLEAN, NEW fw \in BOOLEAN, NEW got \in 0 .. Len(toclient),
             NEW count \in 0 .. Len(wbuf), ReadWrite(fr, fw, got, count)
      PROVE  UNCHANGED <<call, executed>>
  BY <1>6 DEF ReadWrite, caller
<1>7. CASE ServerReads
  BY <1>7, ReadsExecute DEF Promise!Next
<1>8. CASE UNCHANGED vars
  BY <1>8 DEF vars, caller
<1> QED
  BY <1>1, <1>2, <1>3, <1>4, <1>5, <1>6, <1>7, <1>8 DEF Next, Connector, Server

\* The client keeps the promise of Rpc: each step of it is a step of Rpc, or one
\* the caller and the server's tally do not show.
THEOREM PromiseKept == Spec => KeepsPromise
BY InitPromise, PromiseStep, Invariant, PTL DEF Spec, KeepsPromise, Promise!Spec
=============================================================================
