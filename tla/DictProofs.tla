----------------------------- MODULE DictProofs -----------------------------
(***************************************************************************)
(* The hash table of hiredis is a map, for any keys, values and hashes:    *)
(* through every growth of the table, and through iterations that delete.  *)
(***************************************************************************)
EXTENDS Dict, FiniteSetTheorems, SequenceTheorems, WellFoundedInduction, TLAPS

Entry == [key : Keys, val : Values]
Tables == Seq(Seq(Entry))
-----------------------------------------------------------------------------
(* Chains and tables                                                       *)

LEMMA MinIn ==
    ASSUME NEW S, S \subseteq Nat, S # {}
    PROVE  Min(S) \in S /\ \A k \in S : Min(S) <= k
<1>1. PICK m \in S : \A k \in S : ~(<<k, m>> \in OpToRel(<, Nat))
  BY NatLessThanWellFounded, WFMin
<1>2. \A k \in S : m <= k
  <2> SUFFICES ASSUME NEW k \in S PROVE m <= k
    OBVIOUS
  <2>1. k \in Nat /\ m \in Nat
    OBVIOUS
  <2>2. ~(k < m)
    BY <1>1, <2>1 DEF OpToRel
  <2> QED
    BY <2>1, <2>2
<1> QED
  BY <1>2 DEF Min

\* What a chain h of table t must be: its entries hash to it, and have different keys.
TidyChain(t, h, c) ==
    \A k \in DOMAIN c : /\ Slot(t, c[k].key) = h
                        /\ \A l \in DOMAIN c : c[l].key = c[k].key => l = k
Tidy(t) == \A h \in DOMAIN t : TidyChain(t, h, t[h])

LEMMA SlotIn ==
    ASSUME NEW t \in Tables, t # <<>>, NEW key \in Keys
    PROVE  Slot(t, key) \in DOMAIN t
<1>1. Len(t) \in Nat \ {0} /\ DOMAIN t = 1 .. Len(t)
  BY DEF Tables
<1>2. Hash[key] \in Nat
  BY DictAssumption
<1> DEFINE n == Len(t)
           a == Hash[key]
<1> HIDE DEF n, a
<1>3. ASSUME n \in Nat \ {0}, a \in Nat PROVE a % n \in 0 .. n - 1
  BY <1>3
<1> QED
  BY <1>1, <1>2, <1>3 DEF Slot, n, a

LEMMA ChainRead ==
    ASSUME NEW t \in Tables, NEW h \in DOMAIN t
    PROVE  /\ t[h] \in Seq(Entry) /\ DOMAIN t[h] = 1 .. Len(t[h]) /\ Len(t[h]) \in Nat
           /\ \A k \in DOMAIN t[h] : t[h][k] \in Entry /\ t[h][k].key \in Keys /\ t[h][k].val \in Values
<1>1. t[h] \in Seq(Entry)
  BY DEF Tables
<1>2. \A k \in DOMAIN t[h] : t[h][k] \in Entry
  BY <1>1
<1> QED
  BY <1>1, <1>2 DEF Entry

LEMMA PositionAt ==
    ASSUME NEW c \in Seq(Entry), NEW key
    PROVE  /\ Position(c, key) \in Nat
           /\ Position(c, key) = 0 <=> \A k \in DOMAIN c : c[k].key # key
           /\ Position(c, key) # 0 => Position(c, key) \in DOMAIN c /\ c[Position(c, key)].key = key
<1> DEFINE S == {i \in 1 .. Len(c) : c[i].key = key}
<1>1. Position(c, key) = IF S # {} THEN Min(S) ELSE 0
  BY DEF Position, SelectInSeq
<1>2. S \subseteq Nat /\ S \subseteq DOMAIN c /\ 0 \notin S /\ DOMAIN c = 1 .. Len(c)
  OBVIOUS
<1>3. (\A i \in S : c[i].key = key) /\ (S = {} <=> \A k \in DOMAIN c : c[k].key # key)
  BY <1>2
<1> HIDE DEF S
<1>4. CASE S = {}
  BY <1>1, <1>3, <1>4
<1>5. CASE S # {}
  <2>1. Min(S) \in S
    BY <1>2, <1>5, MinIn
  <2> QED
    BY <1>1, <1>2, <1>3, <1>5, <2>1
<1> QED
  BY <1>4, <1>5

LEMMA InChainsIff ==
    ASSUME NEW t \in Tables, NEW e
    PROVE  e \in InChains(t) <=> \E h \in DOMAIN t : \E k \in DOMAIN t[h] : e = t[h][k]
<1>1. ToSet(t) = {t[h] : h \in DOMAIN t}
  BY DEF ToSet
<1>2. \A h \in DOMAIN t : ToSet(t[h]) = {t[h][k] : k \in DOMAIN t[h]}
  BY DEF ToSet
<1>3. e \in InChains(t) <=> \E h \in DOMAIN t : e \in ToSet(t[h])
  BY <1>1 DEF InChains
<1> QED
  BY <1>2, <1>3

LEMMA EntriesTyped ==
    ASSUME NEW t \in Tables
    PROVE  InChains(t) \subseteq Entry /\ KeysOf(InChains(t)) \subseteq Keys
<1>1. ASSUME NEW e \in InChains(t) PROVE e \in Entry /\ e.key \in Keys
  BY InChainsIff, ChainRead
<1> QED
  BY <1>1 DEF KeysOf

\* An entry is in the chain its key hashes to.
LEMMA InItsChain ==
    ASSUME NEW t \in Tables, Tidy(t), NEW e \in InChains(t)
    PROVE  /\ Slot(t, e.key) \in DOMAIN t
           /\ \E k \in DOMAIN t[Slot(t, e.key)] : e = t[Slot(t, e.key)][k]
<1>1. PICK h \in DOMAIN t : \E k \in DOMAIN t[h] : e = t[h][k]
  BY InChainsIff
<1>2. Slot(t, e.key) = h
  BY <1>1 DEF Tidy, TidyChain
<1> QED
  BY <1>1, <1>2

LEMMA OneEntry ==
    ASSUME NEW t \in Tables, Tidy(t), NEW e \in InChains(t), NEW f \in InChains(t), e.key = f.key
    PROVE  e = f
<1> DEFINE h == Slot(t, e.key)
<1>1. h \in DOMAIN t /\ (\E k \in DOMAIN t[h] : e = t[h][k]) /\ \E k \in DOMAIN t[h] : f = t[h][k]
  BY InItsChain
<1>2. TidyChain(t, h, t[h])
  BY <1>1 DEF Tidy
<1> HIDE DEF h
<1> QED
  BY <1>1, <1>2 DEF TidyChain

\* Looking a key up in its chain finds it if it is in the table at all.
LEMMA LookUp ==
    ASSUME NEW t \in Tables, Tidy(t), t # <<>>, NEW key \in Keys
    PROVE  LET h == Slot(t, key)
               k == Position(t[h], key)
           IN  /\ h \in DOMAIN t
               /\ k # 0 <=> key \in KeysOf(InChains(t))
               /\ k # 0 => k \in DOMAIN t[h] /\ t[h][k].key = key
<1> DEFINE h == Slot(t, key)
           k == Position(t[h], key)
<1>1. h \in DOMAIN t
  BY SlotIn
<1>2. t[h] \in Seq(Entry)
  BY <1>1, ChainRead
<1>3. (k = 0 <=> \A j \in DOMAIN t[h] : t[h][j].key # key) /\ (k # 0 => k \in DOMAIN t[h] /\ t[h][k].key = key)
  BY <1>2, PositionAt
<1>4. ASSUME key \in KeysOf(InChains(t)) PROVE k # 0
  <2>1. PICK e \in InChains(t) : e.key = key
    BY <1>4 DEF KeysOf
  <2>2. \E j \in DOMAIN t[h] : e = t[h][j]
    BY <2>1, InItsChain
  <2> HIDE DEF k
  <2> QED
    BY <1>3, <2>1, <2>2
<1>5. ASSUME k # 0 PROVE key \in KeysOf(InChains(t))
  <2>1. t[h][k] \in InChains(t) /\ t[h][k].key = key
    BY <1>1, <1>3, <1>5, InChainsIff
  <2> QED
    BY <2>1 DEF KeysOf
<1> QED
  BY <1>1, <1>3, <1>4, <1>5

\* A chain of a table may be exchanged for another that is tidy.
LEMMA ChainChanged ==
    ASSUME NEW t \in Tables, Tidy(t), NEW h \in DOMAIN t, NEW c \in Seq(Entry), TidyChain(t, h, c)
    PROVE  LET u == [t EXCEPT ![h] = c]
           IN  /\ u \in Tables /\ Tidy(u) /\ Len(u) = Len(t) /\ DOMAIN u = DOMAIN t /\ u # <<>>
               /\ u[h] = c /\ \A g \in DOMAIN t : g # h => u[g] = t[g]
               /\ InChains(u) = (InChains(t) \ ToSet(t[h])) \cup ToSet(c)
<1> DEFINE u == [t EXCEPT ![h] = c]
<1>1. u \in Tables /\ Len(u) = Len(t) /\ DOMAIN u = DOMAIN t /\ u # <<>>
  BY DEF Tables
<1>2. u[h] = c /\ \A g \in DOMAIN t : g # h => u[g] = t[g]
  BY DEF Tables
<1> HIDE DEF u
<1>3. ASSUME NEW g, NEW d, TidyChain(t, g, d) PROVE TidyChain(u, g, d)
  BY <1>1, <1>3 DEF TidyChain, Slot
<1>4. Tidy(u)
  BY <1>1, <1>2, <1>3 DEF Tidy
<1>5. ASSUME NEW e \in InChains(u) PROVE e \in (InChains(t) \ ToSet(t[h])) \cup ToSet(c)
  <2>1. PICK g \in DOMAIN u : \E k \in DOMAIN u[g] : e = u[g][k]
    BY <1>1, <1>5, InChainsIff
  <2>2. CASE g = h
    BY <1>2, <2>1, <2>2 DEF ToSet
  <2>3. CASE g # h
    <3>1. e \in InChains(t)
      BY <1>1, <1>2, <2>1, <2>3, InChainsIff
    <3>2. Slot(t, e.key) = g
      BY <1>1, <1>2, <2>1, <2>3 DEF Tidy, TidyChain
    <3>3. e \notin ToSet(t[h])
      BY <2>3, <3>2 DEF Tidy, TidyChain, ToSet
    <3> QED
      BY <3>1, <3>3
  <2> QED
    BY <2>2, <2>3
<1>6. ASSUME NEW e \in (InChains(t) \ ToSet(t[h])) \cup ToSet(c) PROVE e \in InChains(u)
  <2>1. CASE e \in ToSet(c)
    BY <1>1, <1>2, <2>1, InChainsIff DEF ToSet
  <2>2. CASE e \in InChains(t) \ ToSet(t[h])
    <3>1. PICK g \in DOMAIN t : \E k \in DOMAIN t[g] : e = t[g][k]
      BY <2>2, InChainsIff
    <3>2. g # h
      BY <2>2, <3>1 DEF ToSet
    <3> QED
      BY <1>1, <1>2, <3>1, <3>2, InChainsIff
  <2> QED
    BY <1>6, <2>1, <2>2
<1> QED
  BY <1>1, <1>2, <1>4, <1>5, <1>6 DEF u

\* An entry put at the head of its chain.
WithEntry(t, h, e) == [t EXCEPT ![h] = <<e>> \o @]

LEMMA EntryPut ==
    ASSUME NEW t \in Tables, Tidy(t), NEW h \in DOMAIN t,
           NEW e \in Entry, Slot(t, e.key) = h, e.key \notin KeysOf(InChains(t))
    PROVE  LET u == WithEntry(t, h, e)
           IN  /\ u \in Tables /\ Tidy(u) /\ u # <<>> /\ Len(u) = Len(t)
               /\ InChains(u) = InChains(t) \cup {e}
<1> DEFINE c == <<e>> \o t[h]
<1>1. h \in DOMAIN t /\ t[h] \in Seq(Entry)
  BY ChainRead
<1>2. c \in Seq(Entry) /\ DOMAIN c = 1 .. Len(t[h]) + 1 /\ c[1] = e /\ \A k \in DOMAIN t[h] : c[k + 1] = t[h][k]
  BY <1>1
<1>3. \A k \in DOMAIN c : k = 1 \/ (k - 1 \in DOMAIN t[h] /\ c[k] = t[h][k - 1])
  BY <1>1, <1>2
<1>4. \A k \in DOMAIN t[h] : t[h][k].key # e.key
  <2>1. \A k \in DOMAIN t[h] : t[h][k] \in InChains(t)
    BY <1>1, InChainsIff
  <2> QED
    BY <2>1 DEF KeysOf
<1>5. TidyChain(t, h, t[h])
  BY <1>1 DEF Tidy
<1> HIDE DEF c
<1>6. TidyChain(t, h, c)
  <2> SUFFICES ASSUME NEW k \in DOMAIN c
               PROVE  Slot(t, c[k].key) = h /\ \A l \in DOMAIN c : c[l].key = c[k].key => l = k
    BY DEF TidyChain
  <2>1. CASE k = 1
    BY <1>2, <1>3, <1>4, <2>1
  <2>2. CASE k # 1
    <3>1. k - 1 \in DOMAIN t[h] /\ c[k] = t[h][k - 1]
      BY <1>3, <2>2
    <3>2. Slot(t, c[k].key) = h
      BY <1>5, <3>1 DEF TidyChain
    <3>3. ASSUME NEW l \in DOMAIN c, c[l].key = c[k].key PROVE l = k
      <4>1. l # 1
        BY <1>2, <1>4, <3>1, <3>3
      <4>2. l - 1 \in DOMAIN t[h] /\ c[l] = t[h][l - 1]
        BY <1>3, <4>1
      <4>3. l - 1 = k - 1
        BY <1>5, <3>1, <3>3, <4>2 DEF TidyChain
      <4> QED
        BY <1>1, <1>2, <4>3
    <3> QED
      BY <3>2, <3>3
  <2> QED
    BY <2>1, <2>2
<1>7. ToSet(c) = ToSet(t[h]) \cup {e}
  <2>1. ASSUME NEW x \in ToSet(c) PROVE x \in ToSet(t[h]) \cup {e}
    BY <1>2, <1>3, <2>1 DEF ToSet
  <2>2. ASSUME NEW x \in ToSet(t[h]) \cup {e} PROVE x \in ToSet(c)
    <3>1. CASE x = e
      BY <1>1, <1>2, <3>1 DEF ToSet
    <3>2. ASSUME NEW k \in DOMAIN t[h], x = t[h][k] PROVE x \in ToSet(c)
      <4>1. k + 1 \in DOMAIN c
        BY <1>1, <1>2
      <4> QED
        BY <1>2, <3>2, <4>1 DEF ToSet
    <3> QED
      BY <2>2, <3>1, <3>2 DEF ToSet
  <2> QED
    BY <2>1, <2>2
<1>8. ToSet(t[h]) \subseteq InChains(t)
  BY <1>1, InChainsIff DEF ToSet
<1>9. LET u == [t EXCEPT ![h] = c]
      IN  /\ u \in Tables /\ Tidy(u) /\ Len(u) = Len(t) /\ u # <<>>
          /\ InChains(u) = (InChains(t) \ ToSet(t[h])) \cup ToSet(c)
  BY <1>2, <1>6, ChainChanged
<1> QED
  BY <1>7, <1>8, <1>9 DEF WithEntry, c

\* The first entry of a chain taken off it.
LEMMA EntryTaken ==
    ASSUME NEW t \in Tables, Tidy(t), NEW h \in DOMAIN t, t[h] # <<>>
    PROVE  LET u == [t EXCEPT ![h] = Tail(@)]
           IN  /\ u \in Tables /\ Tidy(u) /\ Len(u) = Len(t)
               /\ \A g \in DOMAIN t : g # h => u[g] = t[g]
               /\ Head(t[h]) \in InChains(t) /\ InChains(u) = InChains(t) \ {Head(t[h])}
<1> DEFINE c == Tail(t[h])
           e == Head(t[h])
<1>1. t[h] \in Seq(Entry)
  BY ChainRead
<1>2. /\ c \in Seq(Entry) /\ DOMAIN c = 1 .. Len(t[h]) - 1 /\ \A k \in DOMAIN c : c[k] = t[h][k + 1]
      /\ 1 \in DOMAIN t[h] /\ e = t[h][1] /\ DOMAIN t[h] = 1 .. Len(t[h]) /\ Len(t[h]) \in Nat \ {0}
  BY <1>1
<1>3. TidyChain(t, h, t[h])
  BY DEF Tidy
<1> HIDE DEF c, e
<1>4. \A k \in DOMAIN c : k + 1 \in DOMAIN t[h] /\ k + 1 # 1
  BY <1>2
<1>5. TidyChain(t, h, c)
  <2> SUFFICES ASSUME NEW k \in DOMAIN c
               PROVE  Slot(t, c[k].key) = h /\ \A l \in DOMAIN c : c[l].key = c[k].key => l = k
    BY DEF TidyChain
  <2>1. Slot(t, c[k].key) = h
    BY <1>2, <1>3, <1>4 DEF TidyChain
  <2>2. ASSUME NEW l \in DOMAIN c, c[l].key = c[k].key PROVE l = k
    <3>1. l + 1 = k + 1
      BY <1>2, <1>3, <1>4, <2>2 DEF TidyChain
    <3> QED
      BY <1>2, <3>1
  <2> QED
    BY <2>1, <2>2
<1>6. ToSet(c) = ToSet(t[h]) \ {e}
  <2>1. ASSUME NEW x \in ToSet(c) PROVE x \in ToSet(t[h]) \ {e}
    <3>1. PICK k \in DOMAIN c : x = t[h][k + 1]
      BY <1>2, <2>1 DEF ToSet
    <3>2. x # e
      BY <1>2, <1>3, <1>4, <3>1 DEF TidyChain
    <3> QED
      BY <1>4, <3>1, <3>2 DEF ToSet
  <2>2. ASSUME NEW x \in ToSet(t[h]) \ {e} PROVE x \in ToSet(c)
    <3>1. PICK k \in DOMAIN t[h] : x = t[h][k]
      BY <2>2 DEF ToSet
    <3>2. k - 1 \in DOMAIN c /\ (k - 1) + 1 = k
      BY <1>2, <2>2, <3>1
    <3>3. c[k - 1] = x
      BY <1>2, <3>1, <3>2
    <3> QED
      BY <3>2, <3>3 DEF ToSet
  <2> QED
    BY <2>1, <2>2
<1>7. ToSet(t[h]) \subseteq InChains(t) /\ e \in ToSet(t[h])
  BY <1>2, InChainsIff DEF ToSet
<1>8. LET u == [t EXCEPT ![h] = c]
      IN  /\ u \in Tables /\ Tidy(u) /\ Len(u) = Len(t)
          /\ \A g \in DOMAIN t : g # h => u[g] = t[g]
          /\ InChains(u) = (InChains(t) \ ToSet(t[h])) \cup ToSet(c)
  BY <1>2, <1>5, ChainChanged
<1> QED
  BY <1>6, <1>7, <1>8 DEF c, e

\* The k-th entry of a chain unlinked from it: what stood behind it moves up.
LEMMA RemoveAtShortens ==
    ASSUME NEW S, NEW q \in Seq(S), NEW i \in DOMAIN q
    PROVE  /\ RemoveAt(q, i) \in Seq(S)
           /\ DOMAIN RemoveAt(q, i) = 1 .. Len(q) - 1 /\ Len(RemoveAt(q, i)) = Len(q) - 1
           /\ \A k \in 1 .. Len(q) - 1 : RemoveAt(q, i)[k] = IF k < i THEN q[k] ELSE q[k + 1]
<1> DEFINE front == SubSeq(q, 1, i - 1)
           back == SubSeq(q, i + 1, Len(q))
<1>1. i \in 1 .. Len(q) /\ Len(q) \in Nat
  OBVIOUS
<1>2. front \in Seq(S) /\ Len(front) = i - 1 /\ \A k \in 1 .. i - 1 : front[k] = q[k]
  BY <1>1
<1>3. back \in Seq(S) /\ Len(back) = Len(q) - i /\ \A k \in 1 .. Len(q) - i : back[k] = q[k + i]
  BY <1>1
<1> HIDE DEF front, back
<1>4. front \o back \in Seq(S) /\ Len(front \o back) = Len(q) - 1
  BY <1>1, <1>2, <1>3
<1>5. ASSUME NEW k \in 1 .. Len(q) - 1
      PROVE  (front \o back)[k] = IF k < i THEN q[k] ELSE q[k + 1]
  <2>1. CASE k < i
    BY <1>1, <1>2, <1>3, <2>1
  <2>2. CASE ~(k < i)
    <3>1. k \in 1 .. Len(front) + Len(back) /\ ~(k <= Len(front))
      <4>1. Len(front) + Len(back) = Len(q) - 1 /\ Len(front) = i - 1
        BY <1>1, <1>2, <1>3
      <4> QED
        BY <1>1, <2>2, <4>1
    <3>2. (front \o back)[k] = back[k - (i - 1)]
      BY <1>2, <1>3, <3>1, ConcatProperties
    <3> QED
      BY <1>1, <1>3, <2>2, <3>2
  <2> QED
    BY <2>1, <2>2
<1>6. RemoveAt(q, i) = front \o back
  BY DEF RemoveAt, front, back
<1>7. DOMAIN (front \o back) = 1 .. Len(q) - 1
  BY <1>4
<1> QED
  BY <1>4, <1>5, <1>6, <1>7

LEMMA EntryRemoved ==
    ASSUME NEW t \in Tables, Tidy(t), NEW h \in DOMAIN t, NEW i \in DOMAIN t[h]
    PROVE  LET u == [t EXCEPT ![h] = RemoveAt(@, i)]
           IN  /\ u \in Tables /\ Tidy(u) /\ Len(u) = Len(t)
               /\ u[h] = RemoveAt(t[h], i) /\ \A g \in DOMAIN t : g # h => u[g] = t[g]
               /\ t[h][i] \in InChains(t) /\ InChains(u) = InChains(t) \ {t[h][i]}
<1> DEFINE c == RemoveAt(t[h], i)
           e == t[h][i]
           Was(k) == IF k < i THEN k ELSE k + 1
<1>1. t[h] \in Seq(Entry) /\ DOMAIN t[h] = 1 .. Len(t[h]) /\ Len(t[h]) \in Nat
  BY ChainRead
<1>2. c \in Seq(Entry) /\ DOMAIN c = 1 .. Len(t[h]) - 1 /\ \A k \in DOMAIN c : c[k] = t[h][Was(k)]
  BY <1>1, RemoveAtShortens
<1>3. TidyChain(t, h, t[h])
  BY DEF Tidy
<1> HIDE DEF c, e
<1>4. \A k \in DOMAIN c : Was(k) \in DOMAIN t[h] /\ Was(k) # i
  BY <1>1, <1>2
<1>5. \A k, l \in DOMAIN c : Was(k) = Was(l) => k = l
  BY <1>1, <1>2
<1>6. \A k \in DOMAIN t[h] : k # i => \E l \in DOMAIN c : Was(l) = k
  <2> SUFFICES ASSUME NEW k \in DOMAIN t[h], k # i PROVE \E l \in DOMAIN c : Was(l) = k
    OBVIOUS
  <2>1. CASE k < i
    <3>1. k \in DOMAIN c /\ Was(k) = k
      BY <1>1, <1>2, <2>1
    <3> QED
      BY <3>1
  <2>2. CASE k > i
    <3>1. k - 1 \in DOMAIN c /\ Was(k - 1) = k
      BY <1>1, <1>2, <2>2
    <3> QED
      BY <3>1
  <2> QED
    BY <1>1, <2>1, <2>2
<1> HIDE DEF Was
<1>7. TidyChain(t, h, c)
  BY <1>2, <1>3, <1>4, <1>5 DEF TidyChain
<1>8. ToSet(c) = ToSet(t[h]) \ {e}
  <2>1. ASSUME NEW x \in ToSet(c) PROVE x \in ToSet(t[h]) \ {e}
    <3>1. PICK k \in DOMAIN c : x = t[h][Was(k)]
      BY <1>2, <2>1 DEF ToSet
    <3>2. Was(k) \in DOMAIN t[h] /\ Was(k) # i
      BY <1>4
    <3>3. x # e
      BY <1>3, <3>1, <3>2 DEF TidyChain, e
    <3> QED
      BY <3>1, <3>2, <3>3 DEF ToSet
  <2>2. ASSUME NEW x \in ToSet(t[h]) \ {e} PROVE x \in ToSet(c)
    <3>1. PICK k \in DOMAIN t[h] : x = t[h][k]
      BY <2>2 DEF ToSet
    <3>2. k # i
      BY <2>2, <3>1 DEF e
    <3> QED
      BY <1>2, <1>6, <3>1, <3>2 DEF ToSet
  <2> QED
    BY <2>1, <2>2
<1>9. ToSet(t[h]) \subseteq InChains(t) /\ e \in ToSet(t[h])
  BY InChainsIff DEF ToSet, e
<1>10. LET u == [t EXCEPT ![h] = c]
       IN  /\ u \in Tables /\ Tidy(u) /\ Len(u) = Len(t)
           /\ u[h] = c /\ \A g \in DOMAIN t : g # h => u[g] = t[g]
           /\ InChains(u) = (InChains(t) \ ToSet(t[h])) \cup ToSet(c)
  BY <1>2, <1>7, ChainChanged
<1> QED
  BY <1>8, <1>9, <1>10 DEF c, e

\* The value of an entry set.
WithValue(t, h, i, v) == [t EXCEPT ![h][i].val = v]

LEMMA EntrySet ==
    ASSUME NEW t \in Tables, Tidy(t), NEW h \in DOMAIN t, NEW i \in DOMAIN t[h], NEW v \in Values
    PROVE  LET u == WithValue(t, h, i, v)
           IN  /\ u \in Tables /\ Tidy(u) /\ Len(u) = Len(t) /\ u # <<>>
               /\ t[h][i] \in InChains(t)
               /\ InChains(u) = (InChains(t) \ {t[h][i]}) \cup {[key |-> t[h][i].key, val |-> v]}
<1> DEFINE u == WithValue(t, h, i, v)
           e == t[h][i]
           f == [key |-> e.key, val |-> v]
           c == [t[h] EXCEPT ![i] = f]
<1>1. t[h] \in Seq(Entry) /\ e \in Entry
  BY ChainRead
<1>2. f \in Entry /\ f.key = e.key /\ f = [e EXCEPT !.val = v]
  BY <1>1 DEF Entry
<1> HIDE DEF f
<1>3. u = [t EXCEPT ![h] = c]
  BY <1>2 DEF WithValue
<1> HIDE DEF u
<1>4. c \in Seq(Entry) /\ DOMAIN c = DOMAIN t[h] /\ c[i] = f /\ \A k \in DOMAIN c : k # i => c[k] = t[h][k]
  BY <1>1, <1>2
<1>5. TidyChain(t, h, t[h])
  BY DEF Tidy
<1> HIDE DEF c, e
<1>6. \A k \in DOMAIN c : c[k].key = t[h][k].key
  BY <1>2, <1>4 DEF e
<1>7. TidyChain(t, h, c)
  BY <1>4, <1>5, <1>6 DEF TidyChain
<1>8. ToSet(c) = (ToSet(t[h]) \ {e}) \cup {f}
  <2>1. ASSUME NEW x \in ToSet(c) PROVE x \in (ToSet(t[h]) \ {e}) \cup {f}
    <3>1. PICK k \in DOMAIN c : x = c[k]
      BY <2>1 DEF ToSet
    <3>2. CASE k = i
      BY <1>4, <3>1, <3>2
    <3>3. CASE k # i
      <4>1. x = t[h][k] /\ x # e
        BY <1>4, <1>5, <3>1, <3>3 DEF TidyChain, e
      <4> QED
        BY <1>4, <4>1 DEF ToSet
    <3> QED
      BY <3>2, <3>3
  <2>2. ASSUME NEW x \in (ToSet(t[h]) \ {e}) \cup {f} PROVE x \in ToSet(c)
    <3>1. CASE x = f
      BY <1>4, <3>1 DEF ToSet
    <3>2. CASE x \in ToSet(t[h]) \ {e}
      <4>1. PICK k \in DOMAIN t[h] : x = t[h][k]
        BY <3>2 DEF ToSet
      <4> QED
        BY <1>4, <3>2, <4>1 DEF ToSet, e
    <3> QED
      BY <2>2, <3>1, <3>2
  <2> QED
    BY <2>1, <2>2
<1>9. ToSet(t[h]) \subseteq InChains(t) /\ e \in ToSet(t[h])
  BY InChainsIff DEF ToSet, e
<1>10. e \in InChains(t) /\ e \notin InChains(t) \ ToSet(t[h])
  BY <1>9
<1>11. LET w == [t EXCEPT ![h] = c]
       IN  /\ w \in Tables /\ Tidy(w) /\ Len(w) = Len(t) /\ w # <<>>
           /\ InChains(w) = (InChains(t) \ ToSet(t[h])) \cup ToSet(c)
  BY <1>4, <1>7, ChainChanged
<1>12. /\ u \in Tables /\ Tidy(u) /\ Len(u) = Len(t) /\ u # <<>>
       /\ InChains(u) = (InChains(t) \ ToSet(t[h])) \cup ToSet(c)
  BY <1>3, <1>11
<1>13. InChains(u) = (InChains(t) \ {e}) \cup {f}
  BY <1>8, <1>9, <1>12
<1> QED
  BY <1>9, <1>12, <1>13 DEF u, e, f

LEMMA NoChains == <<>> \in Tables /\ InChains(<<>>) = {} /\ KeysOf({}) = {} /\ Tidy(<<>>)
<1>1. <<>> \in Tables
  BY DEF Tables
<1>2. InChains(<<>>) = {}
  BY <1>1, InChainsIff
<1> QED
  BY <1>1, <1>2 DEF KeysOf, Tidy

LEMMA EmptyChains ==
    ASSUME NEW t \in Tables, \A h \in DOMAIN t : t[h] = <<>>
    PROVE  InChains(t) = {} /\ Tidy(t)
<1>1. InChains(t) = {}
  BY InChainsIff
<1> QED
  BY <1>1 DEF Tidy, TidyChain
-----------------------------------------------------------------------------
(* Entries, keys and the map they make                                     *)

Keyed(S) == \A e, f \in S : e.key = f.key => e = f
MapOf(S) == [key \in KeysOf(S) |-> (CHOOSE e \in S : e.key = key).val]

LEMMA MapAt ==
    ASSUME NEW S, Keyed(S), NEW e \in S
    PROVE  e.key \in KeysOf(S) /\ MapOf(S)[e.key] = e.val
<1>1. e.key \in KeysOf(S)
  BY DEF KeysOf
<1>2. (CHOOSE f \in S : f.key = e.key) = e
  BY DEF Keyed
<1> QED
  BY <1>1, <1>2 DEF MapOf

WithKey(m, f) == [x \in DOMAIN m \cup {f.key} |-> IF x = f.key THEN f.val ELSE m[x]]

LEMMA MapPut ==
    ASSUME NEW S, Keyed(S), NEW f, NEW R, Keyed(R),
           \A e : e \in R <=> e = f \/ (e \in S /\ e.key # f.key)
    PROVE  MapOf(R) = WithKey(MapOf(S), f)
<1>1. KeysOf(R) = KeysOf(S) \cup {f.key}
  BY DEF KeysOf
<1>2. MapOf(R) = [x \in KeysOf(R) |-> MapOf(R)[x]]
  BY DEF MapOf
<1>3. ASSUME NEW x \in KeysOf(S) \cup {f.key}
      PROVE  MapOf(R)[x] = IF x = f.key THEN f.val ELSE MapOf(S)[x]
  <2>1. CASE x = f.key
    BY <2>1, MapAt
  <2>2. CASE x # f.key
    <3>1. PICK e \in S : e.key = x
      BY <2>2 DEF KeysOf
    <3>2. e \in R
      BY <2>2, <3>1
    <3>3. MapOf(R)[x] = e.val /\ MapOf(S)[x] = e.val
      BY <3>1, <3>2, MapAt
    <3> QED
      BY <2>2, <3>3
  <2> QED
    BY <2>1, <2>2
<1>4. DOMAIN MapOf(S) = KeysOf(S)
  BY DEF MapOf
<1> QED
  BY <1>1, <1>2, <1>3, <1>4 DEF WithKey

LEMMA MapRemove ==
    ASSUME NEW S, Keyed(S), NEW f \in S
    PROVE  /\ MapOf(S \ {f}) = [x \in KeysOf(S) \ {f.key} |-> MapOf(S)[x]]
           /\ KeysOf(S \ {f}) = KeysOf(S) \ {f.key}
<1>1. KeysOf(S \ {f}) = KeysOf(S) \ {f.key}
  BY DEF KeysOf, Keyed
<1>2. Keyed(S \ {f})
  BY DEF Keyed
<1>3. MapOf(S \ {f}) = [x \in KeysOf(S \ {f}) |-> MapOf(S \ {f})[x]]
  BY DEF MapOf
<1>4. ASSUME NEW x \in KeysOf(S) \ {f.key} PROVE MapOf(S \ {f})[x] = MapOf(S)[x]
  <2>1. PICK e \in S : e.key = x
    BY DEF KeysOf
  <2>2. e \in S \ {f}
    BY <2>1
  <2> QED
    BY <1>2, <2>1, <2>2, MapAt
<1> QED
  BY <1>1, <1>3, <1>4

LEMMA KeyAdded ==
    ASSUME NEW S, NEW e
    PROVE  KeysOf(S \cup {e}) = KeysOf(S) \cup {e.key}
BY DEF KeysOf

Sound(t) == t \in Tables /\ Tidy(t) /\ IsFiniteSet(KeysOf(InChains(t)))
Count(t) == Cardinality(KeysOf(InChains(t)))

LEMMA SoundKeyed == ASSUME NEW t, Sound(t) PROVE Keyed(InChains(t)) /\ Count(t) \in Nat
<1>1. Keyed(InChains(t))
  BY OneEntry DEF Keyed, Sound
<1>2. Count(t) \in Nat
  BY FS_CardinalityType DEF Sound, Count
<1> QED
  BY <1>1, <1>2

LEMMA SoundPut ==
    ASSUME NEW t, Sound(t), NEW e \in Entry, NEW h \in DOMAIN t,
           Slot(t, e.key) = h, e.key \notin KeysOf(InChains(t))
    PROVE  LET u == WithEntry(t, h, e)
           IN  /\ Sound(u) /\ u # <<>> /\ Count(u) = Count(t) + 1
               /\ InChains(u) = InChains(t) \cup {e}
<1> DEFINE u == WithEntry(t, h, e)
<1>1. t \in Tables /\ Tidy(t) /\ IsFiniteSet(KeysOf(InChains(t)))
  BY DEF Sound
<1>2. u \in Tables /\ Tidy(u) /\ u # <<>> /\ InChains(u) = InChains(t) \cup {e}
  BY <1>1, EntryPut
<1> HIDE DEF u
<1>3. KeysOf(InChains(u)) = KeysOf(InChains(t)) \cup {e.key}
  BY <1>2, KeyAdded
<1>4. IsFiniteSet(KeysOf(InChains(u))) /\ Count(u) = Count(t) + 1
  BY <1>1, <1>3, FS_AddElement DEF Count
<1> QED
  BY <1>2, <1>4 DEF Sound, u

\* An entry that is gone, in whatever way.
LEMMA SoundTaken ==
    ASSUME NEW t, Sound(t), NEW e \in InChains(t), NEW u \in Tables, Tidy(u), InChains(u) = InChains(t) \ {e}
    PROVE  Sound(u) /\ Count(u) = Count(t) - 1 /\ KeysOf(InChains(u)) = KeysOf(InChains(t)) \ {e.key}
<1>1. IsFiniteSet(KeysOf(InChains(t))) /\ Keyed(InChains(t))
  BY SoundKeyed DEF Sound
<1>2. KeysOf(InChains(u)) = KeysOf(InChains(t)) \ {e.key} /\ e.key \in KeysOf(InChains(t))
  BY <1>1, MapRemove, MapAt
<1>3. IsFiniteSet(KeysOf(InChains(u))) /\ Count(u) = Count(t) - 1
  BY <1>1, <1>2, FS_RemoveElement DEF Count
<1> QED
  BY <1>2, <1>3 DEF Sound

LEMMA SoundSet ==
    ASSUME NEW t, Sound(t), NEW h \in DOMAIN t, NEW i \in DOMAIN t[h], NEW v \in Values
    PROVE  LET u == WithValue(t, h, i, v)
           IN  /\ Sound(u) /\ u # <<>> /\ Count(u) = Count(t) /\ t[h][i] \in InChains(t)
               /\ InChains(u) = (InChains(t) \ {t[h][i]}) \cup {[key |-> t[h][i].key, val |-> v]}
<1> DEFINE u == WithValue(t, h, i, v)
           e == t[h][i]
           f == [key |-> e.key, val |-> v]
<1>1. t \in Tables /\ Tidy(t) /\ IsFiniteSet(KeysOf(InChains(t))) /\ Keyed(InChains(t))
  BY SoundKeyed DEF Sound
<1>2. u \in Tables /\ Tidy(u) /\ u # <<>> /\ e \in InChains(t) /\ InChains(u) = (InChains(t) \ {e}) \cup {f}
  <2>1. t \in Tables /\ Tidy(t)
    BY <1>1
  <2> QED
    BY <2>1, EntrySet
<1>3. f.key = e.key
  OBVIOUS
<1> HIDE DEF u, e, f
<1>4. KeysOf(InChains(t) \ {e}) = KeysOf(InChains(t)) \ {e.key} /\ e.key \in KeysOf(InChains(t))
  BY <1>1, <1>2, MapRemove, MapAt
<1>5. KeysOf(InChains(u)) = KeysOf(InChains(t) \ {e}) \cup {f.key}
  BY <1>2, KeyAdded
<1>6. KeysOf(InChains(u)) = KeysOf(InChains(t))
  BY <1>3, <1>4, <1>5
<1> QED
  BY <1>1, <1>2, <1>6 DEF Sound, Count, u, e, f
-----------------------------------------------------------------------------
(* The inductive invariant                                                 *)

Typed ==
    /\ used \in Nat
    /\ new \in [size : Nat, table : Tables, used : Nat, i : Nat]
    /\ task = NoTask \/ task \in [step : {"size", "move", "store"}, key : Keys, val : Values]
    /\ iter \in [index : Int, entry : Keys \cup {Null}, nextEntry : Keys \cup {Null}]

\* How far dictReplace is.  The old chains it is past are empty.
Growing ==
    /\ task # NoTask => iter = NoIter
    /\ task.step \in {"none", "store"} => new = NoNew
    /\ At("size") => new.size > 0 /\ new.table = <<>> /\ new.i = 0
    /\ At("move") => /\ new.table # <<>> /\ new.i <= Len(table)
                     /\ \A h \in DOMAIN table : h < new.i => table[h] = <<>>
    /\ At("store") => table # <<>>

Apart == KeysOf(InChains(table)) \cap KeysOf(InChains(new.table)) = {}

\* The entry that was returned is in the iterator's chain, if it is in any, and behind
\* the one that was saved, which is in that chain.
Iterates ==
    iter # NoIter =>
    /\ iter.index \in 0 .. Len(table)
    /\ iter.entry # Null => Slot(table, iter.entry) = iter.index /\ iter.entry \notin Ahead
    /\ iter.nextEntry # Null =>
          iter.index > 0 /\ \E k \in DOMAIN table[iter.index] : table[iter.index][k].key = iter.nextEntry

Tabled == Sound(table) /\ Sound(new.table) /\ Apart /\ UsedCounts
IInv == Typed /\ Growing /\ Tabled /\ Iterates

LEMMA IsCount == UsedCounts <=> used = Count(table) /\ (At("move") => new.used = used + Count(new.table))
BY DEF UsedCounts, Count

LEMMA StoredKeyed == (Tabled => Keyed(Stored)) /\ (Tabled' => Keyed(Stored'))
<1>1. ASSUME NEW t, Sound(t), NEW u, Sound(u), KeysOf(InChains(t)) \cap KeysOf(InChains(u)) = {}
      PROVE  Keyed(InChains(t) \cup InChains(u))
  <2>1. Keyed(InChains(t)) /\ Keyed(InChains(u))
    BY <1>1, SoundKeyed
  <2> QED
    BY <1>1, <2>1 DEF Keyed, KeysOf
<1>2. Tabled => Keyed(Stored)
  BY <1>1 DEF Tabled, Apart, Stored
<1>3. Tabled' => Keyed(Stored')
  BY <1>1 DEF Tabled, Apart, Stored
<1> QED
  BY <1>2, <1>3

LEMMA ContentsAre ==
    /\ Contents = MapOf(Stored) /\ Contents' = MapOf(Stored')
    /\ \A S : DOMAIN MapOf(S) = KeysOf(S)
<1>1. Contents = MapOf(Stored)
  BY Zenon DEF Contents, MapOf
<1>2. Contents' = MapOf(Stored')
  BY Zenon DEF Contents, MapOf
<1>3. \A S : DOMAIN MapOf(S) = KeysOf(S)
  BY DEF MapOf
<1> QED
  BY <1>1, <1>2, <1>3

LEMMA Running ==
    ASSUME Typed, Growing, ~At("none")
    PROVE  /\ task \in [step : {"size", "move", "store"}, key : Keys, val : Values]
           /\ iter = NoIter /\ task # NoTask
BY DEF Typed, Growing, At, NoTask

LEMMA Resting == ASSUME Typed, At("none") PROVE task = NoTask
BY DEF Typed, At, NoTask

LEMMA NoIterRests == ASSUME iter = NoIter PROVE Iterates /\ Ahead = {}
BY DEF Iterates, Ahead

LEMMA NoNewSound == Sound(NoNew.table) /\ InChains(NoNew.table) = {} /\ NoNew \in [size : Nat, table : Tables, used : Nat, i : Nat]
BY NoChains, FS_EmptySet DEF NoNew, Sound

LEMMA StartHolds == ASSUME DictInit PROVE IInv /\ Stored = {}
<1>1. table = <<>> /\ used = 0 /\ new = NoNew /\ task = NoTask /\ iter = NoIter
  BY DEF DictInit
<1>2. Sound(table) /\ Sound(new.table) /\ InChains(table) = {} /\ InChains(new.table) = {}
  BY <1>1, NoChains, NoNewSound DEF NoNew
<1>3. Tabled
  BY <1>1, <1>2, NoChains, FS_EmptySet DEF Tabled, Apart, UsedCounts, At, NoTask
<1>4. Typed
  BY <1>1, NoNewSound DEF Typed, NoIter
<1>5. Growing
  BY <1>1 DEF Growing, At, NoTask
<1> QED
  BY <1>1, <1>2, <1>3, <1>4, <1>5, NoIterRests DEF IInv, Stored

LEMMA BeginHolds ==
    ASSUME IInv, NEW key \in Keys, NEW val \in Values, ReplaceBegins(key, val)
    PROVE  IInv' /\ Stored' = Stored /\ iter = NoIter /\ iter' = NoIter
<1>1. Typed /\ Growing /\ Tabled /\ At("none") /\ iter = NoIter /\ iter' = NoIter /\ table' = table /\ used' = used
  BY DEF IInv, ReplaceBegins
<1>2. task = NoTask /\ new = NoNew /\ table \in Tables
  BY <1>1, Resting DEF Growing, At, Tabled, Sound
<1>3. InitialSize \in Nat \ {0}
  BY DictAssumption
<1>4. \/ /\ task' = [step |-> "size", key |-> key, val |-> val]
         /\ new' = [NoNew EXCEPT !.size = InitialSize]
      \/ table # <<>> /\ task' = [step |-> "store", key |-> key, val |-> val] /\ new' = new
  BY <1>2 DEF ReplaceBegins, Tables
<1>5. new'.table = new.table /\ new' \in [size : Nat, table : Tables, used : Nat, i : Nat]
  BY <1>1, <1>2, <1>3, <1>4, NoNewSound DEF NoNew
<1>6. Typed'
  BY <1>1, <1>4, <1>5 DEF Typed
<1>7. Growing'
  BY <1>1, <1>2, <1>3, <1>4 DEF Growing, At, NoNew
<1>8. Tabled' /\ Stored' = Stored
  <2>1. ~At("move")'
    BY <1>4 DEF At
  <2> QED
    BY <1>1, <1>5, <2>1 DEF Tabled, Apart, UsedCounts, Stored
<1>9. Iterates'
  BY <1>1 DEF Iterates
<1> QED
  BY <1>1, <1>6, <1>7, <1>8, <1>9 DEF IInv

LEMMA DoubleHolds ==
    ASSUME IInv, DoubleSize
    PROVE  IInv' /\ Stored' = Stored /\ iter = NoIter /\ iter' = NoIter
<1>1. Typed /\ Growing /\ Tabled /\ At("size") /\ UNCHANGED <<table, used, task, iter>>
      /\ new' = [new EXCEPT !.size = 2 * @]
  BY DEF IInv, DoubleSize
<1>2. iter = NoIter
  BY <1>1, Running DEF At
<1>3. new.size \in Nat /\ new \in [size : Nat, table : Tables, used : Nat, i : Nat]
  BY <1>1 DEF Typed
<1>4. /\ new'.table = new.table /\ new'.used = new.used /\ new'.i = new.i /\ new'.size = 2 * new.size
      /\ new' \in [size : Nat, table : Tables, used : Nat, i : Nat]
  BY <1>1, <1>3
<1>5. Typed'
  BY <1>1, <1>4 DEF Typed
<1>6. Growing'
  BY <1>1, <1>3, <1>4 DEF Growing, At
<1>7. Tabled' /\ Stored' = Stored
  BY <1>1, <1>4 DEF Tabled, Apart, UsedCounts, Stored, At
<1>8. Iterates'
  BY <1>1, <1>2 DEF Iterates
<1> QED
  BY <1>1, <1>2, <1>5, <1>6, <1>7, <1>8 DEF IInv

LEMMA AllocateHolds ==
    ASSUME IInv, Allocate
    PROVE  IInv' /\ Stored' = Stored /\ iter = NoIter /\ iter' = NoIter
<1> DEFINE t == [h \in 1 .. new.size |-> <<>>]
<1>1. /\ Typed /\ Growing /\ Tabled /\ At("size") /\ UNCHANGED <<table, used, iter>>
      /\ new' = [new EXCEPT !.table = t, !.used = used] /\ task' = [task EXCEPT !.step = "move"]
  BY DEF IInv, Allocate
<1>2. iter = NoIter /\ task \in [step : {"size", "move", "store"}, key : Keys, val : Values]
  BY <1>1, Running DEF At
<1>3. /\ new.size \in Nat \ {0} /\ new.i = 0 /\ InChains(new.table) = {} /\ used \in Nat
      /\ new \in [size : Nat, table : Tables, used : Nat, i : Nat]
  BY <1>1, NoChains DEF Typed, Growing
<1>4. t \in Tables /\ (\A h \in DOMAIN t : t[h] = <<>>) /\ t # <<>>
  <2>1. <<>> \in Seq(Entry)
    OBVIOUS
  <2>2. DOMAIN t = 1 .. new.size /\ (\A h \in DOMAIN t : t[h] = <<>>) /\ 1 \in DOMAIN t
    BY <1>3
  <2>3. t \in [1 .. new.size -> Seq(Entry)]
    BY <2>1
  <2> HIDE DEF t
  <2>4. t \in Tables
    BY <1>3, <2>3 DEF Tables
  <2>5. Len(t) \in Nat /\ DOMAIN t = 1 .. Len(t)
    BY <2>4 DEF Tables
  <2>6. t # <<>>
    <3>1. 1 \in 1 .. Len(t)
      BY <2>2, <2>5
    <3>2. Len(t) # 0
      BY <2>5, <3>1
    <3> QED
      BY <3>2
  <2> QED
    BY <2>2, <2>4, <2>6
<1> HIDE DEF t
<1>5. InChains(t) = {} /\ Sound(t)
  BY <1>4, EmptyChains, NoChains, FS_EmptySet DEF Sound
<1>6. new'.table = t /\ new'.used = used /\ new'.i = 0 /\ new' \in [size : Nat, table : Tables, used : Nat, i : Nat]
  BY <1>1, <1>3, <1>4
<1>7. task' \in [step : {"size", "move", "store"}, key : Keys, val : Values] /\ task'.step = "move"
  BY <1>1, <1>2
<1>8. Typed'
  BY <1>1, <1>6, <1>7 DEF Typed
<1>9. Growing'
  <2>1. table \in Tables
    BY <1>1 DEF Tabled, Sound
  <2>2. Len(table) >= 0 /\ DOMAIN table = 1 .. Len(table)
    BY <2>1 DEF Tables
  <2> QED
    BY <1>1, <1>2, <1>4, <1>6, <1>7, <2>2 DEF Growing, At
<1>10. Stored' = Stored
  BY <1>1, <1>3, <1>5, <1>6 DEF Stored
<1>11. Tabled'
  <2>1. Apart'
    BY <1>1, <1>5, <1>6, NoChains DEF Apart
  <2>2. UsedCounts'
    <3>1. used = Cardinality(KeysOf(InChains(table)))
      BY <1>1 DEF Tabled, UsedCounts
    <3>2. Cardinality(KeysOf(InChains(new'.table))) = 0
      BY <1>5, <1>6, NoChains, FS_EmptySet
    <3>3. new'.used = used' + Cardinality(KeysOf(InChains(new'.table)))
      BY <1>1, <1>3, <1>6, <3>2
    <3> QED
      BY <1>1, <3>1, <3>3 DEF UsedCounts
  <2> QED
    BY <1>1, <1>5, <1>6, <2>1, <2>2 DEF Tabled
<1>12. Iterates'
  BY <1>1, <1>2 DEF Iterates
<1> QED
  BY <1>1, <1>2, <1>8, <1>9, <1>10, <1>11, <1>12 DEF IInv

LEMMA NextChainHolds ==
    ASSUME IInv, NextChain
    PROVE  IInv' /\ Stored' = Stored /\ iter = NoIter /\ iter' = NoIter
<1>1. /\ Typed /\ Growing /\ Tabled /\ At("move") /\ UNCHANGED <<table, used, task, iter>>
      /\ new' = [new EXCEPT !.i = @ + 1] /\ ChainDone /\ new.i < Len(table)
  BY DEF IInv, NextChain
<1>2. iter = NoIter
  BY <1>1, Running DEF At
<1>3. new.i \in Nat /\ new \in [size : Nat, table : Tables, used : Nat, i : Nat]
  BY <1>1 DEF Typed
<1>4. /\ new'.table = new.table /\ new'.used = new.used /\ new'.i = new.i + 1
      /\ new' \in [size : Nat, table : Tables, used : Nat, i : Nat]
  BY <1>1, <1>3
<1>5. Typed'
  BY <1>1, <1>4 DEF Typed
<1>6. Growing'
  <2>1. Len(table) \in Nat /\ DOMAIN table = 1 .. Len(table)
    BY <1>1 DEF Tabled, Sound, Tables
  <2>2. ASSUME NEW h \in DOMAIN table, h < new.i + 1 PROVE table[h] = <<>>
    <3>1. CASE h < new.i
      BY <1>1, <3>1 DEF Growing
    <3>2. CASE h = new.i
      BY <1>1, <2>1, <3>2 DEF ChainDone
    <3> QED
      BY <1>3, <2>1, <2>2, <3>1, <3>2
  <2>3. new.i + 1 <= Len(table)
    BY <1>1, <1>3, <2>1
  <2> QED
    BY <1>1, <1>2, <1>4, <2>2, <2>3 DEF Growing, At
<1>7. Tabled' /\ Stored' = Stored
  BY <1>1, <1>4 DEF Tabled, Apart, UsedCounts, Stored, At
<1>8. Iterates'
  BY <1>1, <1>2 DEF Iterates
<1> QED
  BY <1>1, <1>2, <1>5, <1>6, <1>7, <1>8 DEF IInv

LEMMA MoveHolds ==
    ASSUME IInv, MoveEntry
    PROVE  IInv' /\ Stored' = Stored /\ iter = NoIter /\ iter' = NoIter
<1> DEFINE i == new.i
           he == Head(table[i])
           h == Slot(new.table, he.key)
           rest == [table EXCEPT ![i] = Tail(@)]
           grown == WithEntry(new.table, h, he)
<1>1. /\ Typed /\ Growing /\ Tabled /\ At("move") /\ ~ChainDone /\ UNCHANGED <<task, iter>>
      /\ table' = rest /\ used' = used - 1 /\ new' = [new EXCEPT !.table = grown]
  BY DEF IInv, MoveEntry, WithEntry
<1>2. iter = NoIter
  BY <1>1, Running DEF At
<1>3. new \in [size : Nat, table : Tables, used : Nat, i : Nat] /\ used \in Nat
  BY <1>1 DEF Typed
<1>4. Sound(table) /\ Sound(new.table) /\ Apart /\ UsedCounts
  BY <1>1 DEF Tabled
<1>5. table \in Tables /\ Tidy(table) /\ DOMAIN table = 1 .. Len(table) /\ Len(table) \in Nat
  BY <1>4 DEF Sound, Tables
<1>6. i \in DOMAIN table /\ table[i] # <<>> /\ i \in Nat
  <2>1. i # 0 /\ table[i] # <<>>
    BY <1>1 DEF ChainDone
  <2>2. i <= Len(table)
    BY <1>1 DEF Growing
  <2> QED
    BY <1>3, <1>5, <2>1, <2>2
<1> HIDE DEF i
<1>7. /\ rest \in Tables /\ Tidy(rest) /\ Len(rest) = Len(table)
      /\ \A g \in DOMAIN table : g # i => rest[g] = table[g]
      /\ he \in InChains(table) /\ InChains(rest) = InChains(table) \ {he}
  BY <1>5, <1>6, EntryTaken
<1>8. he \in Entry /\ he.key \in Keys /\ he.key \in KeysOf(InChains(table))
  BY <1>5, <1>7, EntriesTyped DEF Entry, KeysOf
<1> HIDE DEF he
<1>9. h \in DOMAIN new.table
  BY <1>1, <1>3, <1>8, SlotIn DEF Growing
<1>10. he.key \notin KeysOf(InChains(new.table)) /\ Slot(new.table, he.key) = h
  BY <1>4, <1>8 DEF Apart
<1> HIDE DEF h
<1>11. /\ Sound(grown) /\ grown # <<>> /\ Count(grown) = Count(new.table) + 1
       /\ InChains(grown) = InChains(new.table) \cup {he}
  BY <1>4, <1>8, <1>9, <1>10, SoundPut
<1> HIDE DEF rest, grown
<1>12. Sound(rest) /\ Count(rest) = Count(table) - 1 /\ KeysOf(InChains(rest)) = KeysOf(InChains(table)) \ {he.key}
  BY <1>4, <1>7, SoundTaken
<1>13. KeysOf(InChains(grown)) = KeysOf(InChains(new.table)) \cup {he.key}
  BY <1>11, KeyAdded
<1>14. grown \in Tables
  BY <1>11 DEF Sound
<1>15. /\ new'.table = grown /\ new'.used = new.used /\ new'.i = i
       /\ new' \in [size : Nat, table : Tables, used : Nat, i : Nat]
  BY <1>1, <1>3, <1>14 DEF i
<1>16. used = Count(table) /\ new.used = used + Count(new.table) /\ Count(rest) \in Nat /\ Count(new.table) \in Nat
  BY <1>1, <1>4, <1>12, IsCount, SoundKeyed
<1>17. Tabled'
  <2>1. Apart'
    BY <1>1, <1>4, <1>12, <1>13, <1>15 DEF Apart
  <2>2. used' = Count(rest) /\ new'.used = used' + Count(grown)
    BY <1>1, <1>3, <1>11, <1>12, <1>15, <1>16
  <2>3. UsedCounts'
    BY <1>1, <1>15, <2>2 DEF UsedCounts, Count
  <2> QED
    BY <1>1, <1>11, <1>12, <1>15, <2>1, <2>3 DEF Tabled
<1>18. Stored' = Stored
  BY <1>1, <1>7, <1>11, <1>15 DEF Stored
<1>19. Typed'
  <2>1. used' \in Nat
    BY <1>1, <1>3, <1>12, <1>16
  <2> QED
    BY <1>1, <1>15, <2>1 DEF Typed
<1>20. Growing'
  <2>1. DOMAIN rest = DOMAIN table
    BY <1>5, <1>7 DEF Tables
  <2>2. \A g \in DOMAIN table : g < i => rest[g] = <<>>
    BY <1>1, <1>5, <1>6, <1>7 DEF Growing, i
  <2>3. i <= Len(rest)
    BY <1>1, <1>7 DEF Growing, i
  <2> QED
    BY <1>1, <1>2, <1>11, <1>15, <2>1, <2>2, <2>3 DEF Growing, At
<1>21. Iterates'
  BY <1>1, <1>2 DEF Iterates
<1> QED
  BY <1>1, <1>2, <1>17, <1>18, <1>19, <1>20, <1>21 DEF IInv

LEMMA RemapHolds ==
    ASSUME IInv, Remap
    PROVE  IInv' /\ Stored' = Stored /\ iter = NoIter /\ iter' = NoIter
<1>1. /\ Typed /\ Growing /\ Tabled /\ At("move") /\ ChainDone /\ iter' = iter
      /\ table' = new.table /\ used' = new.used /\ new' = NoNew /\ task' = [task EXCEPT !.step = "store"]
      /\ new.i >= Len(table) \/ used = 0
  BY DEF IInv, Remap
<1>2. iter = NoIter /\ task \in [step : {"size", "move", "store"}, key : Keys, val : Values]
  BY <1>1, Running DEF At
<1>3. new \in [size : Nat, table : Tables, used : Nat, i : Nat] /\ used \in Nat
  BY <1>1 DEF Typed
<1>4. Sound(table) /\ Sound(new.table) /\ UsedCounts
  BY <1>1 DEF Tabled
<1>5. table \in Tables /\ DOMAIN table = 1 .. Len(table) /\ Len(table) \in Nat
  BY <1>4 DEF Sound, Tables
\* No entry is left in the old chains.
<1>6. InChains(table) = {} /\ used = 0
  <2>1. CASE used = 0
    <3>1. KeysOf(InChains(table)) = {}
      BY <1>4, <2>1, FS_EmptySet DEF UsedCounts, Sound
    <3>2. InChains(table) = {}
      BY <3>1 DEF KeysOf
    <3> QED
      BY <2>1, <3>2
  <2>2. CASE new.i >= Len(table)
    <3>1. ASSUME NEW h \in DOMAIN table PROVE table[h] = <<>>
      <4>1. h < new.i \/ h = new.i
        BY <1>3, <1>5, <2>2
      <4>2. CASE h < new.i
        BY <1>1, <4>2 DEF Growing
      <4>3. CASE h = new.i
        BY <1>1, <1>5, <4>3 DEF ChainDone
      <4> QED
        BY <4>1, <4>2, <4>3
    <3>2. InChains(table) = {}
      BY <1>5, <3>1, EmptyChains
    <3>3. used = 0
      BY <1>4, <3>2, NoChains, FS_EmptySet DEF UsedCounts
    <3> QED
      BY <3>2, <3>3
  <2> QED
    BY <1>1, <2>1, <2>2
<1>7. new.used = Count(new.table) /\ Count(new.table) \in Nat
  BY <1>1, <1>4, <1>6, IsCount, SoundKeyed
<1>8. task' \in [step : {"size", "move", "store"}, key : Keys, val : Values] /\ task'.step = "store"
  BY <1>1, <1>2
<1>9. Typed'
  BY <1>1, <1>3, <1>8, NoNewSound DEF Typed
<1>10. Growing'
  <2>1. table' # <<>>
    BY <1>1 DEF Growing
  <2>2. new' = NoNew /\ iter' = NoIter /\ task'.step = "store"
    BY <1>1, <1>2, <1>8
  <2> QED
    BY <2>1, <2>2 DEF Growing, At
<1>11. Stored' = Stored
  BY <1>1, <1>6, NoNewSound DEF Stored
<1>12. Tabled'
  <2>1. Apart'
    BY <1>1, NoNewSound, NoChains DEF Apart
  <2>2. UsedCounts'
    BY <1>1, <1>7, <1>8 DEF UsedCounts, Count, At
  <2> QED
    BY <1>1, <1>4, <2>1, <2>2, NoNewSound DEF Tabled
<1>13. Iterates'
  BY <1>1, <1>2 DEF Iterates
<1> QED
  BY <1>1, <1>2, <1>9, <1>10, <1>11, <1>12, <1>13 DEF IInv

\* The entry is stored, and what was under its key is not.
LEMMA StoreHolds ==
    ASSUME IInv, StoreEntry
    PROVE  /\ IInv' /\ iter = NoIter /\ iter' = NoIter /\ task.key \in Keys /\ task.val \in Values
           /\ \A e : e \in Stored' <=> \/ e = [key |-> task.key, val |-> task.val]
                                       \/ e \in Stored /\ e.key # task.key
<1> DEFINE key == task.key
           h == Slot(table, key)
           k == Position(table[h], key)
           e == [key |-> key, val |-> task.val]
<1>1. /\ Typed /\ Growing /\ Tabled /\ At("store") /\ new' = new /\ iter' = iter /\ task' = NoTask
      /\ \/ k # 0 /\ table' = [table EXCEPT ![h][k].val = task.val] /\ used' = used
         \/ k = 0 /\ table' = [table EXCEPT ![h] = <<e>> \o @] /\ used' = used + 1
  BY DEF IInv, StoreEntry
<1>2. /\ iter = NoIter /\ key \in Keys /\ task.val \in Values /\ new = NoNew /\ table # <<>>
  BY <1>1, Running DEF At, Growing
<1>3. Sound(table) /\ Keyed(InChains(table)) /\ used = Count(table) /\ used \in Nat
  BY <1>1, IsCount, SoundKeyed DEF Tabled, Typed
<1>4. table \in Tables /\ Tidy(table)
  BY <1>3 DEF Sound
<1>5. /\ h \in DOMAIN table /\ (k # 0 <=> key \in KeysOf(InChains(table)))
      /\ k # 0 => k \in DOMAIN table[h] /\ table[h][k].key = key
  BY <1>2, <1>4, LookUp
<1>6. e \in Entry /\ e.key = key /\ Slot(table, e.key) = h
  BY <1>2 DEF Entry
<1> HIDE DEF h, k, e, key
<1>7. /\ Sound(table') /\ used' = Count(table') /\ used' \in Nat
      /\ \A f : f \in InChains(table') <=> f = e \/ (f \in InChains(table) /\ f.key # key)
  <2>1. CASE k = 0
    <3>1. table' = WithEntry(table, h, e)
      BY <1>1, <2>1 DEF WithEntry
    <3>2. e.key \notin KeysOf(InChains(table))
      BY <1>5, <1>6, <2>1
    <3>3. Sound(table') /\ Count(table') = Count(table) + 1 /\ InChains(table') = InChains(table) \cup {e}
      BY <1>3, <1>5, <1>6, <3>1, <3>2, SoundPut
    <3>4. \A f \in InChains(table) : f.key # key
      BY <1>6, <3>2 DEF KeysOf
    <3>5. used' = used + 1
      BY <1>1, <2>1
    <3> QED
      BY <1>3, <3>3, <3>4, <3>5
  <2>2. CASE k # 0
    <3> DEFINE old == table[h][k]
    <3>1. table' = WithValue(table, h, k, task.val) /\ used' = used
      BY <1>1, <2>2 DEF WithValue
    <3>2. k \in DOMAIN table[h] /\ old.key = key /\ [key |-> old.key, val |-> task.val] = e
      BY <1>5, <2>2 DEF e
    <3>3. /\ Sound(table') /\ Count(table') = Count(table) /\ old \in InChains(table)
          /\ InChains(table') = (InChains(table) \ {old}) \cup {[key |-> old.key, val |-> task.val]}
      BY <1>2, <1>3, <1>5, <3>1, <3>2, SoundSet
    <3> HIDE DEF old
    <3>4. \A f \in InChains(table) : f.key = key <=> f = old
      BY <1>3, <3>2, <3>3 DEF Keyed
    <3> QED
      BY <1>3, <3>1, <3>2, <3>3, <3>4
  <2> QED
    BY <2>1, <2>2
<1>8. InChains(new.table) = {} /\ Sound(new.table)
  BY <1>2, NoNewSound
<1>9. \A f : f \in Stored' <=> f = e \/ (f \in Stored /\ f.key # key)
  BY <1>1, <1>7, <1>8 DEF Stored
<1>10. ~At("move")' /\ ~At("size")' /\ ~At("store")'
  BY <1>1 DEF At, NoTask
<1>11. Tabled'
  <2>1. Apart'
    BY <1>1, <1>8, NoChains DEF Apart
  <2>2. UsedCounts'
    BY <1>7, <1>10 DEF UsedCounts, Count
  <2> QED
    BY <1>1, <1>7, <1>8, <2>1, <2>2 DEF Tabled
<1>12. Typed'
  BY <1>1, <1>7 DEF Typed
<1>13. Growing'
  BY <1>1, <1>2, <1>10 DEF Growing
<1>14. Iterates'
  BY <1>1, <1>2 DEF Iterates
<1> QED
  BY <1>1, <1>2, <1>9, <1>11, <1>12, <1>13, <1>14 DEF IInv, e, key

LEMMA ClearHolds ==
    ASSUME IInv, ClearTable
    PROVE  IInv' /\ Stored' = {} /\ iter = NoIter /\ iter' = NoIter
<1>1. /\ Typed /\ Growing /\ Tabled /\ At("none") /\ iter = NoIter /\ UNCHANGED <<new, task, iter>>
      /\ table' = <<>> /\ used' = 0
  BY DEF IInv, ClearTable
<1>2. new = NoNew /\ task = NoTask
  BY <1>1, Resting DEF Growing, At
<1>3. Sound(table') /\ InChains(table') = {} /\ InChains(new.table) = {}
  BY <1>1, <1>2, NoChains, NoNewSound, FS_EmptySet DEF Sound
<1>4. Tabled'
  BY <1>1, <1>2, <1>3, NoChains, FS_EmptySet DEF Tabled, Apart, UsedCounts, At, NoTask
<1>5. Typed' /\ Growing' /\ Iterates'
  BY <1>1, <1>2 DEF Typed, Growing, Iterates, At, NoTask
<1> QED
  BY <1>1, <1>3, <1>4, <1>5 DEF IInv, Stored
-----------------------------------------------------------------------------
(* Iterations                                                              *)

Past(t, h) == UNION {KeysOf(ToSet(t[g])) : g \in h + 1 .. Len(t)}
From(c, p) == {c[k].key : k \in p .. Len(c)}

AheadOf(t, it) ==
    IF it = NoIter THEN {}
    ELSE Past(t, it.index) \cup
         (IF it.nextEntry = Null THEN {} ELSE From(t[it.index], Position(t[it.index], it.nextEntry)))

LEMMA AheadIs == Ahead = AheadOf(table, iter) /\ Ahead' = AheadOf(table', iter')
BY DEF Ahead, AheadOf, Past, From

LEMMA PositionIs ==
    ASSUME NEW c \in Seq(Entry), NEW t, NEW h, TidyChain(t, h, c), NEW k \in DOMAIN c
    PROVE  Position(c, c[k].key) = k
<1>1. Position(c, c[k].key) \in DOMAIN c /\ c[Position(c, c[k].key)].key = c[k].key
  BY PositionAt
<1> QED
  BY <1>1 DEF TidyChain

LEMMA PastIff ==
    ASSUME NEW t \in Tables, NEW h \in Nat, NEW key
    PROVE  key \in Past(t, h) <=> \E g \in DOMAIN t : h < g /\ \E k \in DOMAIN t[g] : t[g][k].key = key
<1>1. Len(t) \in Nat /\ DOMAIN t = 1 .. Len(t)
  BY DEF Tables
<1>2. \A g : g \in h + 1 .. Len(t) <=> g \in DOMAIN t /\ h < g
  BY <1>1
<1>3. \A g : key \in KeysOf(ToSet(t[g])) <=> \E k \in DOMAIN t[g] : t[g][k].key = key
  BY DEF KeysOf, ToSet
<1>4. key \in Past(t, h) <=> \E g \in h + 1 .. Len(t) : key \in KeysOf(ToSet(t[g]))
  BY DEF Past
<1> QED
  BY <1>2, <1>3, <1>4

\* What the iterator has yet to come to once it is at the p-th entry of chain h.
LEMMA Arrives ==
    ASSUME NEW t, Sound(t), NEW h \in DOMAIN t, NEW p \in DOMAIN t[h],
           NEW it, it = [index |-> h, entry |-> t[h][p].key, nextEntry |-> KeyAt(t[h], p + 1)]
    PROVE  LET rest == Past(t, h) \cup From(t[h], p)
           IN  /\ it.entry \in rest /\ AheadOf(t, it) = rest \ {it.entry}
               /\ it # NoIter /\ it.index \in 0 .. Len(t)
               /\ it \in [index : Int, entry : Keys \cup {Null}, nextEntry : Keys \cup {Null}]
               /\ Slot(t, it.entry) = it.index
               /\ it.nextEntry # Null => it.index > 0 /\ \E k \in DOMAIN t[it.index] : t[it.index][k].key = it.nextEntry
<1> DEFINE c == t[h]
<1>1. t \in Tables /\ Tidy(t) /\ Len(t) \in Nat /\ DOMAIN t = 1 .. Len(t)
  BY DEF Sound, Tables
<1>2. c \in Seq(Entry) /\ DOMAIN c = 1 .. Len(c) /\ Len(c) \in Nat /\ (\A k \in DOMAIN c : c[k].key \in Keys)
  BY <1>1, ChainRead
<1>3. TidyChain(t, h, c)
  BY <1>1 DEF Tidy
<1>4. p \in DOMAIN c /\ it.index = h /\ it.entry = c[p].key /\ it.nextEntry = KeyAt(c, p + 1) /\ h \in Nat /\ h > 0
  BY <1>1
<1> HIDE DEF c
<1>5. it # NoIter
  <2>1. NoIter.index = -1
    BY DEF NoIter
  <2> QED
    BY <1>4, <2>1
<1>6. it.entry \notin Past(t, h)
  <2> SUFFICES ASSUME NEW g \in DOMAIN t, h < g, NEW k \in DOMAIN t[g], t[g][k].key = it.entry PROVE FALSE
    BY <1>1, <1>4, PastIff
  <2>1. Slot(t, it.entry) = g
    BY <1>1 DEF Tidy, TidyChain
  <2>2. Slot(t, it.entry) = h
    BY <1>3, <1>4 DEF TidyChain
  <2> QED
    BY <1>1, <1>4, <2>1, <2>2
<1>7. it.entry \in From(c, p)
  BY <1>2, <1>4 DEF From
<1>8. From(c, p) \ {it.entry} = From(c, p + 1)
  <2>1. \A k \in p + 1 .. Len(c) : k \in DOMAIN c /\ k # p
    BY <1>2, <1>4
  <2>2. ASSUME NEW x \in From(c, p + 1) PROVE x \in From(c, p) \ {it.entry}
    <3>1. PICK k \in p + 1 .. Len(c) : x = c[k].key
      BY <2>2 DEF From
    <3>2. k \in p .. Len(c)
      BY <1>2, <1>4
    <3>3. x # it.entry
      BY <1>3, <1>4, <2>1, <3>1 DEF TidyChain
    <3> QED
      BY <3>1, <3>2, <3>3 DEF From
  <2>3. ASSUME NEW x \in From(c, p) \ {it.entry} PROVE x \in From(c, p + 1)
    <3>1. PICK k \in p .. Len(c) : x = c[k].key
      BY <2>3 DEF From
    <3>2. k # p
      BY <1>4, <2>3, <3>1
    <3>3. k \in p + 1 .. Len(c)
      BY <1>2, <1>4, <3>2
    <3> QED
      BY <3>1, <3>3 DEF From
  <2> QED
    BY <2>2, <2>3
<1>9. CASE p + 1 <= Len(c)
  <2>1. p + 1 \in DOMAIN c /\ it.nextEntry = c[p + 1].key
    BY <1>2, <1>4, <1>9 DEF KeyAt
  <2>2. it.nextEntry \in Keys /\ it.nextEntry # Null
    BY <1>2, <2>1, DictAssumption
  <2>3. Position(c, it.nextEntry) = p + 1
    BY <1>2, <1>3, <2>1, PositionIs
  <2>4. AheadOf(t, it) = Past(t, h) \cup From(c, p + 1)
    BY <1>4, <1>5, <2>2, <2>3 DEF AheadOf, c
  <2>5. it \in [index : Int, entry : Keys \cup {Null}, nextEntry : Keys \cup {Null}]
    BY <1>2, <1>4, <2>2
  <2> QED
    BY <1>1, <1>3, <1>4, <1>5, <1>6, <1>7, <1>8, <2>1, <2>4, <2>5 DEF c, TidyChain
<1>10. CASE ~(p + 1 <= Len(c))
  <2>1. it.nextEntry = Null
    BY <1>4, <1>10 DEF KeyAt
  <2>2. From(c, p + 1) = {}
    <3>1. \A k \in p + 1 .. Len(c) : FALSE
      BY <1>2, <1>4, <1>10
    <3> QED
      BY <3>1 DEF From
  <2>3. AheadOf(t, it) = Past(t, h)
    BY <1>4, <1>5, <2>1 DEF AheadOf
  <2>4. it \in [index : Int, entry : Keys \cup {Null}, nextEntry : Keys \cup {Null}]
    BY <1>2, <1>4, <2>1
  <2> QED
    BY <1>1, <1>3, <1>4, <1>5, <1>6, <1>7, <1>8, <2>1, <2>2, <2>3, <2>4 DEF c, TidyChain
<1> QED
  BY <1>9, <1>10

LEMMA AdvanceHolds ==
    ASSUME IInv, Advance
    PROVE  /\ IInv' /\ Stored' = Stored /\ iter # NoIter
           /\ \/ iter' # NoIter /\ \E k \in Ahead : Ahead' = Ahead \ {k}
              \/ iter' = NoIter /\ Ahead = {} /\ Ahead' = {}
<1>1. /\ Typed /\ Growing /\ Tabled /\ Iterates /\ iter # NoIter
      /\ table' = table /\ used' = used /\ new' = new /\ task' = task
      /\ iter' = IF iter.nextEntry # Null
                 THEN IterAt(iter.index, Position(table[iter.index], iter.nextEntry))
                 ELSE IF Later # {} THEN IterAt(Min(Later), 1) ELSE NoIter
  BY DEF IInv, Advance
<1>2. Sound(table) /\ task = NoTask
  BY <1>1 DEF Tabled, Growing
<1>3. table \in Tables /\ Tidy(table) /\ Len(table) \in Nat /\ DOMAIN table = 1 .. Len(table)
  BY <1>2 DEF Sound, Tables
<1>4. iter.index \in 0 .. Len(table) /\ iter.index \in Nat
  BY <1>1, <1>3 DEF Iterates
<1>5. Ahead = AheadOf(table, iter) /\ Ahead' = AheadOf(table, iter')
  BY <1>1, AheadIs
<1>6. Tabled' /\ Stored' = Stored
  BY <1>1 DEF Tabled, Apart, UsedCounts, Stored, At
<1>7. Growing'
  BY <1>1, <1>2 DEF Growing, At
\* The iterator comes to an entry, the first of those ahead.
<1>8. ASSUME NEW h \in DOMAIN table, NEW p \in DOMAIN table[h], iter' = IterAt(h, p),
             Ahead = Past(table, h) \cup From(table[h], p)
      PROVE  Typed' /\ Iterates' /\ iter' # NoIter /\ \E k \in Ahead : Ahead' = Ahead \ {k}
  <2>1. iter' = [index |-> h, entry |-> table[h][p].key, nextEntry |-> KeyAt(table[h], p + 1)]
    BY <1>8 DEF IterAt
  <2>2. /\ iter'.entry \in Ahead /\ AheadOf(table, iter') = Ahead \ {iter'.entry}
        /\ iter' # NoIter /\ iter'.index \in 0 .. Len(table)
        /\ iter' \in [index : Int, entry : Keys \cup {Null}, nextEntry : Keys \cup {Null}]
        /\ Slot(table, iter'.entry) = iter'.index
        /\ iter'.nextEntry # Null =>
              iter'.index > 0 /\ \E k \in DOMAIN table[iter'.index] : table[iter'.index][k].key = iter'.nextEntry
    BY <1>2, <1>8, <2>1, Arrives
  <2>3. Ahead' = Ahead \ {iter'.entry}
    BY <1>5, <2>2
  <2>4. Typed'
    BY <1>1, <2>2 DEF Typed
  <2>5. Iterates'
    BY <1>1, <2>2, <2>3 DEF Iterates
  <2> QED
    BY <2>2, <2>3, <2>4, <2>5
<1>9. CASE iter.nextEntry # Null
  <2> DEFINE h == iter.index
             p == Position(table[h], iter.nextEntry)
  <2>1. h \in DOMAIN table /\ \E k \in DOMAIN table[h] : table[h][k].key = iter.nextEntry
    BY <1>1, <1>3, <1>4, <1>9 DEF Iterates
  <2>2. table[h] \in Seq(Entry)
    BY <1>3, <2>1, ChainRead
  <2>3. p \in DOMAIN table[h]
    BY <2>1, <2>2, PositionAt
  <2>4. iter' = IterAt(h, p)
    BY <1>1, <1>9
  <2>5. Ahead = Past(table, h) \cup From(table[h], p)
    BY <1>1, <1>5, <1>9 DEF AheadOf
  <2> HIDE DEF h, p
  <2>6. Typed' /\ Iterates' /\ iter' # NoIter /\ \E k \in Ahead : Ahead' = Ahead \ {k}
    BY <1>8, <2>1, <2>3, <2>4, <2>5
  <2> QED
    BY <1>1, <1>6, <1>7, <2>6 DEF IInv
<1>10. CASE iter.nextEntry = Null
  <2>1. Ahead = Past(table, iter.index)
    BY <1>1, <1>5, <1>10 DEF AheadOf
  <2>2. Later \subseteq Nat /\ \A g : g \in Later <=> g \in DOMAIN table /\ iter.index < g /\ table[g] # <<>>
    BY <1>3, <1>4 DEF Later
  <2>3. CASE Later # {}
    <3> DEFINE h == Min(Later)
    <3>1. h \in Later /\ \A g \in Later : h <= g
      BY <2>2, <2>3, MinIn
    <3>2. iter' = IterAt(h, 1)
      BY <1>1, <1>10, <2>3
    <3> HIDE DEF h
    <3>3. h \in DOMAIN table /\ iter.index < h /\ table[h] # <<>> /\ h \in Nat
      BY <2>2, <3>1
    <3>4. table[h] \in Seq(Entry) /\ DOMAIN table[h] = 1 .. Len(table[h]) /\ Len(table[h]) \in Nat
      BY <1>3, <3>3, ChainRead
    <3>5. 1 \in DOMAIN table[h]
      BY <3>3, <3>4
    <3>6. From(table[h], 1) = KeysOf(ToSet(table[h]))
      BY <3>4 DEF From, KeysOf, ToSet
    <3>7. ASSUME NEW key PROVE key \in Past(table, iter.index) <=> key \in Past(table, h) \cup From(table[h], 1)
      <4>1. key \in From(table[h], 1) <=> \E k \in DOMAIN table[h] : table[h][k].key = key
        BY <3>6 DEF KeysOf, ToSet
      <4>2. \A g \in DOMAIN table : iter.index < g /\ table[g] # <<>> <=> table[g] # <<>> /\ (g = h \/ h < g)
        BY <1>3, <1>4, <2>2, <3>1, <3>3
      <4>3. \A g \in DOMAIN table : \A k \in DOMAIN table[g] : table[g] # <<>>
        BY <1>3, ChainRead
      <4>4. key \in Past(table, iter.index) <=>
              \E g \in DOMAIN table : iter.index < g /\ \E k \in DOMAIN table[g] : table[g][k].key = key
        BY <1>3, <1>4, PastIff
      <4>5. key \in Past(table, h) <=> \E g \in DOMAIN table : h < g /\ \E k \in DOMAIN table[g] : table[g][k].key = key
        BY <1>3, <3>3, PastIff
      <4> QED
        BY <3>3, <4>1, <4>2, <4>3, <4>4, <4>5
    <3>8. Ahead = Past(table, h) \cup From(table[h], 1)
      BY <2>1, <3>7
    <3>9. Typed' /\ Iterates' /\ iter' # NoIter /\ \E k \in Ahead : Ahead' = Ahead \ {k}
      BY <1>8, <3>2, <3>3, <3>5, <3>8
    <3> QED
      BY <1>1, <1>6, <1>7, <3>9 DEF IInv
  <2>4. CASE Later = {}
    <3>1. iter' = NoIter
      BY <1>1, <1>10, <2>4
    <3>2. Ahead = {}
      <4> SUFFICES ASSUME NEW g \in DOMAIN table, iter.index < g, NEW k \in DOMAIN table[g] PROVE FALSE
        BY <1>3, <1>4, <2>1, PastIff
      <4>1. table[g] = <<>>
        BY <2>2, <2>4
      <4> QED
        BY <4>1
    <3>3. Ahead' = {}
      BY <1>5, <3>1 DEF AheadOf
    <3>4. Typed' /\ Iterates'
      BY <1>1, <3>1 DEF Typed, Iterates, NoIter
    <3> QED
      BY <1>1, <1>6, <1>7, <3>1, <3>2, <3>3, <3>4 DEF IInv
  <2> QED
    BY <2>3, <2>4
<1> QED
  BY <1>9, <1>10

LEMMA GetIteratorHolds ==
    ASSUME IInv, GetIterator
    PROVE  IInv' /\ Stored' = Stored /\ iter = NoIter /\ iter' # NoIter /\ Ahead' = KeysOf(Stored)
<1>1. /\ Typed /\ Growing /\ Tabled /\ iter = NoIter /\ At("none")
      /\ table' = table /\ used' = used /\ new' = new /\ task' = task /\ iter' = [NoIter EXCEPT !.index = 0]
  BY DEF IInv, GetIterator
<1>2. new = NoNew /\ task = NoTask /\ table \in Tables /\ Len(table) \in Nat /\ DOMAIN table = 1 .. Len(table)
  BY <1>1, Resting DEF Growing, At, Tabled, Sound, Tables
<1>3. iter'.index = 0 /\ iter'.entry = Null /\ iter'.nextEntry = Null /\ iter' # NoIter
      /\ iter' \in [index : Int, entry : Keys \cup {Null}, nextEntry : Keys \cup {Null}]
  BY <1>1 DEF NoIter
<1>4. Ahead' = Past(table, 0)
  BY <1>1, <1>3, AheadIs DEF AheadOf
<1>5. Past(table, 0) = KeysOf(InChains(table))
  <2> SUFFICES ASSUME NEW key PROVE key \in Past(table, 0) <=> key \in KeysOf(InChains(table))
    OBVIOUS
  <2>1. key \in Past(table, 0) <=> \E g \in DOMAIN table : \E k \in DOMAIN table[g] : table[g][k].key = key
    BY <1>2, PastIff
  <2>2. \A e : e \in InChains(table) <=> \E g \in DOMAIN table : \E k \in DOMAIN table[g] : e = table[g][k]
    BY <1>2, InChainsIff
  <2> QED
    BY <2>1, <2>2 DEF KeysOf
<1>6. Stored = InChains(table)
  BY <1>2, NoNewSound DEF Stored
<1>7. Tabled' /\ Stored' = Stored
  BY <1>1 DEF Tabled, Apart, UsedCounts, Stored, At
<1>8. Typed' /\ Growing' /\ Iterates'
  BY <1>1, <1>2, <1>3 DEF Typed, Growing, Iterates, At
<1> QED
  BY <1>1, <1>3, <1>4, <1>5, <1>6, <1>7, <1>8 DEF IInv

\* The entry before the one that was saved is unlinked.
LEMMA FromStays ==
    ASSUME NEW t, Sound(t), NEW h \in DOMAIN t, NEW i \in DOMAIN t[h], NEW p \in DOMAIN t[h], i < p,
           NEW u, Sound(u), DOMAIN u = DOMAIN t, u[h] = RemoveAt(t[h], i)
    PROVE  LET next == t[h][p].key
           IN  /\ From(u[h], Position(u[h], next)) = From(t[h], p)
               /\ \E k \in DOMAIN u[h] : u[h][k].key = next
<1> DEFINE c == t[h]
           d == u[h]
           next == c[p].key
<1>1. t \in Tables /\ u \in Tables /\ Tidy(u)
  BY DEF Sound
<1>2. c \in Seq(Entry) /\ d \in Seq(Entry) /\ DOMAIN c = 1 .. Len(c) /\ Len(c) \in Nat
  BY <1>1, ChainRead
<1>3. TidyChain(u, h, d)
  BY <1>1 DEF Tidy
<1>4. i \in DOMAIN c /\ p \in DOMAIN c /\ d = RemoveAt(c, i)
  OBVIOUS
<1> HIDE DEF c, d
<1>5. DOMAIN d = 1 .. Len(c) - 1 /\ Len(d) = Len(c) - 1
      /\ \A k \in 1 .. Len(c) - 1 : d[k] = IF k < i THEN c[k] ELSE c[k + 1]
  BY <1>2, <1>4, RemoveAtShortens
<1>6. \A k \in p - 1 .. Len(c) - 1 : d[k] = c[k + 1] /\ k \in DOMAIN d
  BY <1>2, <1>4, <1>5
<1>7. p - 1 \in DOMAIN d /\ d[p - 1] = c[p]
  <2>1. p - 1 \in p - 1 .. Len(c) - 1 /\ (p - 1) + 1 = p
    BY <1>2, <1>4
  <2> QED
    BY <1>6, <2>1
<1>8. Position(d, next) = p - 1
  BY <1>2, <1>3, <1>7, PositionIs
<1> HIDE DEF next
<1>9. From(d, p - 1) = From(c, p)
  <2>1. ASSUME NEW x \in From(d, p - 1) PROVE x \in From(c, p)
    <3>1. PICK k \in p - 1 .. Len(c) - 1 : x = d[k].key
      BY <1>5, <2>1 DEF From
    <3>2. k + 1 \in p .. Len(c) /\ x = c[k + 1].key
      BY <1>2, <1>4, <1>6, <3>1
    <3> QED
      BY <3>2 DEF From
  <2>2. ASSUME NEW x \in From(c, p) PROVE x \in From(d, p - 1)
    <3>1. PICK k \in p .. Len(c) : x = c[k].key
      BY <2>2 DEF From
    <3>2. k - 1 \in p - 1 .. Len(c) - 1 /\ (k - 1) + 1 = k
      BY <1>2, <1>4
    <3>3. x = d[k - 1].key /\ k - 1 \in p - 1 .. Len(d)
      BY <1>5, <1>6, <3>1, <3>2
    <3> QED
      BY <3>3 DEF From
  <2> QED
    BY <2>1, <2>2
<1>10. \E k \in DOMAIN d : d[k].key = next
  BY <1>7 DEF next
<1> QED
  BY <1>8, <1>9, <1>10 DEF c, d, next

LEMMA DeleteHolds ==
    ASSUME IInv, NEW key \in Keys, DeleteEntry(key), iter = NoIter \/ key = iter.entry
    PROVE  /\ IInv' /\ iter' = iter /\ Ahead' = Ahead
           /\ \/ Stored' = Stored
              \/ key \notin Ahead /\ \E f \in Stored : f.key = key /\ Stored' = Stored \ {f}
<1> DEFINE h == Slot(table, key)
           i == Position(table[h], key)
<1>1. /\ Typed /\ Growing /\ Tabled /\ Iterates /\ At("none") /\ new' = new /\ task' = task /\ iter' = iter
      /\ \/ /\ Has(table, key)
            /\ table' = [table EXCEPT ![h] = RemoveAt(@, i)] /\ used' = used - 1
         \/ table' = table /\ used' = used
  BY DEF IInv, DeleteEntry
<1>2. new = NoNew /\ task = NoTask /\ Sound(table) /\ used = Count(table)
  BY <1>1, Resting, IsCount DEF Growing, At, Tabled
<1>3. table \in Tables /\ Tidy(table) /\ Len(table) \in Nat /\ DOMAIN table = 1 .. Len(table)
  BY <1>2 DEF Sound, Tables
<1>4. InChains(new.table) = {} /\ Sound(new.table)
  BY <1>2, NoNewSound
<1>5. Growing'
  BY <1>1, <1>2 DEF Growing, At, NoTask
<1>6. CASE table' = table /\ used' = used
  <2>1. IInv'
    BY <1>1, <1>6 DEF IInv, Typed, Growing, Tabled, Apart, UsedCounts, Iterates, At, Ahead
  <2>2. Ahead' = Ahead /\ Stored' = Stored
    BY <1>1, <1>6 DEF Ahead, Stored
  <2> QED
    BY <1>1, <2>1, <2>2
<1>7. CASE Has(table, key) /\ table' = [table EXCEPT ![h] = RemoveAt(@, i)] /\ used' = used - 1
  <2> DEFINE f == table[h][i]
  <2>1. h \in DOMAIN table /\ i \in DOMAIN table[h] /\ f.key = key
    <3>1. table # <<>> /\ i # 0
      BY <1>7 DEF Has
    <3> QED
      BY <1>3, <3>1, LookUp
  <2> HIDE DEF h, i
  <2>2. /\ table' \in Tables /\ Tidy(table') /\ Len(table') = Len(table)
        /\ table'[h] = RemoveAt(table[h], i) /\ \A g \in DOMAIN table : g # h => table'[g] = table[g]
        /\ f \in InChains(table) /\ InChains(table') = InChains(table) \ {f}
    BY <1>3, <1>7, <2>1, EntryRemoved
  <2> HIDE DEF f
  <2>3. Sound(table') /\ Count(table') = Count(table) - 1
    BY <1>2, <2>2, SoundTaken
  <2>4. Count(table') \in Nat /\ used' = Count(table')
    BY <1>2, <1>7, <2>3, SoundKeyed
  <2>5. Stored' = Stored \ {f} /\ f \in Stored
    BY <1>1, <1>4, <2>2 DEF Stored
  <2>6. Tabled'
    <3>1. Apart'
      BY <1>1, <1>4, NoChains DEF Apart
    <3>2. UsedCounts'
      BY <1>1, <2>4 DEF UsedCounts, Count, At
    <3> QED
      BY <1>1, <1>4, <2>3, <3>1, <3>2 DEF Tabled
  <2>7. Typed'
    BY <1>1, <2>4 DEF Typed
  <2>8. DOMAIN table' = DOMAIN table
    BY <1>3, <2>2 DEF Tables
  <2>9. CASE iter = NoIter
    <3>1. Iterates' /\ Ahead' = Ahead /\ key \notin Ahead
      BY <1>1, <2>9 DEF Iterates, Ahead
    <3> QED
      BY <1>1, <1>5, <2>1, <2>5, <2>6, <2>7, <3>1 DEF IInv
  <2>10. CASE iter # NoIter
    <3>1. key = iter.entry /\ key # Null
      BY <2>10, DictAssumption
    <3>2. key \notin Ahead /\ iter.index = h /\ iter.index \in 0 .. Len(table)
      BY <1>1, <2>10, <3>1 DEF Iterates, h
    <3>3. h \in Nat
      BY <1>3, <2>1
    <3>4. Past(table', h) = Past(table, h)
      <4> SUFFICES ASSUME NEW x PROVE x \in Past(table', h) <=> x \in Past(table, h)
        OBVIOUS
      <4>1. \A g \in DOMAIN table : h < g => table'[g] = table[g]
        BY <1>3, <2>2, <3>3
      <4>2. x \in Past(table, h) <=> \E g \in DOMAIN table : h < g /\ \E k \in DOMAIN table[g] : table[g][k].key = x
        BY <1>3, <3>3, PastIff
      <4>3. x \in Past(table', h) <=> \E g \in DOMAIN table' : h < g /\ \E k \in DOMAIN table'[g] : table'[g][k].key = x
        BY <2>2, <3>3, PastIff
      <4> QED
        BY <2>8, <4>1, <4>2, <4>3
    <3>5. Slot(table', key) = iter.index
      BY <2>2, <3>2 DEF Slot, h
    <3>6. /\ Ahead' = Ahead
          /\ iter.nextEntry # Null =>
                iter.index > 0 /\ \E k \in DOMAIN table'[iter.index] : table'[iter.index][k].key = iter.nextEntry
      <4>1. CASE iter.nextEntry = Null
        BY <1>1, <2>10, <3>2, <3>4, <4>1, AheadIs DEF AheadOf
      <4>2. CASE iter.nextEntry # Null
        <5> DEFINE p == Position(table[h], iter.nextEntry)
        <5>1. table[h] \in Seq(Entry) /\ \E k \in DOMAIN table[h] : table[h][k].key = iter.nextEntry
          BY <1>1, <1>3, <2>1, <2>10, <3>2, <4>2, ChainRead DEF Iterates
        <5>2. p \in DOMAIN table[h] /\ table[h][p].key = iter.nextEntry
          BY <5>1, PositionAt
        <5>3. Ahead = Past(table, h) \cup From(table[h], p)
          BY <2>10, <3>2, <4>2, AheadIs DEF AheadOf
        <5> HIDE DEF p
        <5>4. i < p
          <6>1. i \in Nat /\ p \in Nat /\ i <= Len(table[h]) /\ Len(table[h]) \in Nat
            BY <1>3, <2>1, <5>2, ChainRead
          <6>2. ~(p <= i)
            <7> SUFFICES ASSUME p <= i PROVE FALSE
              OBVIOUS
            <7>1. i \in p .. Len(table[h])
              BY <6>1
            <7>2. key \in From(table[h], p)
              BY <2>1, <7>1 DEF From, f
            <7> QED
              BY <3>2, <5>3, <7>2
          <6> QED
            BY <6>1, <6>2
        <5>5. /\ From(table'[h], Position(table'[h], iter.nextEntry)) = From(table[h], p)
              /\ \E k \in DOMAIN table'[h] : table'[h][k].key = iter.nextEntry
          BY <1>2, <2>1, <2>2, <2>3, <2>8, <5>2, <5>4, FromStays
        <5>6. Ahead' = Past(table', h) \cup From(table'[h], Position(table'[h], iter.nextEntry))
          BY <1>1, <2>10, <3>2, <4>2, AheadIs DEF AheadOf
        <5>7. h > 0
          BY <1>3, <2>1
        <5> QED
          BY <3>2, <3>4, <5>3, <5>5, <5>6, <5>7
      <4> QED
        BY <4>1, <4>2
    <3>7. Iterates'
      BY <1>1, <2>2, <3>1, <3>2, <3>5, <3>6 DEF Iterates
    <3> QED
      BY <1>1, <1>5, <2>1, <2>5, <2>6, <2>7, <3>2, <3>6, <3>7 DEF IInv
  <2> QED
    BY <2>9, <2>10
<1> QED
  BY <1>1, <1>6, <1>7

\* The steps of dictReplace before it stores, which no caller sees.
Quiet == DoubleSize \/ Allocate \/ NextChain \/ MoveEntry \/ Remap

LEMMA QuietHolds ==
    ASSUME IInv, Quiet
    PROVE  IInv' /\ Stored' = Stored /\ iter = NoIter /\ iter' = NoIter
BY DoubleHolds, AllocateHolds, NextChainHolds, MoveHolds, RemapHolds DEF Quiet

\* Every step is one of these.
LEMMA StepIs ==
    ASSUME IInv, [DictNext]_dvars
    PROVE  \/ UNCHANGED dvars
           \/ \E key \in Keys, val \in Values : ReplaceBegins(key, val)
           \/ Quiet
           \/ StoreEntry
           \/ \E key \in Keys : DeleteEntry(key) /\ (iter = NoIter \/ key = iter.entry)
           \/ ClearTable
           \/ GetIterator
           \/ Advance
<1>1. iter.entry \in Keys \cup {Null}
  BY DEF IInv, Typed
<1> QED
  BY <1>1 DEF DictNext, Quiet

LEMMA NextHolds == IInv /\ [DictNext]_dvars => IInv'
<1> SUFFICES ASSUME IInv, [DictNext]_dvars PROVE IInv'
  OBVIOUS
<1>1. CASE UNCHANGED dvars
  <2>1. table' = table /\ used' = used /\ new' = new /\ task' = task /\ iter' = iter
    BY <1>1 DEF dvars
  <2>2. Ahead' = Ahead
    BY <2>1, AheadIs
  <2> QED
    BY <2>1, <2>2 DEF IInv, Typed, Growing, Tabled, Apart, UsedCounts, Iterates, At
<1>2. CASE \E key \in Keys, val \in Values : ReplaceBegins(key, val)
  BY <1>2, BeginHolds
<1>3. CASE Quiet
  BY <1>3, QuietHolds
<1>4. CASE StoreEntry
  BY <1>4, StoreHolds
<1>5. CASE \E key \in Keys : DeleteEntry(key) /\ (iter = NoIter \/ key = iter.entry)
  BY <1>5, DeleteHolds
<1>6. CASE ClearTable
  BY <1>6, ClearHolds
<1>7. CASE GetIterator
  BY <1>7, GetIteratorHolds
<1>8. CASE Advance
  BY <1>8, AdvanceHolds
<1> QED
  BY <1>1, <1>2, <1>3, <1>4, <1>5, <1>6, <1>7, <1>8, StepIs

\* A step that leaves the entries and the iterator is one that nobody sees.
LEMMA Unseen ==
    ASSUME Stored' = Stored, iter' = iter, Ahead' = Ahead
    PROVE  UNCHANGED <<Contents, iter # NoIter, Ahead>>
<1>1. Contents' = Contents
  BY ContentsAre
<1>2. (iter # NoIter)' = (iter # NoIter)
  OBVIOUS
<1> QED
  BY <1>1, <1>2

LEMMA StoreMaps == IInv /\ StoreEntry => Map!Next
<1> SUFFICES ASSUME IInv, StoreEntry PROVE Map!Next
  OBVIOUS
<1> DEFINE key == task.key
           val == task.val
<1>1. /\ IInv' /\ iter = NoIter /\ iter' = NoIter /\ key \in Keys /\ val \in Values
      /\ \A f : f \in Stored' <=> f = [key |-> key, val |-> val] \/ (f \in Stored /\ f.key # key)
  BY StoreHolds
<1>2. Keyed(Stored) /\ Keyed(Stored')
  BY <1>1, StoredKeyed DEF IInv
<1>3. Ahead = {} /\ Ahead' = {}
  BY <1>1, AheadIs DEF AheadOf
<1>4. PICK e : /\ e.key = key /\ e.val = val
               /\ \A f : f \in Stored' <=> f = e \/ (f \in Stored /\ f.key # e.key)
  BY <1>1
<1>5. MapOf(Stored') = WithKey(MapOf(Stored), e)
  BY <1>2, <1>4, MapPut
<1>6. Contents' = [x \in DOMAIN Contents \cup {key} |-> IF x = key THEN val ELSE Contents[x]]
  BY <1>4, <1>5, ContentsAre DEF WithKey
<1>7. Map!Put(key, val)
  BY <1>1, <1>3, <1>6 DEF Map!Put
<1> QED
  BY <1>1, <1>7 DEF Map!Next

LEMMA DeleteMaps ==
    ASSUME IInv, NEW key \in Keys, DeleteEntry(key), iter = NoIter \/ key = iter.entry
    PROVE  [Map!Next]_<<Contents, iter # NoIter, Ahead>>
<1>1. /\ iter' = iter /\ Ahead' = Ahead
      /\ \/ Stored' = Stored
         \/ key \notin Ahead /\ \E f \in Stored : f.key = key /\ Stored' = Stored \ {f}
  BY DeleteHolds
<1>2. CASE Stored' = Stored
  BY <1>1, <1>2, Unseen
<1>3. CASE key \notin Ahead /\ \E f \in Stored : f.key = key /\ Stored' = Stored \ {f}
  <2>1. PICK f \in Stored : f.key = key /\ Stored' = Stored \ {f}
    BY <1>3
  <2>2. Keyed(Stored)
    BY StoredKeyed DEF IInv
  <2>3. MapOf(Stored \ {f}) = [x \in KeysOf(Stored) \ {f.key} |-> MapOf(Stored)[x]]
    BY <2>1, <2>2, MapRemove
  <2>4. Contents' = [x \in DOMAIN Contents \ {key} |-> Contents[x]]
    BY <2>1, <2>3, ContentsAre
  <2>5. key \in DOMAIN Contents
    BY <2>1, ContentsAre DEF KeysOf
  <2>6. Map!Remove(key)
    BY <1>1, <1>3, <2>4, <2>5 DEF Map!Remove
  <2> QED
    BY <2>6 DEF Map!Next
<1> QED
  BY <1>1, <1>2, <1>3

LEMMA NothingMapped == MapOf({}) = [k \in {} |-> k]
BY DEF MapOf, KeysOf

LEMMA StepMaps == IInv /\ [DictNext]_dvars => [Map!Next]_<<Contents, iter # NoIter, Ahead>>
<1> DEFINE Mapped == [Map!Next]_<<Contents, iter # NoIter, Ahead>>
<1> SUFFICES ASSUME IInv, [DictNext]_dvars PROVE Mapped
  OBVIOUS
<1>0. ASSUME Stored' = Stored, iter = NoIter, iter' = NoIter PROVE Mapped
  BY <1>0, Unseen, AheadIs DEF AheadOf
<1>1. CASE UNCHANGED dvars
  <2>1. table' = table /\ new' = new /\ iter' = iter
    BY <1>1 DEF dvars
  <2> QED
    BY <2>1, Unseen, AheadIs DEF Stored
<1>2. CASE \E key \in Keys, val \in Values : ReplaceBegins(key, val)
  BY <1>0, <1>2, BeginHolds
<1>3. CASE Quiet
  BY <1>0, <1>3, QuietHolds
<1>4. CASE StoreEntry
  BY <1>4, StoreMaps
<1>5. CASE \E key \in Keys : DeleteEntry(key) /\ (iter = NoIter \/ key = iter.entry)
  BY <1>5, DeleteMaps
<1>6. CASE ClearTable
  <2>1. Stored' = {} /\ iter = NoIter /\ iter' = NoIter
    BY <1>6, ClearHolds
  <2>2. Contents' = [k \in {} |-> k] /\ Ahead' = Ahead
    BY <2>1, ContentsAre, NothingMapped, AheadIs DEF AheadOf
  <2>3. Map!Clear
    BY <2>1, <2>2 DEF Map!Clear
  <2> QED
    BY <2>3 DEF Map!Next
<1>7. CASE GetIterator
  <2>1. Stored' = Stored /\ iter = NoIter /\ iter' # NoIter /\ Ahead' = KeysOf(Stored)
    BY <1>7, GetIteratorHolds
  <2>2. Contents' = Contents /\ Ahead' = DOMAIN Contents
    BY <2>1, ContentsAre
  <2>3. Map!Begin
    BY <2>1, <2>2 DEF Map!Begin
  <2> QED
    BY <2>3 DEF Map!Next
<1>8. CASE Advance
  <2>1. Stored' = Stored /\ iter # NoIter
        /\ \/ iter' # NoIter /\ \E k \in Ahead : Ahead' = Ahead \ {k}
           \/ iter' = NoIter /\ Ahead = {} /\ Ahead' = {}
    BY <1>8, AdvanceHolds
  <2>2. Contents' = Contents
    BY <2>1, ContentsAre
  <2>3. CASE iter' # NoIter /\ \E k \in Ahead : Ahead' = Ahead \ {k}
    <3>1. Map!Yield
      BY <2>1, <2>2, <2>3 DEF Map!Yield
    <3> QED
      BY <3>1 DEF Map!Next
  <2>4. CASE iter' = NoIter /\ Ahead = {} /\ Ahead' = {}
    <3>1. Map!End
      BY <2>1, <2>2, <2>4 DEF Map!End
    <3> QED
      BY <3>1 DEF Map!Next
  <2> QED
    BY <2>1, <2>3, <2>4
<1> QED
  BY <1>1, <1>2, <1>3, <1>4, <1>5, <1>6, <1>7, <1>8, StepIs

LEMMA StartMaps == DictInit => IInv /\ Map!Init
<1> SUFFICES ASSUME DictInit PROVE IInv /\ Map!Init
  OBVIOUS
<1>1. IInv /\ Stored = {} /\ iter = NoIter
  BY StartHolds DEF DictInit
<1>2. Contents = [k \in {} |-> k] /\ Ahead = {}
  BY <1>1, ContentsAre, NothingMapped, AheadIs DEF AheadOf
<1> QED
  BY <1>1, <1>2 DEF Map!Init

LEMMA Always == DictSpec => []IInv
BY StartMaps, NextHolds, PTL DEF DictSpec

\* `used` counts the entries of the table whatever keys collide: dictExpand moves every
\* entry although it stops by that count, and finds it zero (dict.c:126).
THEOREM CountIsExact == DictSpec => []UsedCounts
<1>1. IInv => UsedCounts
  BY DEF IInv, Tabled
<1> QED
  BY <1>1, Always, PTL

\* The table implements a map, for any keys, values, hash and first size: growing it
\* loses no entry, a key has one value, the last it was given, and an iteration yields
\* every key once although the caller deletes the entries it is given.
THEOREM TableIsMap == DictSpec => IsMap
BY StartMaps, StepMaps, Always, PTL DEF DictSpec, IsMap, Map!Spec, Map!kvars
=============================================================================
