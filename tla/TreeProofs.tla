------------------------------ MODULE TreeProofs ------------------------------
(***************************************************************************)
(* The theorems of JsonTree: every value has one owner, and a value set at *)
(* a path is found at it.                                                  *)
(***************************************************************************)
EXTENDS JsonTree, TLAPS

-----------------------------------------------------------------------------
(* The inductive invariant                                                 *)

\* The cells that can be, and what is on the stack of the parser and the copy.
CellType ==
    [is : Kinds, parent : Cells \cup {Nobody}, names : Seq(Names), items : Seq(Cells), capacity : Nat]
Frames == [cell : Cells, source : Cells \cup {Nobody}, name : Names \cup {NoName}]

Typed(h) == DOMAIN h \subseteq Cells /\ h \in [DOMAIN h -> CellType]

\* What holds of a value by itself.
Sound(cell) ==
    /\ Injective(cell.items) /\ Injective(cell.names)
    /\ Len(cell.items) <= cell.capacity
    /\ cell.is = AnObject => Len(cell.names) = Len(cell.items)
AllSound(h) == \A c \in DOMAIN h : Sound(h[c])

\* Owners and what they own know each other, and nothing is in itself.
Owned(h) == \A c \in DOMAIN h : \A x \in Items(h, c) : x \in DOMAIN h /\ h[x].parent = c
Listed(h) == \A x \in DOMAIN h :
    h[x].parent # Nobody => h[x].parent \in DOMAIN h /\ x \in Items(h, h[x].parent)
Acyclic(h) == \A c \in DOMAIN h : \A x \in Items(h, c) : c \notin Below(h, x)
Graph(h) == Owned(h) /\ Listed(h) /\ Acyclic(h)

\* A heap in order.
HeapOK(h) == Typed(h) /\ AllSound(h) /\ Graph(h)

\* What is being made has no parent yet, and what it is a copy of is there.
FramesOK(h, m) ==
    /\ m \in Seq(Frames)
    /\ \A k \in DOMAIN m :
          /\ m[k].cell \in DOMAIN h /\ h[m[k].cell].parent = Nobody
          /\ m[k].source # Nobody => m[k].source \in DOMAIN h /\ h[m[k].source].is = h[m[k].cell].is
          /\ k > 1 /\ h[m[k - 1].cell].is = AnObject => m[k].name \in Names
    /\ \A j, k \in DOMAIN m : m[j].cell = m[k].cell => j = k

\* The inductive invariant.
TreeInv == HeapOK(heap) /\ FramesOK(heap, making)
-----------------------------------------------------------------------------
(* What a value owns                                                       *)

\* A set of values that has all the items of its values.
ClosedIn(h, S) == \A y \in S : Items(h, y) \subseteq S

\* A value is below itself, with what is below its items, and nothing else: what is
\* closed and holds it holds all below it.
LEMMA BelowIsLeast ==
    ASSUME NEW h, \A c \in DOMAIN h : Items(h, c) \subseteq DOMAIN h, NEW v \in DOMAIN h
    PROVE  /\ Below(h, v) \subseteq DOMAIN h /\ v \in Below(h, v) /\ ClosedIn(h, Below(h, v))
           /\ \A S : S \subseteq DOMAIN h /\ v \in S /\ ClosedIn(h, S) => Below(h, v) \subseteq S
<1>1. \A x : x \in Below(h, v) <=>
         x \in DOMAIN h /\ \A S \in SUBSET DOMAIN h : v \in S /\ ClosedIn(h, S) => x \in S
  BY DEF Below, ClosedIn
<1>2. Below(h, v) \subseteq DOMAIN h /\ v \in Below(h, v)
  BY <1>1
<1>3. ASSUME NEW y \in Below(h, v), NEW z \in Items(h, y) PROVE z \in Below(h, v)
  <2>1. y \in DOMAIN h /\ z \in DOMAIN h
    BY <1>2, <1>3
  <2>2. ASSUME NEW S \in SUBSET DOMAIN h, v \in S, ClosedIn(h, S) PROVE z \in S
    <3>1. y \in S
      BY <1>1, <2>2, <1>3
    <3> QED
      BY <3>1, <2>2, <1>3 DEF ClosedIn
  <2> QED
    BY <1>1, <2>1, <2>2
<1>4. ASSUME NEW S, S \subseteq DOMAIN h, v \in S, ClosedIn(h, S) PROVE Below(h, v) \subseteq S
  BY <1>1, <1>4
<1> QED
  BY <1>2, <1>3, <1>4 DEF ClosedIn

\* What is below something below v is below v.
LEMMA BelowBelow ==
    ASSUME NEW h, Owned(h), NEW v \in DOMAIN h, NEW x \in Below(h, v)
    PROVE  Below(h, x) \subseteq Below(h, v)
<1>1. \A c \in DOMAIN h : Items(h, c) \subseteq DOMAIN h
  BY DEF Owned
<1>2. Below(h, v) \subseteq DOMAIN h /\ ClosedIn(h, Below(h, v))
  BY <1>1, BelowIsLeast
<1>3. x \in DOMAIN h
  BY <1>2
<1> QED
  BY <1>1, <1>2, <1>3, BelowIsLeast

\* What is below v, but v, is there with its parent.
LEMMA ParentBelow ==
    ASSUME NEW h, Owned(h), NEW v \in DOMAIN h, NEW x \in Below(h, v), x # v
    PROVE  h[x].parent \in Below(h, v)
<1>1. \A c \in DOMAIN h : Items(h, c) \subseteq DOMAIN h
  BY DEF Owned
<1>2. Below(h, v) \subseteq DOMAIN h /\ v \in Below(h, v) /\ ClosedIn(h, Below(h, v))
  BY <1>1, BelowIsLeast
<1> DEFINE S == {y \in Below(h, v) : y = v \/ h[y].parent \in Below(h, v)}
<1>3. S \subseteq DOMAIN h /\ v \in S
  BY <1>2
<1>4. ASSUME NEW y \in S, NEW z \in Items(h, y) PROVE z \in S
  <2>1. y \in Below(h, v) /\ y \in DOMAIN h
    BY <1>2
  <2>2. z \in Below(h, v) /\ h[z].parent = y
    BY <2>1, <1>2, <1>4 DEF Owned, ClosedIn
  <2> QED
    BY <2>1, <2>2
<1>5. ClosedIn(h, S)
  BY <1>4 DEF ClosedIn
<1>6. Below(h, v) \subseteq S
  <2> HIDE DEF S
  <2> QED
    BY <1>1, <1>3, <1>5, BelowIsLeast
<1> QED
  BY <1>6
-----------------------------------------------------------------------------
(* Graphs that come out of graphs                                          *)

\* Where items go away, what is below a value does not grow.
LEMMA BelowShrinks ==
    ASSUME NEW h, Owned(h), NEW g, DOMAIN g \subseteq DOMAIN h,
           \A y \in DOMAIN g : Items(g, y) \subseteq Items(h, y) /\ Items(g, y) \subseteq DOMAIN g,
           NEW v \in DOMAIN g
    PROVE  Below(g, v) \subseteq Below(h, v)
<1>1. \A c \in DOMAIN h : Items(h, c) \subseteq DOMAIN h
  BY DEF Owned
<1>2. v \in Below(h, v) /\ ClosedIn(h, Below(h, v))
  BY <1>1, BelowIsLeast
<1> DEFINE S == Below(h, v) \cap DOMAIN g
<1>3. S \subseteq DOMAIN g /\ v \in S /\ ClosedIn(g, S)
  BY <1>2 DEF ClosedIn
<1>4. Below(g, v) \subseteq S
  <2> HIDE DEF S
  <2> QED
    BY <1>3, BelowIsLeast
<1> QED
  BY <1>4

\* Freeing: what is taken away is closed, the others keep what is left.
LEMMA CutGraph ==
    ASSUME NEW h, Graph(h), NEW R, R \subseteq DOMAIN h, ClosedIn(h, R), NEW g, DOMAIN g = DOMAIN h \ R,
           \A y \in DOMAIN g : g[y].parent = h[y].parent, \A y \in DOMAIN g : Items(g, y) = Items(h, y) \ R
    PROVE  Graph(g)
<1>1. Owned(h) /\ Listed(h) /\ Acyclic(h)
  BY DEF Graph
<1>2. ASSUME NEW c \in DOMAIN g, NEW x \in Items(g, c) PROVE x \in DOMAIN g /\ g[x].parent = c
  <2>1. c \in DOMAIN h /\ x \in Items(h, c) /\ x \notin R
    BY <1>2
  <2>2. x \in DOMAIN h /\ h[x].parent = c
    BY <1>1, <2>1 DEF Owned
  <2> QED
    BY <2>1, <2>2
<1>3. ASSUME NEW x \in DOMAIN g, g[x].parent # Nobody
      PROVE  g[x].parent \in DOMAIN g /\ x \in Items(g, g[x].parent)
  <2>1. x \in DOMAIN h /\ x \notin R /\ h[x].parent # Nobody /\ g[x].parent = h[x].parent
    BY <1>3
  <2>2. h[x].parent \in DOMAIN h /\ x \in Items(h, h[x].parent)
    BY <1>1, <2>1 DEF Listed
  <2>3. h[x].parent \notin R
    BY <2>1, <2>2 DEF ClosedIn
  <2> QED
    BY <2>1, <2>2, <2>3
<1>4. ASSUME NEW c \in DOMAIN g, NEW x \in Items(g, c) PROVE c \notin Below(g, x)
  <2>1. x \in DOMAIN g /\ \A y \in DOMAIN g : Items(g, y) \subseteq Items(h, y) /\ Items(g, y) \subseteq DOMAIN g
    BY <1>2, <1>4
  <2>2. Below(g, x) \subseteq Below(h, x)
    BY <1>1, <2>1, BelowShrinks
  <2>3. c \notin Below(h, x)
    BY <1>1, <1>4 DEF Acyclic
  <2> QED
    BY <2>2, <2>3
<1> QED
  BY <1>2, <1>3, <1>4 DEF Graph, Owned, Listed, Acyclic

\* Attaching: a value without a parent goes into one that is not in it.
LEMMA LinkedGraph ==
    ASSUME NEW h, Graph(h), NEW c \in DOMAIN h, NEW v \in DOMAIN h, h[v].parent = Nobody,
           Nobody \notin DOMAIN h, c \notin Below(h, v), NEW g, DOMAIN g = DOMAIN h,
           \A y \in DOMAIN h : g[y].parent = IF y = v THEN c ELSE h[y].parent,
           \A y \in DOMAIN h : Items(g, y) = IF y = c THEN Items(h, c) \cup {v} ELSE Items(h, y)
    PROVE  Graph(g)
<1>1. Owned(h) /\ Listed(h) /\ Acyclic(h)
  BY DEF Graph
<1>2. ASSUME NEW d \in DOMAIN g, NEW x \in Items(g, d) PROVE x \in DOMAIN g /\ g[x].parent = d
  <2>1. CASE d = c /\ x = v
    BY <2>1
  <2>2. CASE x \in Items(h, d)
    <3>1. x \in DOMAIN h /\ h[x].parent = d
      BY <1>1, <2>2 DEF Owned
    <3>2. x # v
      BY <3>1
    <3> QED
      BY <3>1, <3>2
  <2> QED
    BY <2>1, <2>2, <1>2
<1>3. ASSUME NEW x \in DOMAIN g, g[x].parent # Nobody
      PROVE  g[x].parent \in DOMAIN g /\ x \in Items(g, g[x].parent)
  <2>1. CASE x = v
    BY <2>1
  <2>2. CASE x # v
    <3>1. g[x].parent = h[x].parent /\ h[x].parent \in DOMAIN h /\ x \in Items(h, h[x].parent)
      BY <1>1, <2>2, <1>3 DEF Listed
    <3> QED
      BY <3>1
  <2> QED
    BY <2>1, <2>2
<1>4. /\ \A y \in DOMAIN h : Items(h, y) \subseteq DOMAIN h
      /\ \A y \in DOMAIN g : Items(g, y) \subseteq DOMAIN g
  BY <1>1, <1>2 DEF Owned
<1>5. Below(h, v) \subseteq DOMAIN h /\ v \in Below(h, v) /\ ClosedIn(h, Below(h, v))
  BY <1>4, BelowIsLeast
<1>6. ASSUME NEW d \in DOMAIN g, NEW x \in Items(g, d) PROVE d \notin Below(g, x)
  <2>1. x \in DOMAIN h
    BY <1>2, <1>6
  <2>2. Below(h, x) \subseteq DOMAIN h /\ x \in Below(h, x) /\ ClosedIn(h, Below(h, x))
    BY <1>4, <2>1, BelowIsLeast
  <2>3. CASE c \notin Below(h, x)
    <3>1. ClosedIn(g, Below(h, x))
      BY <2>2, <2>3 DEF ClosedIn
    <3>2. Below(g, x) \subseteq Below(h, x)
      BY <1>4, <2>1, <2>2, <3>1, BelowIsLeast
    <3>3. CASE d = c
      BY <3>2, <3>3, <2>3
    <3>4. CASE d # c
      <4>1. x \in Items(h, d)
        BY <1>6, <3>4
      <4>2. d \notin Below(h, x)
        BY <4>1, <1>1 DEF Acyclic
      <4> QED
        BY <4>2, <3>2
    <3> QED
      BY <3>3, <3>4
  <2>4. CASE c \in Below(h, x)
    <3> DEFINE S == Below(h, x) \cup Below(h, v)
    <3>1. S \subseteq DOMAIN g /\ x \in S
      BY <1>5, <2>2
    <3>2. ClosedIn(g, S)
      BY <1>5, <2>2 DEF ClosedIn
    <3>3. Below(g, x) \subseteq S
      <4> HIDE DEF S
      <4> QED
        BY <1>4, <2>1, <3>1, <3>2, BelowIsLeast
    <3>4. x # v
      BY <2>4
    <3>5. x \in Items(h, d)
      BY <1>6, <3>4
    <3>6. d \notin Below(h, x)
      BY <3>5, <1>1 DEF Acyclic
    <3>7. ASSUME d \in Below(h, v) PROVE FALSE
      <4>1. x \in Below(h, v)
        BY <3>5, <3>7, <1>5 DEF ClosedIn
      <4>2. Below(h, x) \subseteq Below(h, v)
        BY <4>1, <1>1, BelowBelow
      <4> QED
        BY <4>2, <2>4
    <3> QED
      BY <3>3, <3>6, <3>7
  <2> QED
    BY <2>3, <2>4
<1> QED
  BY <1>2, <1>3, <1>6 DEF Graph, Owned, Listed, Acyclic

\* A new value has nothing in it and is in nothing.
LEMMA FreshGraph ==
    ASSUME NEW h, Graph(h), NEW n, n \notin DOMAIN h, n # Nobody, NEW g, DOMAIN g = DOMAIN h \cup {n},
           \A y \in DOMAIN h : g[y] = h[y], g[n].parent = Nobody, Items(g, n) = {}
    PROVE  Graph(g)
<1>1. Owned(h) /\ Listed(h) /\ Acyclic(h)
  BY DEF Graph
<1>2. \A y \in DOMAIN h : Items(g, y) = Items(h, y)
  BY DEF Items
<1>3. ASSUME NEW c \in DOMAIN g, NEW x \in Items(g, c) PROVE c \in DOMAIN h /\ x \in DOMAIN h /\ g[x].parent = c
  BY <1>1, <1>2, <1>3 DEF Owned
<1>4. ASSUME NEW x \in DOMAIN g, g[x].parent # Nobody
      PROVE  g[x].parent \in DOMAIN g /\ x \in Items(g, g[x].parent)
  BY <1>1, <1>2, <1>4 DEF Listed
<1>5. ASSUME NEW c \in DOMAIN g, NEW x \in Items(g, c) PROVE c \notin Below(g, x)
  <2>1. c \in DOMAIN h /\ x \in DOMAIN h /\ x \in Items(h, c)
    BY <1>2, <1>3, <1>5
  <2>2. /\ \A y \in DOMAIN h : Items(h, y) \subseteq DOMAIN h
        /\ \A y \in DOMAIN g : Items(g, y) \subseteq DOMAIN g
    BY <1>1, <1>3 DEF Owned
  <2>3. Below(h, x) \subseteq DOMAIN h /\ x \in Below(h, x) /\ ClosedIn(h, Below(h, x))
    BY <2>1, <2>2, BelowIsLeast
  <2>4. Below(h, x) \subseteq DOMAIN g /\ ClosedIn(g, Below(h, x))
    BY <2>3, <1>2 DEF ClosedIn
  <2>5. Below(g, x) \subseteq Below(h, x)
    BY <2>1, <2>2, <2>3, <2>4, BelowIsLeast
  <2>6. c \notin Below(h, x)
    BY <1>1, <2>1 DEF Acyclic
  <2> QED
    BY <2>5, <2>6
<1> QED
  BY <1>3, <1>4, <1>5 DEF Graph, Owned, Listed, Acyclic
-----------------------------------------------------------------------------
(* Sequences of members                                                    *)

\* The elements of a sequence.
Elems(seq) == {seq[i] : i \in DOMAIN seq}

\* Both ways of closing the gap keep the other elements, each once.
LEMMA ShiftedElems ==
    ASSUME NEW S, NEW seq \in Seq(S), NEW i \in DOMAIN seq, Injective(seq)
    PROVE  /\ Shifted(seq, i) \in Seq(S) /\ Len(Shifted(seq, i)) = Len(seq) - 1
           /\ Injective(Shifted(seq, i)) /\ Elems(Shifted(seq, i)) = Elems(seq) \ {seq[i]}
<1> DEFINE t == Shifted(seq, i)
           n == Len(seq)
<1>1. n \in Nat /\ DOMAIN seq = 1 .. n /\ i \in 1 .. n /\ \A j \in 1 .. n : seq[j] \in S
  OBVIOUS
<1>2. /\ DOMAIN t = 1 .. n - 1
      /\ \A j \in 1 .. n - 1 : t[j] = IF j < i THEN seq[j] ELSE seq[j + 1]
  BY DEF Shifted
<1>3. t = [j \in 1 .. n - 1 |-> IF j < i THEN seq[j] ELSE seq[j + 1]]
  BY DEF Shifted
<1>4. n - 1 \in Nat /\ \A j \in 1 .. n - 1 : t[j] \in S
  BY <1>1, <1>2
<1>5. t \in Seq(S) /\ Len(t) = n - 1
  <2>1. t \in [1 .. n - 1 -> S]
    BY <1>3, <1>4
  <2> HIDE DEF t, n
  <2> QED
    BY <2>1, <1>4
<1>6. ASSUME NEW j \in DOMAIN t, NEW k \in DOMAIN t, t[j] = t[k] PROVE j = k
  <2>1. j \in 1 .. n - 1 /\ k \in 1 .. n - 1
    BY <1>2
  <2>2. \A a, b \in 1 .. n : seq[a] = seq[b] => a = b
    BY <1>1 DEF Injective
  <2> HIDE DEF t, n
  <2> QED
    BY <1>1, <1>2, <1>6, <2>1, <2>2
<1>7. ASSUME NEW e \in Elems(t) PROVE e \in Elems(seq) \ {seq[i]}
  <2>1. PICK j \in 1 .. n - 1 : e = t[j]
    BY <1>2 DEF Elems
  <2>2. \A a, b \in 1 .. n : seq[a] = seq[b] => a = b
    BY <1>1 DEF Injective
  <2>3. PICK k \in 1 .. n : k # i /\ e = seq[k]
    <3> HIDE DEF t, n
    <3> QED
      BY <1>1, <1>2, <2>1
  <2> QED
    BY <1>1, <2>2, <2>3 DEF Elems
<1>8. ASSUME NEW e \in Elems(seq) \ {seq[i]} PROVE e \in Elems(t)
  <2>1. PICK k \in 1 .. n : e = seq[k] /\ k # i
    BY <1>1 DEF Elems
  <2>2. PICK j \in 1 .. n - 1 : t[j] = e
    <3>1. CASE k < i
      <4>1. k \in 1 .. n - 1
        BY <1>1, <3>1
      <4> QED
        BY <4>1, <2>1, <1>2, <3>1
    <3>2. CASE k > i
      <4>1. k - 1 \in 1 .. n - 1 /\ ~(k - 1 < i) /\ k - 1 + 1 = k
        BY <1>1, <3>2
      <4> HIDE DEF t, n
      <4> QED
        BY <4>1, <2>1, <1>2
    <3> QED
      BY <1>1, <2>1, <3>1, <3>2
  <2> QED
    BY <1>2, <2>2 DEF Elems
<1> QED
  BY <1>5, <1>6, <1>7, <1>8 DEF Injective

\* The last element in the place of the one that goes.
LEMMA FilledElems ==
    ASSUME NEW S, NEW seq \in Seq(S), NEW i \in DOMAIN seq, Injective(seq)
    PROVE  /\ Filled(seq, i) \in Seq(S) /\ Len(Filled(seq, i)) = Len(seq) - 1
           /\ Injective(Filled(seq, i)) /\ Elems(Filled(seq, i)) = Elems(seq) \ {seq[i]}
<1> DEFINE t == Filled(seq, i)
           n == Len(seq)
<1>1. n \in Nat /\ DOMAIN seq = 1 .. n /\ i \in 1 .. n /\ \A j \in 1 .. n : seq[j] \in S
  OBVIOUS
<1>2. /\ DOMAIN t = 1 .. n - 1
      /\ \A j \in 1 .. n - 1 : t[j] = IF j = i THEN seq[n] ELSE seq[j]
  BY DEF Filled
<1>3. t = [j \in 1 .. n - 1 |-> IF j = i THEN seq[n] ELSE seq[j]]
  BY DEF Filled
<1>4. n - 1 \in Nat /\ \A j \in 1 .. n - 1 : t[j] \in S
  BY <1>1, <1>2
<1>5. t \in Seq(S) /\ Len(t) = n - 1
  <2>1. t \in [1 .. n - 1 -> S]
    BY <1>3, <1>4
  <2> HIDE DEF t, n
  <2> QED
    BY <2>1, <1>4
<1>6. ASSUME NEW j \in DOMAIN t, NEW k \in DOMAIN t, t[j] = t[k] PROVE j = k
  <2>1. j \in 1 .. n - 1 /\ k \in 1 .. n - 1
    BY <1>2
  <2>2. \A a, b \in 1 .. n : seq[a] = seq[b] => a = b
    BY <1>1 DEF Injective
  <2> HIDE DEF t, n
  <2> QED
    BY <1>1, <1>2, <1>6, <2>1, <2>2
<1>7. ASSUME NEW e \in Elems(t) PROVE e \in Elems(seq) \ {seq[i]}
  <2>1. PICK j \in 1 .. n - 1 : e = t[j]
    BY <1>2 DEF Elems
  <2>2. \A a, b \in 1 .. n : seq[a] = seq[b] => a = b
    BY <1>1 DEF Injective
  <2>3. PICK k \in 1 .. n : k # i /\ e = seq[k]
    <3> HIDE DEF t, n
    <3> QED
      BY <1>1, <1>2, <2>1
  <2> QED
    BY <1>1, <2>2, <2>3 DEF Elems
<1>8. ASSUME NEW e \in Elems(seq) \ {seq[i]} PROVE e \in Elems(t)
  <2>1. PICK k \in 1 .. n : e = seq[k] /\ k # i
    BY <1>1 DEF Elems
  <2>2. PICK j \in 1 .. n - 1 : t[j] = e
    <3>1. CASE k < n
      <4>1. k \in 1 .. n - 1
        BY <1>1, <3>1
      <4> QED
        BY <4>1, <2>1, <1>2
    <3>2. CASE k = n
      <4>1. i \in 1 .. n - 1
        BY <1>1, <2>1, <3>2
      <4> QED
        BY <4>1, <2>1, <1>2, <3>2
    <3> HIDE DEF t, n
    <3>3. k < n \/ k = n
      BY <1>1
    <3> QED
      BY <3>1, <3>2, <3>3
  <2> QED
    BY <1>2, <2>2 DEF Elems
<1> QED
  BY <1>5, <1>6, <1>7, <1>8 DEF Injective

\* One more element, which is not there yet.
LEMMA AppendElems ==
    ASSUME NEW S, NEW seq \in Seq(S), Injective(seq), NEW e \in S, e \notin Elems(seq)
    PROVE  /\ Append(seq, e) \in Seq(S) /\ Len(Append(seq, e)) = Len(seq) + 1
           /\ Injective(Append(seq, e)) /\ Elems(Append(seq, e)) = Elems(seq) \cup {e}
<1> DEFINE t == Append(seq, e)
           n == Len(seq)
<1>1. n \in Nat /\ DOMAIN seq = 1 .. n /\ \A j \in 1 .. n : seq[j] # e
  BY DEF Elems
<1>2. t \in Seq(S) /\ Len(t) = n + 1
  OBVIOUS
<1>3. DOMAIN t = 1 .. n + 1 /\ t[n + 1] = e /\ \A j \in 1 .. n : t[j] = seq[j]
  BY <1>2
<1>4. \A a, b \in 1 .. n : seq[a] = seq[b] => a = b
  BY <1>1 DEF Injective
<1> HIDE DEF t, n
<1>5. ASSUME NEW j \in DOMAIN t, NEW k \in DOMAIN t, t[j] = t[k] PROVE j = k
  <2>1. (j \in 1 .. n \/ j = n + 1) /\ (k \in 1 .. n \/ k = n + 1)
    BY <1>1, <1>3
  <2> QED
    BY <1>1, <1>3, <1>4, <1>5, <2>1
<1>6. \A x : x \in Elems(t) <=> \E j \in 1 .. n + 1 : x = t[j]
  BY <1>3 DEF Elems
<1>7. \A x : x \in Elems(seq) <=> \E j \in 1 .. n : x = seq[j]
  BY <1>1 DEF Elems
<1>8. 1 .. n + 1 = (1 .. n) \cup {n + 1}
  BY <1>1
<1>9. Elems(t) = Elems(seq) \cup {e}
  BY <1>3, <1>6, <1>7, <1>8
<1> QED
  BY <1>2, <1>5, <1>9 DEF Injective, t, n

\* One element in the place of another.
LEMMA ReplacedElems ==
    ASSUME NEW S, NEW seq \in Seq(S), Injective(seq), NEW i \in DOMAIN seq, NEW e \in S, e \notin Elems(seq)
    PROVE  /\ [seq EXCEPT ![i] = e] \in Seq(S) /\ Len([seq EXCEPT ![i] = e]) = Len(seq)
           /\ Injective([seq EXCEPT ![i] = e])
           /\ Elems([seq EXCEPT ![i] = e]) = (Elems(seq) \ {seq[i]}) \cup {e}
<1> DEFINE t == [seq EXCEPT ![i] = e]
           n == Len(seq)
<1>1. n \in Nat /\ DOMAIN seq = 1 .. n /\ i \in 1 .. n /\ \A j \in 1 .. n : seq[j] # e
  BY DEF Elems
<1>2. t \in Seq(S) /\ Len(t) = n
  OBVIOUS
<1>3. DOMAIN t = 1 .. n /\ t[i] = e /\ \A j \in 1 .. n : j # i => t[j] = seq[j]
  BY <1>1
<1>4. \A a, b \in 1 .. n : seq[a] = seq[b] => a = b
  BY <1>1 DEF Injective
<1> HIDE DEF t, n
<1>5. ASSUME NEW j \in DOMAIN t, NEW k \in DOMAIN t, t[j] = t[k] PROVE j = k
  BY <1>1, <1>3, <1>4, <1>5
<1>6. \A x : x \in Elems(t) <=> \E j \in 1 .. n : x = t[j]
  BY <1>3 DEF Elems
<1>7. \A x : x \in Elems(seq) <=> \E j \in 1 .. n : x = seq[j]
  BY <1>1 DEF Elems
<1>8. Elems(t) = (Elems(seq) \ {seq[i]}) \cup {e}
  <2>1. ASSUME NEW x \in Elems(t) PROVE x \in (Elems(seq) \ {seq[i]}) \cup {e}
    BY <1>1, <1>3, <1>4, <1>6, <1>7, <2>1
  <2>2. ASSUME NEW x \in (Elems(seq) \ {seq[i]}) \cup {e} PROVE x \in Elems(t)
    BY <1>1, <1>3, <1>6, <1>7, <2>2
  <2> QED
    BY <2>1, <2>2
<1> QED
  BY <1>2, <1>5, <1>8 DEF Injective, t, n
-----------------------------------------------------------------------------
(* Heaps that come out of heaps                                            *)

\* The parts of a cell, and a cell from its parts.
LEMMA CellParts ==
    ASSUME NEW cell \in CellType
    PROVE  /\ cell.is \in Kinds /\ cell.parent \in Cells \cup {Nobody} /\ cell.names \in Seq(Names)
           /\ cell.items \in Seq(Cells) /\ cell.capacity \in Nat
           /\ cell = [is |-> cell.is, parent |-> cell.parent, names |-> cell.names,
                      items |-> cell.items, capacity |-> cell.capacity]
  BY DEF CellType

\* Cells are not Nobody.
LEMMA NobodyIsNoCell == ASSUME NEW h, Typed(h) PROVE Nobody \notin DOMAIN h
  BY TreeAssumption DEF Typed, Cells, Nobody

\* The items of a value are values of the heap.
LEMMA ItemsAreCells ==
    ASSUME NEW h, Owned(h), NEW c \in DOMAIN h PROVE Items(h, c) \subseteq DOMAIN h
  BY DEF Owned

\* The memory that malloc gives.
LEMMA FreeCellIsFree ==
    ASSUME NEW h, Typed(h), DOMAIN h # Cells PROVE FreeCell(h) \in Cells /\ FreeCell(h) \notin DOMAIN h
<1>1. \E c \in Cells : c \notin DOMAIN h
  BY DEF Typed
<1> QED
  BY <1>1 DEF FreeCell

\* g is h with a new value in the cell n.
HasAllocated(h, g, n, kind) ==
    /\ HeapOK(g) /\ DOMAIN g = DOMAIN h \cup {n} /\ n \in Cells /\ n \notin DOMAIN h
    /\ g[n] = FreshCell(kind) /\ \A x \in DOMAIN h : g[x] = h[x]

\* A new value leaves a heap in order.
LEMMA AllocatedOK ==
    ASSUME NEW h, HeapOK(h), DOMAIN h # Cells, NEW kind \in Kinds
    PROVE  HasAllocated(h, Allocated(h, kind), FreeCell(h), kind)
<1> DEFINE n == FreeCell(h)
           g == Allocated(h, kind)
<1>1. Typed(h) /\ AllSound(h) /\ Graph(h)
  BY DEF HeapOK
<1>2. n \in Cells /\ n \notin DOMAIN h
  BY <1>1, FreeCellIsFree
<1>3. g = [x \in DOMAIN h \cup {n} |-> IF x = n THEN FreshCell(kind) ELSE h[x]]
  BY DEF Allocated
<1> HIDE DEF n, g
<1>4. DOMAIN g = DOMAIN h \cup {n} /\ g[n] = FreshCell(kind) /\ \A x \in DOMAIN h : g[x] = h[x]
  BY <1>2, <1>3
<1>5. FreshCell(kind) \in CellType /\ Sound(FreshCell(kind))
  BY DEF FreshCell, CellType, Sound, Injective
<1>6. Typed(g)
  <2>1. \A x \in DOMAIN g : g[x] \in CellType
    BY <1>1, <1>4, <1>5 DEF Typed
  <2> QED
    BY <1>1, <1>2, <1>3, <1>4, <2>1 DEF Typed
<1>7. AllSound(g)
  BY <1>1, <1>4, <1>5 DEF AllSound
<1>8. g[n].parent = Nobody /\ Items(g, n) = {}
  BY <1>4 DEF FreshCell, Items
<1>9. n # Nobody
  BY <1>2, TreeAssumption DEF Cells, Nobody
<1>10. Graph(g)
  BY <1>1, <1>2, <1>4, <1>8, <1>9, FreshGraph
<1> QED
  BY <1>2, <1>4, <1>6, <1>7, <1>10 DEF HeapOK, HasAllocated, n, g

\* Outside of what is freed, nothing is left that was in it, but the values
\* that are freed themselves.
LEMMA OutsideBelow ==
    ASSUME NEW h, Owned(h), NEW X, X \subseteq DOMAIN h
    PROVE  LET R == UNION {Below(h, x) : x \in X}
           IN  /\ X \subseteq R /\ R \subseteq DOMAIN h /\ ClosedIn(h, R)
               /\ \A y \in DOMAIN h \ R : \A z \in Items(h, y) : z \in R => z \in X
<1> DEFINE R == UNION {Below(h, x) : x \in X}
<1>1. \A c \in DOMAIN h : Items(h, c) \subseteq DOMAIN h
  BY DEF Owned
<1>2. \A x \in X : Below(h, x) \subseteq DOMAIN h /\ x \in Below(h, x) /\ ClosedIn(h, Below(h, x))
  BY <1>1, BelowIsLeast
<1>3. X \subseteq R /\ R \subseteq DOMAIN h
  BY <1>2
<1>4. ASSUME NEW y \in R PROVE Items(h, y) \subseteq R
  <2>1. PICK x \in X : y \in Below(h, x)
    BY <1>4
  <2>2. Items(h, y) \subseteq Below(h, x)
    BY <1>2, <2>1 DEF ClosedIn
  <2> QED
    BY <2>2
<1>5. ASSUME NEW y \in DOMAIN h \ R, NEW z \in Items(h, y), z \in R, z \notin X PROVE FALSE
  <2>1. PICK x \in X : z \in Below(h, x)
    BY <1>5
  <2>2. x # z /\ x \in DOMAIN h
    BY <1>5
  <2>3. h[z].parent \in Below(h, x)
    BY <2>1, <2>2, ParentBelow
  <2>4. h[z].parent = y
    BY <1>5 DEF Owned
  <2> QED
    BY <2>3, <2>4
<1> QED
  BY <1>3, <1>4, <1>5 DEF ClosedIn

\* A value that is there is freed as one of a set of one.
LEMMA OutsideOne ==
    ASSUME NEW h, Owned(h), NEW x \in DOMAIN h
    PROVE  /\ x \in Below(h, x) /\ Below(h, x) \subseteq DOMAIN h /\ ClosedIn(h, Below(h, x))
           /\ \A y \in DOMAIN h \ Below(h, x) : \A z \in Items(h, y) : z \in Below(h, x) => z = x
<1> DEFINE R == UNION {Below(h, y) : y \in {x}}
<1>1. R = Below(h, x)
  OBVIOUS
<1>2. {x} \subseteq DOMAIN h
  OBVIOUS
<1>3. /\ {x} \subseteq R /\ R \subseteq DOMAIN h /\ ClosedIn(h, R)
      /\ \A y \in DOMAIN h \ R : \A z \in Items(h, y) : z \in R => z \in {x}
  BY <1>2, OutsideBelow
<1> HIDE DEF R
<1> QED
  BY <1>1, <1>3

\* Values without a parent are freed with all they own.
LEMMA WithoutOK ==
    ASSUME NEW h, HeapOK(h), NEW X, X \subseteq DOMAIN h, \A x \in X : h[x].parent = Nobody,
           NEW R, R = UNION {Below(h, x) : x \in X}
    PROVE  HeapOK(Without(h, R))
<1> DEFINE g == Without(h, R)
<1>1. Typed(h) /\ AllSound(h) /\ Graph(h) /\ Owned(h) /\ Nobody \notin DOMAIN h
  BY NobodyIsNoCell DEF HeapOK, Graph
<1>2. /\ X \subseteq R /\ R \subseteq DOMAIN h /\ ClosedIn(h, R)
      /\ \A y \in DOMAIN h \ R : \A z \in Items(h, y) : z \in R => z \in X
  BY <1>1, OutsideBelow
<1>3. g = [x \in DOMAIN h \ R |-> h[x]]
  BY DEF Without
<1> HIDE DEF g
<1>4. DOMAIN g = DOMAIN h \ R /\ \A y \in DOMAIN g : g[y] = h[y] /\ Items(g, y) = Items(h, y)
  BY <1>3 DEF Items
<1>5. \A y \in DOMAIN g : Items(h, y) = Items(h, y) \ R
  <2>1. ASSUME NEW y \in DOMAIN g, NEW z \in Items(h, y), z \in R PROVE FALSE
    <3>1. z \in X /\ h[z].parent = y /\ y \in DOMAIN h
      BY <1>1, <1>2, <1>4, <2>1 DEF Owned
    <3> QED
      BY <3>1, <1>1
  <2> QED
    BY <2>1
<1>6. /\ \A y \in DOMAIN g : g[y].parent = h[y].parent
      /\ \A y \in DOMAIN g : Items(g, y) = Items(h, y) \ R
  BY <1>4, <1>5
<1>7. Graph(g)
  BY <1>1, <1>2, <1>4, <1>6, CutGraph
<1>8. Typed(g) /\ AllSound(g)
  BY <1>1, <1>3, <1>4 DEF Typed, AllSound
<1> QED
  BY <1>7, <1>8 DEF HeapOK, g

\* A value is freed and taken out of its owner.
LEMMA RemovedGraph ==
    ASSUME NEW h, Graph(h), NEW c \in DOMAIN h, NEW x \in Items(h, c), NEW g,
           DOMAIN g = DOMAIN h \ Below(h, x),
           \A y \in DOMAIN g : g[y].parent = h[y].parent,
           \A y \in DOMAIN g : Items(g, y) = IF y = c THEN Items(h, c) \ {x} ELSE Items(h, y)
    PROVE  Graph(g) /\ c \in DOMAIN g
<1>1. Owned(h) /\ Acyclic(h) /\ x \in DOMAIN h /\ h[x].parent = c
  BY DEF Graph, Owned
<1>2. /\ x \in Below(h, x) /\ Below(h, x) \subseteq DOMAIN h /\ ClosedIn(h, Below(h, x))
      /\ \A y \in DOMAIN h \ Below(h, x) : \A z \in Items(h, y) : z \in Below(h, x) => z = x
  BY <1>1, OutsideOne
<1>3. c \in DOMAIN g
  BY <1>1 DEF Acyclic
<1>4. ASSUME NEW y \in DOMAIN g PROVE Items(g, y) = Items(h, y) \ Below(h, x)
  <2>1. \A z \in Items(h, y) : z \in Below(h, x) => z = x
    BY <1>2, <1>4
  <2>2. CASE y = c
    BY <1>2, <1>4, <2>1, <2>2
  <2>3. CASE y # c
    <3>1. x \notin Items(h, y)
      BY <1>1, <1>4, <2>3 DEF Owned
    <3> QED
      BY <1>4, <2>1, <2>3, <3>1
  <2> QED
    BY <2>2, <2>3
<1>5. Graph(g)
  BY <1>2, <1>4, CutGraph
<1> QED
  BY <1>3, <1>5
-----------------------------------------------------------------------------
(* What attaches                                                           *)

\* A container with one value more leaves a heap in order: the value had no parent,
\* and the container is not in it.
LEMMA AddedOK ==
    ASSUME NEW h, HeapOK(h), NEW c \in DOMAIN h, NEW v \in DOMAIN h, h[v].parent = Nobody,
           c \notin Below(h, v), NEW g, Typed(g), DOMAIN g = DOMAIN h,
           Sound(g[c]), g[c].parent = h[c].parent, Items(g, c) = Items(h, c) \cup {v},
           g[v] = [h[v] EXCEPT !.parent = c], \A x \in DOMAIN h : x # c /\ x # v => g[x] = h[x]
    PROVE  HeapOK(g)
<1>1. Typed(h) /\ AllSound(h) /\ Graph(h) /\ Owned(h) /\ Nobody \notin DOMAIN h
  BY NobodyIsNoCell DEF HeapOK, Graph
<1>2. c # v
  BY <1>1, OutsideOne
<1>4. h[v] \in CellType /\ c \in Cells
  BY <1>1 DEF Typed
<1>5. g[v] \in CellType /\ g[v].parent = c /\ g[v].items = h[v].items /\ g[v].names = h[v].names
      /\ g[v].capacity = h[v].capacity /\ g[v].is = h[v].is
  BY <1>4 DEF CellType
<1>6. \A x \in DOMAIN h : g[x].parent = IF x = v THEN c ELSE h[x].parent
  BY <1>2, <1>5
<1>7. ASSUME NEW x \in DOMAIN h PROVE Items(g, x) = IF x = c THEN Items(h, c) \cup {v} ELSE Items(h, x)
  <2>1. CASE x = c
    BY <2>1
  <2>2. CASE x = v
    <3>1. Items(g, v) = Items(h, v)
      BY <1>5 DEF Items
    <3> QED
      BY <2>2, <3>1, <1>2
  <2>3. CASE x # c /\ x # v
    BY <2>3 DEF Items
  <2> QED
    BY <2>1, <2>2, <2>3
<1>8. Graph(g)
  BY <1>1, <1>6, <1>7, LinkedGraph
<1>9. AllSound(g)
  <2>1. ASSUME NEW x \in DOMAIN g PROVE Sound(g[x])
    <3>1. Sound(h[x])
      BY <1>1 DEF AllSound
    <3>2. CASE x = v
      BY <3>1, <3>2, <1>5 DEF Sound
    <3> QED
      BY <3>1, <3>2
  <2> QED
    BY <2>1 DEF AllSound
<1> QED
  BY <1>8, <1>9 DEF HeapOK

\* What a container is after a value was added to it.
ArrayWith(h, c, v) == [h[c] EXCEPT !.items = Append(@, v), !.capacity = Enlarged(h[c])]

\* A container that was resized has a place for one more value.
LEMMA EnlargedFits ==
    ASSUME NEW cell \in CellType, Len(cell.items) <= cell.capacity
    PROVE  Enlarged(cell) \in Nat /\ Len(cell.items) + 1 <= Enlarged(cell)
<1>1. cell.capacity \in Nat /\ Len(cell.items) \in Nat /\ StartingCapacity \in Nat \ {0}
  BY CellParts, TreeAssumption
<1> DEFINE n == Len(cell.items)
           m == cell.capacity
<1> HIDE DEF n, m
<1>2. CASE n < m
  BY <1>1, <1>2 DEF Enlarged, n, m
<1>3. CASE ~(n < m)
  <2>1. Enlarged(cell) = IF 2 * m > StartingCapacity THEN 2 * m ELSE StartingCapacity
    BY <1>3 DEF Enlarged, n, m
  <2>2. n = m
    BY <1>1, <1>3 DEF n, m
  <2>3. n + 1 <= Enlarged(cell) /\ Enlarged(cell) \in Nat
    BY <1>1, <2>1, <2>2 DEF n, m
  <2> QED
    BY <2>3 DEF n
<1> QED
  BY <1>2, <1>3

\* g is h with v at the end of the container c.
HasAdded(h, g, c, v) ==
    /\ HeapOK(g) /\ DOMAIN g = DOMAIN h /\ g[c].parent = h[c].parent
    /\ \A x \in DOMAIN h : g[x].is = h[x].is
    /\ \A x \in DOMAIN h : x # c /\ x # v => g[x] = h[x]

\* json_array_add leaves a heap in order.
LEMMA ArrayAddOK ==
    ASSUME NEW h, HeapOK(h), NEW c \in DOMAIN h, NEW v \in DOMAIN h, h[v].parent = Nobody,
           c \notin Below(h, v), h[c].is # AnObject
    PROVE  HasAdded(h, ArrayAdd(h, c, v), c, v)
<1> DEFINE g == ArrayAdd(h, c, v)
           cell == ArrayWith(h, c, v)
<1>1. Typed(h) /\ AllSound(h) /\ Owned(h) /\ h[c] \in CellType /\ h[v] \in CellType /\ Sound(h[c]) /\ v \in Cells
  BY DEF HeapOK, Typed, Graph, AllSound
<1>2. c # v
  BY <1>1, OutsideOne
<1>3. g = [x \in DOMAIN h |-> IF x = c THEN cell ELSE IF x = v THEN [h[v] EXCEPT !.parent = c] ELSE h[x]]
  BY <1>1, <1>2 DEF ArrayAdd, ArrayWith, CellType, Enlarged
<1>4. h[c].items \in Seq(Cells) /\ Injective(h[c].items) /\ Elems(h[c].items) = Items(h, c)
      /\ Len(h[c].items) <= h[c].capacity
  BY <1>1 DEF CellType, Sound, Elems, Items
<1>5. v \notin Elems(h[c].items)
  <2>1. v \in Items(h, c) => h[v].parent = c
    BY <1>1 DEF Owned
  <2>2. c # Nobody
    BY NobodyIsNoCell, <1>1
  <2> QED
    BY <1>4, <2>1, <2>2
<1>6. /\ Append(h[c].items, v) \in Seq(Cells) /\ Len(Append(h[c].items, v)) = Len(h[c].items) + 1
      /\ Injective(Append(h[c].items, v)) /\ Elems(Append(h[c].items, v)) = Items(h, c) \cup {v}
  BY <1>1, <1>4, <1>5, AppendElems
<1>7. Enlarged(h[c]) \in Nat /\ Len(h[c].items) + 1 <= Enlarged(h[c])
  BY <1>1, <1>4, EnlargedFits
<1>8. /\ cell \in CellType /\ cell.is = h[c].is /\ cell.parent = h[c].parent /\ cell.names = h[c].names
      /\ cell.items = Append(h[c].items, v) /\ cell.capacity = Enlarged(h[c])
  BY <1>1, <1>6, <1>7 DEF ArrayWith, CellType
<1>9. Sound(cell)
  BY <1>1, <1>6, <1>7, <1>8 DEF Sound
<1> HIDE DEF g, cell
<1>10. DOMAIN g = DOMAIN h
  BY <1>3
<1>11. /\ g[c] = cell /\ g[v] = [h[v] EXCEPT !.parent = c]
       /\ \A x \in DOMAIN h : x # c /\ x # v => g[x] = h[x]
  BY <1>2, <1>3
<1>12. Items(g, c) = Items(h, c) \cup {v}
  <2>1. Items(g, c) = Elems(g[c].items)
    BY DEF Items, Elems
  <2> QED
    BY <2>1, <1>6, <1>8, <1>11
<1>13. [h[v] EXCEPT !.parent = c] \in CellType /\ [h[v] EXCEPT !.parent = c].is = h[v].is
  BY <1>1 DEF CellType, Typed
<1>14. Typed(g)
  <2>1. \A x \in DOMAIN h : g[x] \in CellType
    BY <1>1, <1>8, <1>11, <1>13 DEF Typed
  <2> QED
    BY <1>1, <1>3, <1>10, <2>1 DEF Typed
<1>15. HeapOK(g)
  BY <1>8, <1>9, <1>10, <1>11, <1>12, <1>14, AddedOK
<1>16. \A x \in DOMAIN h : g[x].is = h[x].is
  BY <1>8, <1>11, <1>13
<1> QED
  BY <1>8, <1>10, <1>11, <1>15, <1>16 DEF g, HasAdded

\* A name that an object has is found at its place.
Located(h, o, name) ==
    /\ HasName(h, o, name) <=> \E i \in DOMAIN h[o].names : h[o].names[i] = name
    /\ HasName(h, o, name) => /\ Index(h, o, name) \in DOMAIN h[o].names
                              /\ h[o].names[Index(h, o, name)] = name

\* json_object_getn_value finds a name that is there, and no other.
LEMMA IndexOf ==
    ASSUME NEW h, NEW o \in DOMAIN h, h[o].names \in Seq(Names), NEW name
    PROVE  Located(h, o, name)
<1>1. DOMAIN h[o].names = 1 .. Len(h[o].names) /\ Len(h[o].names) \in Nat
  OBVIOUS
<1>2. CASE \E i \in DOMAIN h[o].names : h[o].names[i] = name
  <2>1. /\ Index(h, o, name) \in DOMAIN h[o].names
        /\ h[o].names[Index(h, o, name)] = name
    BY <1>2 DEF Index
  <2>2. Index(h, o, name) # 0
    BY <1>1, <2>1
  <2> QED
    BY <1>2, <2>1, <2>2 DEF HasName, Located
<1>3. CASE ~\E i \in DOMAIN h[o].names : h[o].names[i] = name
  BY <1>3 DEF Index, HasName, Located
<1> QED
  BY <1>2, <1>3

\* The same, of an object that has a name for it.
HasNamed(h, g, c, name, v) ==
    /\ g[c].names = Append(h[c].names, name) /\ g[c].items = Append(h[c].items, v)
    /\ g[v] = [h[v] EXCEPT !.parent = c]

\* json_object_addn leaves a heap in order, of a name that the object has not yet.
LEMMA ObjectAddOK ==
    ASSUME NEW h, HeapOK(h), NEW c \in DOMAIN h, NEW v \in DOMAIN h, h[v].parent = Nobody,
           c \notin Below(h, v), h[c].is = AnObject, NEW name \in Names, ~HasName(h, c, name)
    PROVE  HasAdded(h, ObjectAdd(h, c, name, v), c, v) /\ HasNamed(h, ObjectAdd(h, c, name, v), c, name, v)
<1> DEFINE g == ObjectAdd(h, c, name, v)
           cell == [h[c] EXCEPT !.items = Append(@, v), !.capacity = Enlarged(h[c]), !.names = Append(@, name)]
<1>1. Typed(h) /\ AllSound(h) /\ Owned(h) /\ h[c] \in CellType /\ h[v] \in CellType /\ Sound(h[c]) /\ v \in Cells
  BY DEF HeapOK, Typed, Graph, AllSound
<1>2. c # v
  BY <1>1, OutsideOne
<1>3. g = [x \in DOMAIN h |-> IF x = c THEN cell ELSE IF x = v THEN [h[v] EXCEPT !.parent = c] ELSE h[x]]
  BY <1>1, <1>2 DEF ObjectAdd, ArrayAdd, CellType, Enlarged
<1>4. /\ h[c].items \in Seq(Cells) /\ Injective(h[c].items) /\ Elems(h[c].items) = Items(h, c)
      /\ Len(h[c].items) <= h[c].capacity
      /\ h[c].names \in Seq(Names) /\ Injective(h[c].names) /\ Len(h[c].names) = Len(h[c].items)
  BY <1>1 DEF CellType, Sound, Elems, Items
<1>5. v \notin Elems(h[c].items)
  <2>1. v \in Items(h, c) => h[v].parent = c
    BY <1>1 DEF Owned
  <2>2. c # Nobody
    BY NobodyIsNoCell, <1>1
  <2> QED
    BY <1>4, <2>1, <2>2
<1>6. /\ Append(h[c].items, v) \in Seq(Cells) /\ Len(Append(h[c].items, v)) = Len(h[c].items) + 1
      /\ Injective(Append(h[c].items, v)) /\ Elems(Append(h[c].items, v)) = Items(h, c) \cup {v}
  BY <1>1, <1>4, <1>5, AppendElems
<1>7. /\ Append(h[c].names, name) \in Seq(Names) /\ Len(Append(h[c].names, name)) = Len(h[c].names) + 1
      /\ Injective(Append(h[c].names, name))
  <2>1. name \notin Elems(h[c].names)
    <3>1. ~\E i \in DOMAIN h[c].names : h[c].names[i] = name
      BY <1>4, IndexOf DEF Located
    <3> QED
      BY <3>1 DEF Elems
  <2> QED
    BY <1>4, <2>1, AppendElems
<1>8. Enlarged(h[c]) \in Nat /\ Len(h[c].items) + 1 <= Enlarged(h[c])
  BY <1>1, <1>4, EnlargedFits
<1>9. /\ cell \in CellType /\ cell.is = h[c].is /\ cell.parent = h[c].parent
      /\ cell.names = Append(h[c].names, name)
      /\ cell.items = Append(h[c].items, v) /\ cell.capacity = Enlarged(h[c])
  BY <1>1, <1>6, <1>7, <1>8 DEF CellType
<1> HIDE DEF g, cell
<1>10. Sound(cell)
  BY <1>4, <1>6, <1>7, <1>8, <1>9 DEF Sound
<1>11. DOMAIN g = DOMAIN h
  BY <1>3
<1>12. /\ g[c] = cell /\ g[v] = [h[v] EXCEPT !.parent = c]
       /\ \A x \in DOMAIN h : x # c /\ x # v => g[x] = h[x]
  BY <1>2, <1>3
<1>13. Items(g, c) = Items(h, c) \cup {v}
  <2>1. Items(g, c) = Elems(g[c].items)
    BY DEF Items, Elems
  <2> QED
    BY <2>1, <1>6, <1>9, <1>12
<1>14. [h[v] EXCEPT !.parent = c] \in CellType /\ [h[v] EXCEPT !.parent = c].is = h[v].is
  BY <1>1 DEF CellType, Typed
<1>15. Typed(g)
  <2>1. \A x \in DOMAIN h : g[x] \in CellType
    BY <1>1, <1>9, <1>12, <1>14 DEF Typed
  <2> QED
    BY <1>1, <1>3, <1>11, <2>1 DEF Typed
<1>16. HeapOK(g)
  BY <1>9, <1>10, <1>11, <1>12, <1>13, <1>15, AddedOK
<1>17. \A x \in DOMAIN h : g[x].is = h[x].is
  BY <1>9, <1>12, <1>14
<1> QED
  BY <1>9, <1>11, <1>12, <1>16, <1>17 DEF g, HasAdded, HasNamed

\* A value takes the place of another, which is freed.
HasReplaced(h, g, c, i, v) ==
    /\ HeapOK(g) /\ DOMAIN g = DOMAIN h \ Below(h, h[c].items[i]) /\ c \in DOMAIN g
    /\ g[c] = [h[c] EXCEPT !.items[i] = v]
    /\ \A y \in DOMAIN g : y # c /\ y # v => g[y] = h[y]

\* Freeing what is at a place and putting a value there leaves a heap in order.
LEMMA ReplacedOK ==
    ASSUME NEW h, HeapOK(h), NEW c \in DOMAIN h, NEW i \in DOMAIN h[c].items, NEW v \in DOMAIN h,
           h[v].parent = Nobody, c \notin Below(h, v)
    PROVE  HasReplaced(h, Replaced(Freed(h, h[c].items[i]), c, i, v), c, i, v)
<1> DEFINE x == h[c].items[i]
           R == Below(h, x)
           g == Replaced(Freed(h, x), c, i, v)
           cell == [h[c] EXCEPT !.items[i] = v]
           ghost == [y \in DOMAIN h \ R |-> IF y = c THEN [h[c] EXCEPT !.items = Shifted(@, i)] ELSE h[y]]
<1>1. Typed(h) /\ AllSound(h) /\ Graph(h) /\ Owned(h) /\ Nobody \notin DOMAIN h
      /\ h[c] \in CellType /\ h[v] \in CellType /\ Sound(h[c]) /\ v \in Cells /\ c \in Cells
  BY NobodyIsNoCell DEF HeapOK, Typed, Graph, AllSound
<1>2. c # v
  BY <1>1, OutsideOne
<1>3. h[c].items \in Seq(Cells) /\ Injective(h[c].items) /\ Elems(h[c].items) = Items(h, c)
  BY <1>1 DEF CellType, Sound, Elems, Items
<1>4. x \in Items(h, c) /\ x \in DOMAIN h /\ h[x].parent = c
  BY <1>1 DEF Items, Owned
<1>5. c \notin R
  BY <1>1, <1>4 DEF Graph, Acyclic
<1>6. v \notin R /\ v \notin Items(h, c)
  <2>1. v # x /\ v \notin Items(h, c)
    BY <1>1, <1>4 DEF Owned
  <2>2. v \in R => h[v].parent \in R
    BY <1>1, <1>4, <2>1, ParentBelow
  <2>3. R \subseteq DOMAIN h
    BY <1>1, <1>4, OutsideOne
  <2> QED
    BY <1>1, <2>1, <2>2, <2>3
<1>7. g = [y \in DOMAIN h \ R |-> IF y = c THEN cell ELSE IF y = v THEN [h[v] EXCEPT !.parent = c] ELSE h[y]]
  BY <1>1, <1>2, <1>5, <1>6 DEF Replaced, Freed, Without, CellType
<1>8. /\ [h[c].items EXCEPT ![i] = v] \in Seq(Cells) /\ Len([h[c].items EXCEPT ![i] = v]) = Len(h[c].items)
      /\ Injective([h[c].items EXCEPT ![i] = v])
      /\ Elems([h[c].items EXCEPT ![i] = v]) = (Elems(h[c].items) \ {x}) \cup {v}
  BY <1>1, <1>3, <1>6, ReplacedElems
<1>9. /\ cell \in CellType /\ cell.is = h[c].is /\ cell.parent = h[c].parent /\ cell.names = h[c].names
      /\ cell.items = [h[c].items EXCEPT ![i] = v] /\ cell.capacity = h[c].capacity
  BY <1>1, <1>8 DEF CellType
<1>10. Elems(Shifted(h[c].items, i)) = Elems(h[c].items) \ {x} /\ Shifted(h[c].items, i) \in Seq(Cells)
  BY <1>3, ShiftedElems
<1>11. /\ [h[c] EXCEPT !.items = Shifted(@, i)].items = Shifted(h[c].items, i)
       /\ [h[c] EXCEPT !.items = Shifted(@, i)].parent = h[c].parent
  BY <1>1 DEF CellType
<1>12. /\ DOMAIN ghost = DOMAIN h \ R
       /\ \A y \in DOMAIN ghost : ghost[y].parent = h[y].parent
       /\ \A y \in DOMAIN ghost : Items(ghost, y) = IF y = c THEN Items(h, c) \ {x} ELSE Items(h, y)
  <2>1. DOMAIN ghost = DOMAIN h \ R /\ \A y \in DOMAIN ghost : ghost[y].parent = h[y].parent
    BY <1>11
  <2>2. Items(ghost, c) = Items(h, c) \ {x}
    BY <1>3, <1>5, <1>10, <1>11 DEF Items, Elems
  <2>3. \A y \in DOMAIN ghost : y # c => Items(ghost, y) = Items(h, y)
    BY DEF Items
  <2> QED
    BY <2>1, <2>2, <2>3
<1> HIDE DEF g, cell, ghost, R, x
<1>13. Graph(ghost)
  BY <1>1, <1>4, <1>12, RemovedGraph DEF R
<1>14. /\ c \in DOMAIN ghost /\ v \in DOMAIN ghost /\ ghost[v].parent = Nobody /\ Nobody \notin DOMAIN ghost
  BY <1>1, <1>5, <1>6, <1>12
<1>15. c \notin Below(ghost, v)
  <2>1. \A y \in DOMAIN ghost : Items(ghost, y) \subseteq Items(h, y) /\ Items(ghost, y) \subseteq DOMAIN ghost
    BY <1>12, <1>13 DEF Graph, Owned
  <2>2. DOMAIN ghost \subseteq DOMAIN h
    BY <1>12
  <2>3. Below(ghost, v) \subseteq Below(h, v)
    BY <1>1, <1>14, <2>1, <2>2, BelowShrinks
  <2> QED
    BY <2>3
<1>16. DOMAIN g = DOMAIN ghost
  BY <1>7, <1>12
<1>17. /\ g[c] = cell /\ g[v] = [h[v] EXCEPT !.parent = c]
       /\ \A y \in DOMAIN g : y # c /\ y # v => g[y] = h[y]
  BY <1>2, <1>5, <1>6, <1>7
<1>18. [h[v] EXCEPT !.parent = c] \in CellType /\ [h[v] EXCEPT !.parent = c].parent = c
       /\ [h[v] EXCEPT !.parent = c].items = h[v].items /\ [h[v] EXCEPT !.parent = c].names = h[v].names
       /\ [h[v] EXCEPT !.parent = c].capacity = h[v].capacity /\ [h[v] EXCEPT !.parent = c].is = h[v].is
  BY <1>1 DEF CellType
<1>19. \A y \in DOMAIN ghost : g[y].parent = IF y = v THEN c ELSE ghost[y].parent
  BY <1>2, <1>9, <1>12, <1>16, <1>17, <1>18
<1>20. ASSUME NEW y \in DOMAIN ghost PROVE Items(g, y) = IF y = c THEN Items(ghost, c) \cup {v} ELSE Items(ghost, y)
  <2>1. Items(g, c) = (Items(h, c) \ {x}) \cup {v}
    <3>1. Items(g, c) = Elems(g[c].items)
      BY DEF Items, Elems
    <3> QED
      BY <3>1, <1>3, <1>8, <1>9, <1>17
  <2>2. Items(g, v) = Items(h, v)
    BY <1>17, <1>18 DEF Items
  <2>3. y # c /\ y # v => Items(g, y) = Items(h, y)
    BY <1>16, <1>17 DEF Items
  <2> QED
    BY <1>2, <1>12, <1>14, <2>1, <2>2, <2>3
<1>21. Graph(g)
  BY <1>13, <1>14, <1>15, <1>16, <1>19, <1>20, LinkedGraph
<1>22. Typed(g)
  <2>1. \A y \in DOMAIN g : g[y] \in CellType
    BY <1>1, <1>9, <1>12, <1>16, <1>17, <1>18 DEF Typed
  <2> QED
    BY <1>1, <1>7, <2>1 DEF Typed
<1>23. AllSound(g)
  <2>1. Sound(cell)
    BY <1>1, <1>8, <1>9 DEF Sound
  <2>2. Sound(h[v]) /\ \A y \in DOMAIN g : Sound(h[y])
    BY <1>1, <1>12, <1>16 DEF AllSound
  <2>3. Sound(g[v])
    BY <2>2, <1>17, <1>18 DEF Sound
  <2> QED
    BY <2>1, <2>2, <2>3, <1>17 DEF AllSound
<1> QED
  BY <1>12, <1>14, <1>16, <1>17, <1>21, <1>22, <1>23 DEF HeapOK, HasReplaced, g, x, R, cell
-----------------------------------------------------------------------------
(* What takes away                                                         *)

\* Freeing one value of a container that forgets it leaves a heap in order.
LEMMA RemovedOK ==
    ASSUME NEW h, HeapOK(h), NEW c \in DOMAIN h, NEW x \in Items(h, c), NEW g, Typed(g),
           DOMAIN g = DOMAIN h \ Below(h, x), Sound(g[c]), g[c].parent = h[c].parent,
           Items(g, c) = Items(h, c) \ {x}, \A y \in DOMAIN g : y # c => g[y] = h[y]
    PROVE  HeapOK(g)
<1>1. Graph(h) /\ AllSound(h)
  BY DEF HeapOK
<1>2. /\ \A y \in DOMAIN g : g[y].parent = h[y].parent
      /\ \A y \in DOMAIN g : Items(g, y) = IF y = c THEN Items(h, c) \ {x} ELSE Items(h, y)
  <2>1. \A y \in DOMAIN g : y # c => Items(g, y) = Items(h, y)
    BY DEF Items
  <2> QED
    BY <2>1
<1>3. Graph(g)
  BY <1>1, <1>2, RemovedGraph
<1>4. AllSound(g)
  BY <1>1 DEF AllSound
<1> QED
  BY <1>3, <1>4 DEF HeapOK

\* json_array_remove leaves a heap in order.
LEMMA ArrayRemoveOK ==
    ASSUME NEW h, HeapOK(h), NEW a \in DOMAIN h, h[a].is # AnObject, NEW i \in DOMAIN h[a].items
    PROVE  HeapOK(ArrayRemove(h, a, i))
<1> DEFINE x == h[a].items[i]
           R == Below(h, x)
           g == ArrayRemove(h, a, i)
           cell == [h[a] EXCEPT !.items = Shifted(@, i)]
<1>1. Typed(h) /\ AllSound(h) /\ Graph(h) /\ Owned(h) /\ h[a] \in CellType /\ Sound(h[a])
  BY DEF HeapOK, Typed, Graph, AllSound
<1>2. x \in Items(h, a) /\ x \in DOMAIN h
  BY <1>1 DEF Items, Owned
<1>3. a \notin R
  BY <1>1, <1>2 DEF Graph, Acyclic
<1>4. g = [y \in DOMAIN h \ R |-> IF y = a THEN cell ELSE h[y]]
  BY <1>3 DEF ArrayRemove, Freed, Without
<1>5. h[a].items \in Seq(Cells) /\ Injective(h[a].items) /\ Elems(h[a].items) = Items(h, a)
      /\ Len(h[a].items) <= h[a].capacity
  BY <1>1 DEF CellType, Sound, Elems, Items
<1>6. /\ Shifted(h[a].items, i) \in Seq(Cells) /\ Len(Shifted(h[a].items, i)) = Len(h[a].items) - 1
      /\ Injective(Shifted(h[a].items, i)) /\ Elems(Shifted(h[a].items, i)) = Items(h, a) \ {x}
  BY <1>5, ShiftedElems
<1>7. /\ cell \in CellType /\ cell.is = h[a].is /\ cell.parent = h[a].parent /\ cell.names = h[a].names
      /\ cell.items = Shifted(h[a].items, i) /\ cell.capacity = h[a].capacity
  BY <1>1, <1>6 DEF CellType
<1> HIDE DEF g, cell, x, R
<1>8. Sound(cell)
  <2>1. Len(h[a].items) \in Nat /\ h[a].capacity \in Nat
    BY <1>1, CellParts
  <2>2. Len(cell.items) <= cell.capacity
    BY <2>1, <1>5, <1>6, <1>7
  <2> QED
    BY <2>2, <1>1, <1>6, <1>7 DEF Sound
<1>9. DOMAIN g = DOMAIN h \ R /\ g[a] = cell /\ \A y \in DOMAIN g : y # a => g[y] = h[y]
  BY <1>3, <1>4
<1>10. Items(g, a) = Items(h, a) \ {x}
  <2>1. Items(g, a) = Elems(g[a].items)
    BY DEF Items, Elems
  <2> QED
    BY <2>1, <1>6, <1>7, <1>9
<1>11. Typed(g)
  <2>1. \A y \in DOMAIN g : g[y] \in CellType
    BY <1>1, <1>7, <1>9 DEF Typed
  <2> QED
    BY <2>1, <1>1, <1>4 DEF Typed
<1>12. HeapOK(g)
  BY <1>2, <1>7, <1>8, <1>9, <1>10, <1>11, RemovedOK DEF R
<1> QED
  BY <1>12 DEF g

\* The item of a member.
LEMMA MemberOf ==
    ASSUME NEW h, HeapOK(h), NEW o \in DOMAIN h, h[o].is = AnObject, NEW name, HasName(h, o, name)
    PROVE  /\ Index(h, o, name) \in DOMAIN h[o].items /\ Index(h, o, name) \in DOMAIN h[o].names
           /\ h[o].names[Index(h, o, name)] = name
           /\ Member(h, o, name) = h[o].items[Index(h, o, name)]
           /\ Member(h, o, name) \in Items(h, o) /\ Member(h, o, name) \in DOMAIN h
           /\ h[Member(h, o, name)].parent = o
<1>1. h[o] \in CellType /\ Sound(h[o]) /\ Owned(h)
  BY DEF HeapOK, Typed, AllSound, Graph
<1>2. h[o].names \in Seq(Names) /\ h[o].items \in Seq(Cells) /\ Len(h[o].names) = Len(h[o].items)
  BY <1>1 DEF CellType, Sound
<1>3. Index(h, o, name) \in DOMAIN h[o].names /\ h[o].names[Index(h, o, name)] = name
  BY <1>2, IndexOf DEF Located
<1>4. DOMAIN h[o].names = DOMAIN h[o].items
  BY <1>2
<1>5. Member(h, o, name) \in Items(h, o)
  BY <1>3, <1>4 DEF Member, Items
<1> QED
  BY <1>1, <1>3, <1>4, <1>5 DEF Member, Owned

\* json_object_remove_internal leaves a heap in order.
LEMMA ObjectRemoveOK ==
    ASSUME NEW h, HeapOK(h), NEW o \in DOMAIN h, h[o].is = AnObject, NEW name
    PROVE  HeapOK(ObjectRemove(h, o, name))
<1>1. CASE ~HasName(h, o, name)
  BY <1>1 DEF ObjectRemove
<1>2. CASE HasName(h, o, name)
  <2> DEFINE i == Index(h, o, name)
             x == Member(h, o, name)
             R == Below(h, x)
             g == ObjectRemove(h, o, name)
             cell == [h[o] EXCEPT !.names = Filled(@, i), !.items = Filled(@, i)]
  <2>1. Typed(h) /\ AllSound(h) /\ Graph(h) /\ Owned(h) /\ h[o] \in CellType /\ Sound(h[o])
    BY DEF HeapOK, Typed, Graph, AllSound
  <2>2. /\ x \in Items(h, o) /\ x \in DOMAIN h /\ i \in DOMAIN h[o].items /\ i \in DOMAIN h[o].names
        /\ x = h[o].items[i]
    BY <1>2, MemberOf
  <2>3. o \notin R
    BY <2>1, <2>2 DEF Graph, Acyclic
  <2>4. g = [y \in DOMAIN h \ R |-> IF y = o THEN cell ELSE h[y]]
    BY <1>2, <2>1, <2>3 DEF ObjectRemove, Freed, Without, CellType
  <2>5. /\ h[o].items \in Seq(Cells) /\ Injective(h[o].items) /\ Elems(h[o].items) = Items(h, o)
        /\ Len(h[o].items) <= h[o].capacity
        /\ h[o].names \in Seq(Names) /\ Injective(h[o].names) /\ Len(h[o].names) = Len(h[o].items)
    BY <2>1 DEF CellType, Sound, Elems, Items
  <2> HIDE DEF i, x
  <2>6. /\ Filled(h[o].items, i) \in Seq(Cells) /\ Len(Filled(h[o].items, i)) = Len(h[o].items) - 1
        /\ Injective(Filled(h[o].items, i)) /\ Elems(Filled(h[o].items, i)) = Items(h, o) \ {x}
    BY <2>2, <2>5, FilledElems
  <2>7. /\ Filled(h[o].names, i) \in Seq(Names) /\ Len(Filled(h[o].names, i)) = Len(h[o].names) - 1
        /\ Injective(Filled(h[o].names, i))
    BY <2>2, <2>5, FilledElems
  <2>8. /\ cell \in CellType /\ cell.is = h[o].is /\ cell.parent = h[o].parent
        /\ cell.names = Filled(h[o].names, i)
        /\ cell.items = Filled(h[o].items, i) /\ cell.capacity = h[o].capacity
    BY <2>1, <2>6, <2>7 DEF CellType
  <2> HIDE DEF g, cell, R
  <2>9. Sound(cell)
    <3>1. Len(h[o].items) \in Nat /\ h[o].capacity \in Nat
      BY <2>1, CellParts
    <3>2. Len(cell.items) <= cell.capacity
      BY <3>1, <2>5, <2>6, <2>8
    <3>3. Len(cell.names) = Len(cell.items)
      BY <2>5, <2>6, <2>7, <2>8
    <3> QED
      BY <3>2, <3>3, <2>6, <2>7, <2>8 DEF Sound
  <2>10. DOMAIN g = DOMAIN h \ R /\ g[o] = cell /\ \A y \in DOMAIN g : y # o => g[y] = h[y]
    BY <2>3, <2>4
  <2>11. Items(g, o) = Items(h, o) \ {x}
    <3>1. Items(g, o) = Elems(g[o].items)
      BY DEF Items, Elems
    <3> QED
      BY <3>1, <2>6, <2>8, <2>10
  <2>12. Typed(g)
    <3>1. \A y \in DOMAIN g : g[y] \in CellType
      BY <2>1, <2>8, <2>10 DEF Typed
    <3> QED
      BY <3>1, <2>1, <2>4 DEF Typed
  <2>13. HeapOK(g)
    BY <2>2, <2>8, <2>9, <2>10, <2>11, <2>12, RemovedOK DEF R
  <2> QED
    BY <2>13 DEF g
<1> QED
  BY <1>1, <1>2

\* json_value_free of a value without a parent leaves a heap in order.
LEMMA FreedOK ==
    ASSUME NEW h, HeapOK(h), NEW v \in DOMAIN h, h[v].parent = Nobody PROVE HeapOK(Freed(h, v))
<1>1. Below(h, v) = UNION {Below(h, x) : x \in {v}}
  OBVIOUS
<1>2. {v} \subseteq DOMAIN h /\ \A x \in {v} : h[x].parent = Nobody
  OBVIOUS
<1>3. HeapOK(Without(h, Below(h, v)))
  BY <1>1, <1>2, WithoutOK
<1> QED
  BY <1>3 DEF Freed

\* json_object_clear and json_array_clear leave a heap in order.
LEMMA ClearedOK ==
    ASSUME NEW h, HeapOK(h), NEW c \in DOMAIN h PROVE HeapOK(Cleared(h, c))
<1> DEFINE R == UNION {Below(h, x) : x \in Items(h, c)}
           g == Cleared(h, c)
           cell == [h[c] EXCEPT !.names = <<>>, !.items = <<>>]
<1>1. Typed(h) /\ AllSound(h) /\ Graph(h) /\ Owned(h) /\ h[c] \in CellType /\ Sound(h[c])
      /\ Items(h, c) \subseteq DOMAIN h
  BY DEF HeapOK, Typed, Graph, AllSound, Owned
<1>2. /\ Items(h, c) \subseteq R /\ R \subseteq DOMAIN h /\ ClosedIn(h, R)
      /\ \A y \in DOMAIN h \ R : \A z \in Items(h, y) : z \in R => z \in Items(h, c)
  BY <1>1, OutsideBelow
<1>3. c \notin R
  BY <1>1 DEF Graph, Acyclic
<1>4. g = [y \in DOMAIN h \ R |-> IF y = c THEN cell ELSE h[y]]
  <2>1. Inside(h, c) = R
    BY DEF Inside
  <2> QED
    BY <2>1, <1>1, <1>3 DEF Cleared, Without, CellType
<1>5. /\ cell \in CellType /\ cell.is = h[c].is /\ cell.parent = h[c].parent /\ cell.names = <<>>
      /\ cell.items = <<>> /\ cell.capacity = h[c].capacity
  <2>1. <<>> \in Seq(Names) /\ <<>> \in Seq(Cells)
    OBVIOUS
  <2>2. PICK none : none = <<>>
    OBVIOUS
  <2>3. LET empty == [h[c] EXCEPT !.names = none, !.items = none]
        IN  /\ empty \in CellType /\ empty.is = h[c].is /\ empty.parent = h[c].parent
            /\ empty.names = none /\ empty.items = none /\ empty.capacity = h[c].capacity
    BY <1>1, <2>1, <2>2 DEF CellType
  <2> QED
    BY <2>2, <2>3
<1>6. cell.capacity \in Nat
  BY <1>1, <1>5, CellParts
<1> HIDE DEF R, g, cell
<1>7. Sound(cell)
  BY <1>5, <1>6 DEF Sound, Injective
<1>8. DOMAIN g = DOMAIN h \ R /\ g[c] = cell /\ \A y \in DOMAIN g : y # c => g[y] = h[y]
  BY <1>3, <1>4
<1>9. ASSUME NEW y \in DOMAIN g PROVE Items(g, y) = Items(h, y) \ R
  <2>1. CASE y = c
    <3>1. Items(g, c) = {}
      BY <1>5, <1>8 DEF Items
    <3> QED
      BY <3>1, <2>1, <1>2
  <2>2. CASE y # c
    <3>1. Items(g, y) = Items(h, y)
      BY <2>2, <1>8 DEF Items
    <3>2. ASSUME NEW z \in Items(h, y), z \in R PROVE FALSE
      <4>1. z \in Items(h, c)
        BY <1>2, <1>8, <3>2
      <4>2. h[z].parent = c /\ h[z].parent = y
        BY <4>1, <3>2, <1>1, <1>8 DEF Owned
      <4> QED
        BY <4>2, <2>2
    <3> QED
      BY <3>1, <3>2
  <2> QED
    BY <2>1, <2>2
<1>10. \A y \in DOMAIN g : g[y].parent = h[y].parent
  BY <1>5, <1>8
<1>11. Graph(g)
  BY <1>1, <1>2, <1>8, <1>9, <1>10, CutGraph
<1>12. Typed(g)
  <2>1. \A y \in DOMAIN g : g[y] \in CellType
    BY <1>1, <1>5, <1>8 DEF Typed
  <2> QED
    BY <2>1, <1>1, <1>4 DEF Typed
<1>13. AllSound(g)
  BY <1>1, <1>7, <1>8 DEF AllSound
<1> QED
  BY <1>11, <1>12, <1>13 DEF HeapOK, g
-----------------------------------------------------------------------------
(* Members that are set                                                    *)

\* The place of a name depends on the names alone.
LEMMA SameIndex ==
    ASSUME NEW h, NEW g, NEW o, g[o].names = h[o].names, NEW name
    PROVE  Index(g, o, name) = Index(h, o, name) /\ (HasName(g, o, name) <=> HasName(h, o, name))
  BY DEF Index, HasName

\* A name that is not there is added with its value.
LEMMA MemberAdded ==
    ASSUME NEW h, NEW g, NEW o \in DOMAIN h, o \in DOMAIN g, h[o] \in CellType, Sound(h[o]),
           h[o].is = AnObject, NEW name \in Names, ~HasName(h, o, name), NEW v \in Cells,
           HasNamed(h, g, o, name, v)
    PROVE  HasName(g, o, name) /\ Member(g, o, name) = v
<1> DEFINE n == Len(h[o].names)
           i == Index(g, o, name)
<1>0. /\ h[o].names \in Seq(Names) /\ h[o].items \in Seq(Cells) /\ Len(h[o].names) = Len(h[o].items)
      /\ g[o].names = Append(h[o].names, name) /\ g[o].items = Append(h[o].items, v)
  BY DEF HasNamed, CellType, Sound
<1>1. \A j \in 1 .. n : h[o].names[j] # name
  BY <1>0, IndexOf DEF Located
<1>2. /\ g[o].names \in Seq(Names) /\ n \in Nat /\ DOMAIN g[o].names = 1 .. n + 1
      /\ g[o].names[n + 1] = name /\ \A j \in 1 .. n : g[o].names[j] = h[o].names[j]
  BY <1>0
<1>3. g[o].items[n + 1] = v
  BY <1>0
<1> HIDE DEF n
<1>4. HasName(g, o, name) /\ i \in DOMAIN g[o].names /\ g[o].names[i] = name
  <2>1. \E j \in DOMAIN g[o].names : g[o].names[j] = name
    BY <1>2
  <2>2. Located(g, o, name)
    <3>1. g[o].names \in Seq(Names)
      BY <1>2
    <3> QED
      BY <3>1, IndexOf
  <2> QED
    BY <2>1, <2>2 DEF Located
<1> HIDE DEF i
<1>5. i = n + 1
  BY <1>1, <1>2, <1>4
<1> QED
  BY <1>3, <1>4, <1>5 DEF Member, i

\* g is h with v under a name of the object o; what is not in o stays.
HasSet(h, g, o, name, v) ==
    /\ HeapOK(g) /\ o \in DOMAIN g /\ g[o].is = AnObject
    /\ HasName(g, o, name) /\ Member(g, o, name) = v
    /\ \A y \in DOMAIN h : y \notin Below(h, o) => y \in DOMAIN g
    /\ \A y \in DOMAIN g : y # o /\ y # v => y \in DOMAIN h /\ g[y] = h[y]

\* json_object_set_value leaves a heap in order, with the value under its name.
LEMMA ObjectSetOK ==
    ASSUME NEW h, HeapOK(h), NEW o \in DOMAIN h, NEW v \in DOMAIN h, h[v].parent = Nobody,
           o \notin Below(h, v), h[o].is = AnObject, NEW name \in Names
    PROVE  HasSet(h, ObjectSet(h, o, name, v), o, name, v)
<1> DEFINE g == ObjectSet(h, o, name, v)
<1>1. Typed(h) /\ AllSound(h) /\ Graph(h) /\ Owned(h) /\ h[o] \in CellType /\ Sound(h[o]) /\ v \in Cells
      /\ Nobody \notin DOMAIN h
  BY NobodyIsNoCell DEF HeapOK, Typed, Graph, AllSound
<1>2. /\ h[o].names \in Seq(Names) /\ h[o].items \in Seq(Cells) /\ Len(h[o].names) = Len(h[o].items)
      /\ Injective(h[o].names)
  BY <1>1 DEF CellType, Sound
<1>3. CASE ~HasName(h, o, name)
  <2>1. g = ObjectAdd(h, o, name, v)
    BY <1>3 DEF ObjectSet
  <2> HIDE DEF g
  <2>2. /\ HeapOK(g) /\ DOMAIN g = DOMAIN h /\ g[o].is = h[o].is /\ HasNamed(h, g, o, name, v)
        /\ \A x \in DOMAIN h : x # o /\ x # v => g[x] = h[x]
    <3>1. HasAdded(h, g, o, v) /\ HasNamed(h, g, o, name, v)
      BY <1>3, <2>1, ObjectAddOK
    <3> QED
      BY <3>1 DEF HasAdded
  <2>3. HasName(g, o, name) /\ Member(g, o, name) = v
    BY <1>1, <1>3, <2>2, MemberAdded
  <2> QED
    BY <2>2, <2>3 DEF g, HasSet
<1>4. CASE HasName(h, o, name)
  <2> DEFINE i == Index(h, o, name)
             x == h[o].items[i]
  <2>1. i \in DOMAIN h[o].items /\ x \in Items(h, o) /\ x \in DOMAIN h /\ Member(h, o, name) = x
    BY <1>4, MemberOf
  <2>2. g = Replaced(Freed(h, x), o, i, v)
    BY <1>4, <2>1 DEF ObjectSet
  <2> HIDE DEF g, i
  <2>3. /\ HeapOK(g) /\ DOMAIN g = DOMAIN h \ Below(h, x) /\ o \in DOMAIN g
        /\ g[o] = [h[o] EXCEPT !.items[i] = v]
        /\ \A y \in DOMAIN g : y # o /\ y # v => g[y] = h[y]
    <3>1. HasReplaced(h, g, o, i, v)
      BY <2>1, <2>2, ReplacedOK
    <3> QED
      BY <3>1 DEF HasReplaced
  <2>4. g[o].is = h[o].is /\ g[o].names = h[o].names /\ g[o].items = [h[o].items EXCEPT ![i] = v]
    BY <1>1, <2>3 DEF CellType
  <2>5. Index(g, o, name) = i /\ HasName(g, o, name)
    BY <1>4, <2>4, SameIndex DEF i
  <2>6. g[o].items[i] = v
    BY <2>1, <2>4
  <2>7. Below(h, x) \subseteq Below(h, o)
    <3>1. o \in Below(h, o) /\ ClosedIn(h, Below(h, o))
      BY <1>1, OutsideOne
    <3>2. x \in Below(h, o)
      BY <2>1, <3>1 DEF ClosedIn
    <3> QED
      BY <1>1, <3>2, BelowBelow
  <2>8. Member(g, o, name) = v
    BY <2>5, <2>6 DEF Member
  <2> HIDE DEF x
  <2> QED
    BY <2>3, <2>4, <2>5, <2>7, <2>8 DEF g, HasSet
<1> QED
  BY <1>3, <1>4

\* json_object_dotremove_internal leaves a heap in order.
LEMMA DotRemoveOK ==
    ASSUME NEW h, HeapOK(h), NEW o \in DOMAIN h, h[o].is = AnObject, NEW path \in Paths
    PROVE  HeapOK(DotRemove(h, o, path))
<1>1. CASE HasName(h, o, path[1]) /\ h[Member(h, o, path[1])].is = AnObject
  <2>1. Member(h, o, path[1]) \in DOMAIN h
    BY <1>1, MemberOf
  <2> QED
    BY <1>1, <2>1, ObjectRemoveOK DEF DotRemove
<1>2. CASE ~(HasName(h, o, path[1]) /\ h[Member(h, o, path[1])].is = AnObject)
  <2>1. DotRemove(h, o, path) = h
    BY <1>2 DEF DotRemove
  <2> QED
    BY <2>1
<1> QED
  BY <1>1, <1>2

\* A value without a parent is below no other.
LEMMA RootBelow ==
    ASSUME NEW h, Owned(h), Nobody \notin DOMAIN h, NEW v \in DOMAIN h, NEW x \in DOMAIN h,
           h[x].parent = Nobody, x # v
    PROVE  x \notin Below(h, v)
<1>1. Below(h, v) \subseteq DOMAIN h
  BY OutsideOne
<1>2. x \in Below(h, v) => h[x].parent \in Below(h, v)
  BY ParentBelow
<1> QED
  BY <1>1, <1>2

\* Where nothing is in the way, the value is found at the path.
Reaches(h, g, o, path, v) ==
    IF HasName(h, o, path[1]) /\ h[Member(h, o, path[1])].is # AnObject THEN g = h ELSE DotGet(g, o, path) = v

\* An object that is made for the value takes the first name.
LEMMA DotSetNew ==
    ASSUME NEW h, HeapOK(h), NEW o \in DOMAIN h, NEW v \in DOMAIN h, h[v].parent = Nobody,
           o \notin Below(h, v), h[o].is = AnObject, NEW path \in Paths,
           ~HasName(h, o, path[1]), DOMAIN h # Cells
    PROVE  HeapOK(DotSet(h, o, path, v)) /\ DotGet(DotSet(h, o, path, v), o, path) = v
<1> DEFINE n == FreeCell(h)
           h1 == Allocated(h, AnObject)
           h2 == ObjectAdd(h1, n, path[2], v)
           g == ObjectAdd(h2, o, path[1], n)
<1>1. path[1] \in Names /\ path[2] \in Names
  BY DEF Paths
<1>2. HasAllocated(h, h1, n, AnObject)
  <2>1. AnObject \in Kinds
    BY DEF Kinds, Containers
  <2> QED
    BY <2>1, AllocatedOK
<1>3. DotSet(h, o, path, v) = g
  BY DEF DotSet
<1> HIDE DEF n, h1
<1>4. Typed(h) /\ Owned(h) /\ h[v] \in CellType /\ Nobody \notin DOMAIN h /\ v \in Cells
  BY NobodyIsNoCell DEF HeapOK, Graph, Typed
<1>5. /\ HeapOK(h1) /\ DOMAIN h1 = DOMAIN h \cup {n} /\ n \in Cells /\ n \notin DOMAIN h
      /\ h1[n] = FreshCell(AnObject) /\ h1[v] = h[v] /\ h1[o] = h[o] /\ \A x \in DOMAIN h : h1[x] = h[x]
  BY <1>2 DEF HasAllocated
<1>6. h1[n].is = AnObject /\ h1[n].parent = Nobody /\ h1[n].names = <<>> /\ h1[n].items = <<>>
  BY <1>5 DEF FreshCell
<1>7. Typed(h1) /\ Owned(h1) /\ Nobody \notin DOMAIN h1
  BY <1>5, NobodyIsNoCell DEF HeapOK, Graph
<1>8. n \notin Below(h1, v)
  BY <1>5, <1>6, <1>7, RootBelow
<1>9. ~HasName(h1, n, path[2])
  <2>1. DOMAIN h1[n].names = {}
    BY <1>6
  <2> QED
    BY <2>1 DEF HasName, Index
<1>10. HasAdded(h1, h2, n, v) /\ HasNamed(h1, h2, n, path[2], v)
  BY <1>1, <1>5, <1>6, <1>8, <1>9, ObjectAddOK
<1> HIDE DEF h2
<1>11. /\ HeapOK(h2) /\ DOMAIN h2 = DOMAIN h1 /\ h2[n].parent = Nobody
       /\ \A x \in DOMAIN h1 : h2[x].is = h1[x].is
       /\ \A x \in DOMAIN h1 : x # n /\ x # v => h2[x] = h1[x]
  BY <1>6, <1>10 DEF HasAdded
<1>12. /\ h2[n].names = Append(h1[n].names, path[2]) /\ h2[n].items = Append(h1[n].items, v)
       /\ h2[v] = [h1[v] EXCEPT !.parent = n]
  BY <1>10 DEF HasNamed
<1>13. o # v /\ o # n /\ v # n
  BY <1>4, <1>5, OutsideOne
<1>14. h2[o] = h[o] /\ o \in DOMAIN h2 /\ n \in DOMAIN h2
  BY <1>5, <1>11, <1>13
<1>15. o \notin Below(h2, n)
  <2> DEFINE S == {n} \cup Below(h, v)
  <2>1. Owned(h2)
    BY <1>11 DEF HeapOK, Graph
  <2>2. v \in Below(h, v) /\ Below(h, v) \subseteq DOMAIN h /\ ClosedIn(h, Below(h, v))
    BY <1>4, OutsideOne
  <2>3. Items(h2, n) \subseteq {v}
    <3>1. h2[n].items = <<v>>
      BY <1>6, <1>12
    <3> QED
      BY <3>1 DEF Items
  <2>4. \A y \in DOMAIN h : Items(h2, y) = Items(h, y)
    <3>1. h2[v].items = h[v].items
      BY <1>4, <1>5, <1>12 DEF CellType
    <3>2. \A y \in DOMAIN h : h2[y].items = h[y].items
      BY <3>1, <1>5, <1>11
    <3> QED
      BY <3>2 DEF Items
  <2>5. S \subseteq DOMAIN h2 /\ n \in S /\ ClosedIn(h2, S)
    BY <1>5, <1>11, <2>2, <2>3, <2>4 DEF ClosedIn
  <2>6. Below(h2, n) \subseteq S
    <3>1. \A c \in DOMAIN h2 : Items(h2, c) \subseteq DOMAIN h2
      BY <2>1 DEF Owned
    <3> HIDE DEF S
    <3> QED
      BY <3>1, <2>5, <1>14, BelowIsLeast
  <2> QED
    BY <2>6, <1>13
<1>16. ~HasName(h2, o, path[1]) /\ h2[o].is = AnObject
  <2>1. h2[o].names = h[o].names
    BY <1>14
  <2> QED
    BY <2>1, <1>14, SameIndex
<1>17. HasAdded(h2, g, o, n) /\ HasNamed(h2, g, o, path[1], n)
  BY <1>1, <1>11, <1>14, <1>15, <1>16, ObjectAddOK
<1> HIDE DEF g
<1>18. /\ HeapOK(g) /\ DOMAIN g = DOMAIN h2 /\ g[n].is = AnObject
       /\ g[o].names = Append(h2[o].names, path[1]) /\ g[o].items = Append(h2[o].items, n)
       /\ g[n] = [h2[n] EXCEPT !.parent = o]
  BY <1>6, <1>5, <1>11, <1>17 DEF HasAdded, HasNamed
<1>19. h2[o] \in CellType /\ Sound(h2[o]) /\ h2[n] \in CellType /\ Sound(h2[n]) /\ h1[n] \in CellType /\ Sound(h1[n])
  BY <1>5, <1>11, <1>14 DEF HeapOK, Typed, AllSound
<1>20. HasName(g, o, path[1]) /\ Member(g, o, path[1]) = n
  BY <1>1, <1>5, <1>14, <1>16, <1>17, <1>18, <1>19, MemberAdded
<1>21. HasName(h2, n, path[2]) /\ Member(h2, n, path[2]) = v
  BY <1>1, <1>4, <1>5, <1>6, <1>9, <1>10, <1>14, <1>19, MemberAdded
<1>22. HasName(g, n, path[2]) /\ Member(g, n, path[2]) = v
  <2>1. g[n].names = h2[n].names /\ g[n].items = h2[n].items
    BY <1>18, <1>19 DEF CellType
  <2> QED
    BY <2>1, <1>21, SameIndex DEF Member
<1>23. DotGet(g, o, path) = v
  BY <1>18, <1>20, <1>22 DEF DotGet
<1> QED
  BY <1>3, <1>18, <1>23

\* json_object_dotset_value leaves a heap in order, and its value is found unless
\* something else is in the way.
LEMMA DotSetOK ==
    ASSUME NEW h, HeapOK(h), NEW o \in DOMAIN h, NEW v \in DOMAIN h, h[v].parent = Nobody,
           o \notin Below(h, v), h[o].is = AnObject, NEW path \in Paths,
           DOMAIN h # Cells \/ HasName(h, o, path[1])
    PROVE  HeapOK(DotSet(h, o, path, v)) /\ Reaches(h, DotSet(h, o, path, v), o, path, v)
<1> DEFINE m == Member(h, o, path[1])
           g == DotSet(h, o, path, v)
<1>1. CASE ~HasName(h, o, path[1])
  BY <1>1, DotSetNew DEF Reaches
<1>2. CASE HasName(h, o, path[1]) /\ h[m].is # AnObject
  BY <1>2 DEF DotSet, Reaches
<1>3. CASE HasName(h, o, path[1]) /\ h[m].is = AnObject
  <2>1. path[1] \in Names /\ path[2] \in Names
    BY DEF Paths
  <2>2. Owned(h) /\ Acyclic(h) /\ Nobody \notin DOMAIN h
    BY NobodyIsNoCell DEF HeapOK, Graph
  <2>3. m \in Items(h, o) /\ m \in DOMAIN h /\ h[m].parent = o
    BY <1>3, MemberOf
  <2>4. g = ObjectSet(h, m, path[2], v)
    BY <1>3 DEF DotSet
  <2> HIDE DEF m, g
  <2>5. m \notin Below(h, v)
    <3>1. m # v
      BY <2>2, <2>3
    <3>2. m \in Below(h, v) => o \in Below(h, v)
      BY <2>2, <2>3, <3>1, ParentBelow
    <3> QED
      BY <3>2
  <2>6. o \notin Below(h, m)
    BY <2>2, <2>3 DEF Acyclic
  <2>7. HasSet(h, g, m, path[2], v)
    BY <1>3, <2>1, <2>3, <2>4, <2>5, ObjectSetOK DEF m
  <2>8. /\ HeapOK(g) /\ g[m].is = AnObject /\ HasName(g, m, path[2]) /\ Member(g, m, path[2]) = v
        /\ o \in DOMAIN g
        /\ \A y \in DOMAIN g : y # m /\ y # v => y \in DOMAIN h /\ g[y] = h[y]
    BY <2>6, <2>7 DEF HasSet
  <2>9. o # m /\ o # v
    BY <2>2, <2>3, <2>6, OutsideOne
  <2>10. g[o] = h[o]
    BY <2>8, <2>9
  <2>11. HasName(g, o, path[1]) /\ Member(g, o, path[1]) = m
    <3>1. g[o].names = h[o].names
      BY <2>10
    <3> QED
      BY <3>1, <2>10, <1>3, SameIndex DEF Member, m
  <2>12. DotGet(g, o, path) = v
    BY <2>8, <2>11 DEF DotGet
  <2> QED
    BY <1>3, <2>8, <2>12 DEF Reaches, m, g
<1> QED
  BY <1>1, <1>2, <1>3
-----------------------------------------------------------------------------
(* What is being made                                                      *)

\* Trimming a container changes its capacity alone.
LEMMA TrimmedOK ==
    ASSUME NEW h, HeapOK(h), NEW frame \in Frames, frame.cell \in DOMAIN h
    PROVE  /\ HeapOK(Trimmed(h, frame)) /\ DOMAIN Trimmed(h, frame) = DOMAIN h
           /\ \A x \in DOMAIN h : /\ Trimmed(h, frame)[x].is = h[x].is
                                  /\ Trimmed(h, frame)[x].parent = h[x].parent
                                  /\ Trimmed(h, frame)[x].names = h[x].names
                                  /\ Trimmed(h, frame)[x].items = h[x].items
<1> DEFINE g == Trimmed(h, frame)
           c == frame.cell
           cell == [h[c] EXCEPT !.capacity = Len(h[c].items)]
<1>1. CASE frame.source # Nobody
  <2>1. g = h
    BY <1>1 DEF Trimmed
  <2> QED
    BY <2>1
<1>2. CASE frame.source = Nobody
  <2>1. Typed(h) /\ AllSound(h) /\ Graph(h) /\ h[c] \in CellType /\ Sound(h[c])
    BY DEF HeapOK, Typed, AllSound
  <2>2. g = [x \in DOMAIN h |-> IF x = c THEN cell ELSE h[x]]
    BY <1>2 DEF Trimmed
  <2>3. Len(h[c].items) \in Nat
    BY <2>1, CellParts
  <2>4. /\ cell \in CellType /\ cell.is = h[c].is /\ cell.parent = h[c].parent /\ cell.names = h[c].names
        /\ cell.items = h[c].items /\ cell.capacity = Len(h[c].items)
    BY <2>1, <2>3 DEF CellType
  <2> HIDE DEF g, cell, c
  <2>5. Sound(cell)
    BY <2>1, <2>3, <2>4 DEF Sound
  <2>6. DOMAIN g = DOMAIN h /\ g[c] = cell /\ \A x \in DOMAIN h : x # c => g[x] = h[x]
    BY <2>2 DEF c
  <2>7. \A x \in DOMAIN h : /\ g[x].is = h[x].is /\ g[x].parent = h[x].parent
                            /\ g[x].names = h[x].names /\ g[x].items = h[x].items
    BY <2>4, <2>6
  <2>8. Typed(g)
    <3>1. \A x \in DOMAIN h : g[x] \in CellType
      BY <2>1, <2>4, <2>6 DEF Typed
    <3> QED
      BY <3>1, <2>1, <2>2, <2>6 DEF Typed
  <2>9. AllSound(g)
    BY <2>1, <2>5, <2>6 DEF AllSound
  <2>10. Graph(g)
    <3>1. \A x \in DOMAIN g : Items(g, x) = Items(h, x) \ {}
      BY <2>6, <2>7 DEF Items
    <3>2. \A x \in DOMAIN g : g[x].parent = h[x].parent
      BY <2>6, <2>7
    <3>3. ClosedIn(h, {})
      BY DEF ClosedIn
    <3>4. {} \subseteq DOMAIN h /\ DOMAIN g = DOMAIN h \ {}
      BY <2>6
    <3> QED
      BY <2>1, <3>1, <3>2, <3>3, <3>4, CutGraph
  <2> QED
    BY <2>6, <2>7, <2>8, <2>9, <2>10 DEF HeapOK, g
<1> QED
  BY <1>1, <1>2

\* The values that are being made stay so where the heap grows around them.
LEMMA FramesStay ==
    ASSUME NEW h, NEW g, NEW m, FramesOK(h, m), DOMAIN h \subseteq DOMAIN g,
           \A x \in DOMAIN h : g[x].is = h[x].is,
           \A k \in DOMAIN m : g[m[k].cell].parent = Nobody
    PROVE  FramesOK(g, m)
<1>1. ASSUME NEW k \in DOMAIN m
      PROVE  /\ m[k].cell \in DOMAIN g
             /\ m[k].source # Nobody => m[k].source \in DOMAIN g /\ g[m[k].source].is = g[m[k].cell].is
  BY DEF FramesOK
<1>2. ASSUME NEW k \in DOMAIN m, k > 1, g[m[k - 1].cell].is = AnObject PROVE m[k].name \in Names
  <2>1. m \in Seq(Frames)
    BY DEF FramesOK
  <2>2. k - 1 \in DOMAIN m
    BY <1>2, <2>1
  <2>3. h[m[k - 1].cell].is = AnObject
    BY <1>2, <2>2 DEF FramesOK
  <2> QED
    BY <1>2, <2>3 DEF FramesOK
<1> QED
  BY <1>1, <1>2 DEF FramesOK

\* A value that begins is the innermost one.
LEMMA FramesBegin ==
    ASSUME NEW h, HeapOK(h), NEW m, FramesOK(h, m), NEW g, NEW n, NEW kind, HasAllocated(h, g, n, kind),
           NEW source, source = Nobody \/ (source \in DOMAIN h /\ h[source].is = kind),
           NEW name \in Names \cup {NoName},
           m # <<>> /\ h[m[Len(m)].cell].is = AnObject => name \in Names
    PROVE  FramesOK(g, Append(m, [cell |-> n, source |-> source, name |-> name]))
<1> DEFINE f == [cell |-> n, source |-> source, name |-> name]
           w == Append(m, f)
           l == Len(m)
<1>1. /\ DOMAIN g = DOMAIN h \cup {n} /\ n \in Cells /\ n \notin DOMAIN h
      /\ g[n] = FreshCell(kind) /\ \A x \in DOMAIN h : g[x] = h[x]
  BY DEF HasAllocated
<1>2. m \in Seq(Frames) /\ l \in Nat /\ DOMAIN m = 1 .. l
  BY DEF FramesOK
<1>3. DOMAIN h \subseteq Cells
  BY DEF HeapOK, Typed
<1>4. f \in Frames /\ f.cell = n /\ f.source = source /\ f.name = name
  BY <1>1, <1>3 DEF Frames
<1> HIDE DEF f
<1>5. w \in Seq(Frames) /\ DOMAIN w = 1 .. l + 1 /\ w[l + 1] = f /\ \A k \in 1 .. l : w[k] = m[k]
  BY <1>2, <1>4
<1>6. FramesOK(g, m)
  <2>1. \A k \in DOMAIN m : g[m[k].cell].parent = Nobody
    BY <1>1 DEF FramesOK
  <2> QED
    BY <1>1, <2>1, FramesStay
<1>7. g[n].is = kind /\ g[n].parent = Nobody
  BY <1>1 DEF FreshCell
<1> HIDE DEF w, l
<1>8. \A k \in 1 .. l : /\ m[k].cell \in DOMAIN g /\ g[m[k].cell].parent = Nobody /\ m[k].cell # n
                        /\ m[k].source # Nobody => m[k].source \in DOMAIN g /\ g[m[k].source].is = g[m[k].cell].is
                        /\ k > 1 /\ g[m[k - 1].cell].is = AnObject => m[k].name \in Names
  <2>1. \A k \in 1 .. l : m[k].cell \in DOMAIN h
    BY <1>2 DEF FramesOK
  <2> QED
    BY <2>1, <1>1, <1>2, <1>6 DEF FramesOK
<1>9. ASSUME NEW k \in 1 .. l + 1
      PROVE  /\ w[k].cell \in DOMAIN g /\ g[w[k].cell].parent = Nobody
             /\ w[k].source # Nobody => w[k].source \in DOMAIN g /\ g[w[k].source].is = g[w[k].cell].is
             /\ k > 1 /\ g[w[k - 1].cell].is = AnObject => w[k].name \in Names
  <2>1. CASE k \in 1 .. l
    <3>1. w[k] = m[k] /\ (k > 1 => w[k - 1] = m[k - 1])
      BY <2>1, <1>2, <1>5
    <3> QED
      BY <3>1, <2>1, <1>8
  <2>2. CASE k = l + 1
    <3>1. w[k] = f
      BY <2>2, <1>5
    <3>2. f.cell \in DOMAIN g /\ g[f.cell].parent = Nobody
      BY <1>1, <1>4, <1>7
    <3>3. f.source # Nobody => f.source \in DOMAIN g /\ g[f.source].is = g[f.cell].is
      BY <1>1, <1>4, <1>7
    <3>4. ASSUME k > 1, g[w[k - 1].cell].is = AnObject PROVE f.name \in Names
      <4>1. k - 1 = l /\ l \in 1 .. l
        BY <2>2, <3>4, <1>2
      <4>2. w[k - 1] = m[l] /\ m # <<>>
        BY <4>1, <1>2, <1>5
      <4>3. m[l].cell \in DOMAIN h
        BY <4>1, <1>2 DEF FramesOK
      <4>4. h[m[l].cell].is = AnObject
        BY <4>2, <4>3, <3>4, <1>1
      <4> QED
        BY <4>2, <4>4, <1>4 DEF l
    <3> QED
      BY <3>1, <3>2, <3>3, <3>4
  <2>3. k \in 1 .. l \/ k = l + 1
    BY <1>2
  <2> QED
    BY <2>1, <2>2, <2>3
<1>10. ASSUME NEW j \in 1 .. l + 1, NEW k \in 1 .. l + 1, w[j].cell = w[k].cell PROVE j = k
  <2>1. (j \in 1 .. l \/ j = l + 1) /\ (k \in 1 .. l \/ k = l + 1)
    BY <1>2
  <2>2. j \in 1 .. l /\ k \in 1 .. l => j = k
    BY <1>2, <1>5, <1>10 DEF FramesOK
  <2> QED
    BY <2>1, <2>2, <1>4, <1>5, <1>8, <1>10
<1>11. FramesOK(g, w)
  BY <1>5, <1>9, <1>10 DEF FramesOK
<1> QED
  BY <1>11 DEF w, f

\* The innermost value has been added to the one around it.
LEMMA FramesEnd ==
    ASSUME NEW h, NEW m, FramesOK(h, m), m # <<>>, NEW g, DOMAIN g = DOMAIN h,
           \A x \in DOMAIN h : g[x].is = h[x].is,
           \A x \in DOMAIN h : x # m[Len(m)].cell => g[x].parent = h[x].parent
    PROVE  FramesOK(g, SubSeq(m, 1, Len(m) - 1))
<1> DEFINE l == Len(m)
           w == SubSeq(m, 1, l - 1)
<1>1. m \in Seq(Frames) /\ l \in Nat /\ l > 0 /\ DOMAIN m = 1 .. l
  BY DEF FramesOK
<1>2. w \in Seq(Frames) /\ DOMAIN w = 1 .. l - 1 /\ \A k \in 1 .. l - 1 : w[k] = m[k]
  BY <1>1
<1> HIDE DEF w, l
<1>3. FramesOK(h, w)
  BY <1>1, <1>2 DEF FramesOK
<1>4. ASSUME NEW k \in DOMAIN w PROVE g[w[k].cell].parent = Nobody
  <2>1. k \in 1 .. l /\ l \in 1 .. l /\ k # l /\ w[k] = m[k]
    BY <1>1, <1>2
  <2>2. m[k].cell # m[l].cell /\ m[k].cell \in DOMAIN h /\ h[m[k].cell].parent = Nobody
    BY <1>1, <2>1 DEF FramesOK
  <2> QED
    BY <2>1, <2>2 DEF l
<1>5. FramesOK(g, w)
  BY <1>3, <1>4, FramesStay
<1> QED
  BY <1>5 DEF w, l
-----------------------------------------------------------------------------
(* The steps                                                               *)

\* What the parser and the copy add to a container leaves a heap in order.
LEMMA AddOK ==
    ASSUME NEW h, HeapOK(h), NEW c \in DOMAIN h, NEW v \in DOMAIN h, h[v].parent = Nobody,
           c \notin Below(h, v), NEW name,
           h[c].is = AnObject => name \in Names /\ ~HasName(h, c, name)
    PROVE  HasAdded(h, Add(h, c, name, v), c, v)
<1>1. CASE h[c].is = AnObject
  BY <1>1, ObjectAddOK DEF Add
<1>2. CASE h[c].is # AnObject
  BY <1>2, ArrayAddOK DEF Add
<1> QED
  BY <1>1, <1>2

\* The kinds of containers are two.
LEMMA KindsDiffer == AnObject # AnArray
  BY DEF AnObject, AnArray

\* The operations of the callers keep the heap.
LEMMA OperateKeeps ==
    ASSUME HeapOK(heap), Operate PROVE HeapOK(heap')
<1>1. CASE Create
  <2>1. PICK kind \in Kinds : Room /\ heap' = Allocated(heap, kind)
    BY <1>1 DEF Create
  <2>2. HasAllocated(heap, Allocated(heap, kind), FreeCell(heap), kind)
    BY <2>1, AllocatedOK DEF Room
  <2> QED
    BY <2>1, <2>2 DEF HasAllocated
<1>2. CASE SetMember
  <2>1. PICK o \in Those(AnObject), v \in DOMAIN heap, name \in Names :
          Apart(o, v) /\ heap' = ObjectSet(heap, o, name, v)
    BY <1>2 DEF SetMember
  <2>2. HasSet(heap, ObjectSet(heap, o, name, v), o, name, v)
    BY <2>1, ObjectSetOK DEF Apart, Roots, Those
  <2> QED
    BY <2>1, <2>2 DEF HasSet
<1>3. CASE SetAtPath
  <2>1. PICK o \in Those(AnObject), v \in DOMAIN heap, path \in Paths :
          Apart(o, v) /\ (Room \/ HasName(heap, o, path[1])) /\ heap' = DotSet(heap, o, path, v)
    BY <1>3 DEF SetAtPath
  <2> QED
    BY <2>1, DotSetOK DEF Apart, Roots, Those, Room
<1>4. CASE RemoveMember
  <2>1. PICK o \in Those(AnObject) :
          \/ \E name \in Names : heap' = ObjectRemove(heap, o, name)
          \/ \E path \in Paths : heap' = DotRemove(heap, o, path)
    BY <1>4 DEF RemoveMember
  <2> QED
    BY <2>1, ObjectRemoveOK, DotRemoveOK DEF Those
<1>5. CASE AppendItem
  <2>1. PICK a \in Those(AnArray), v \in DOMAIN heap : Apart(a, v) /\ heap' = ArrayAdd(heap, a, v)
    BY <1>5 DEF AppendItem
  <2>2. HasAdded(heap, ArrayAdd(heap, a, v), a, v)
    BY <2>1, ArrayAddOK, KindsDiffer DEF Apart, Roots, Those
  <2> QED
    BY <2>1, <2>2 DEF HasAdded
<1>6. CASE ReplaceItem
  <2>1. PICK a \in Those(AnArray), v \in DOMAIN heap : \E i \in DOMAIN heap[a].items :
          Apart(a, v) /\ heap' = ArrayReplace(heap, a, i, v)
    BY <1>6 DEF ReplaceItem
  <2>2. PICK i \in DOMAIN heap[a].items : Apart(a, v) /\ heap' = ArrayReplace(heap, a, i, v)
    BY <2>1
  <2>3. HasReplaced(heap, Replaced(Freed(heap, heap[a].items[i]), a, i, v), a, i, v)
    BY <2>2, ReplacedOK DEF Apart, Roots, Those
  <2> QED
    BY <2>2, <2>3 DEF HasReplaced, ArrayReplace
<1>7. CASE RemoveItem
  BY <1>7, ArrayRemoveOK, KindsDiffer DEF RemoveItem, Those
<1>8. CASE Empty
  BY <1>8, ClearedOK DEF Empty, Those
<1>9. CASE Release
  BY <1>9, FreedOK DEF Release, Roots
<1> QED
  BY <1>1, <1>2, <1>3, <1>4, <1>5, <1>6, <1>7, <1>8, <1>9 DEF Operate

\* The stack of what is being made has a top.
LEMMA TopFrame ==
    ASSUME FramesOK(heap, making), making # <<>>
    PROVE  /\ Len(making) \in DOMAIN making /\ Top \in Frames /\ Top.cell \in DOMAIN heap
           /\ heap[Top.cell].parent = Nobody
           /\ Top.source # Nobody => Top.source \in DOMAIN heap /\ heap[Top.source].is = heap[Top.cell].is
<1>1. making \in Seq(Frames) /\ Len(making) \in DOMAIN making /\ making[Len(making)] \in Frames
  BY DEF FramesOK
<1> QED
  BY <1>1 DEF FramesOK, Top

\* The cases in which a value begins.
LEMMA BeginKeeps ==
    ASSUME TreeInv, NEW kind \in Kinds, NEW source, source = Nobody \/ (source \in DOMAIN heap /\ heap[source].is = kind),
           NEW name \in Names \cup {NoName},
           making # <<>> /\ heap[Top.cell].is = AnObject => name \in Names,
           BeginValue(kind, source, name)
    PROVE  TreeInv'
<1>1. HeapOK(heap) /\ FramesOK(heap, making)
  BY DEF TreeInv
<1>2. /\ DOMAIN heap # Cells /\ heap' = Allocated(heap, kind)
      /\ making' = Append(making, [cell |-> FreeCell(heap), source |-> source, name |-> name])
  BY DEF BeginValue, Room
<1>3. HasAllocated(heap, heap', FreeCell(heap), kind)
  BY <1>1, <1>2, AllocatedOK
<1>4. making # <<>> /\ heap[making[Len(making)].cell].is = AnObject => name \in Names
  BY DEF Top
<1>5. FramesOK(heap', making')
  BY <1>1, <1>2, <1>3, <1>4, FramesBegin
<1>6. HeapOK(heap')
  BY <1>3 DEF HasAllocated
<1> QED
  BY <1>5, <1>6 DEF TreeInv

\* Nothing is being made.
LEMMA NothingMade == ASSUME NEW h PROVE FramesOK(h, <<>>)
  BY DEF FramesOK

\* Every step keeps the invariant.
LEMMA StepKeeps ==
    ASSUME TreeInv, TreeNext PROVE TreeInv'
<1>1. HeapOK(heap) /\ FramesOK(heap, making) /\ Typed(heap) /\ Owned(heap) /\ Nobody \notin DOMAIN heap
      /\ \A x \in DOMAIN heap : heap[x] \in CellType /\ Sound(heap[x])
  BY NobodyIsNoCell DEF TreeInv, HeapOK, Graph, Typed, AllSound
<1>2. CASE making = <<>> /\ Operate /\ UNCHANGED making
  <2>1. HeapOK(heap')
    BY <1>1, <1>2, OperateKeeps
  <2>2. FramesOK(heap', making')
    BY <1>2, NothingMade
  <2> QED
    BY <2>1, <2>2 DEF TreeInv
<1>3. CASE ReadValue
  <2>1. PICK kind \in Kinds, name \in IF making # <<>> /\ Made.is = AnObject THEN Names ELSE {NoName} :
          BeginValue(kind, Nobody, name)
    BY <1>3 DEF ReadValue
  <2>2. name \in Names \cup {NoName} /\ (making # <<>> /\ heap[Top.cell].is = AnObject => name \in Names)
    BY <2>1 DEF Made
  <2> QED
    BY <2>1, <2>2, BeginKeeps
<1>4. CASE BeginCopy
  <2>1. making = <<>>
    BY <1>4 DEF BeginCopy
  <2>2. PICK v \in DOMAIN heap : BeginValue(heap[v].is, v, NoName)
    BY <1>4 DEF BeginCopy
  <2>3. heap[v].is \in Kinds
    BY <1>1, CellParts
  <2> QED
    BY <2>1, <2>2, <2>3, BeginKeeps
<1>5. CASE CopyItem
  <2> DEFINE from == heap[Top.source]
             i == Len(Made.items) + 1
             name == IF from.is = AnObject THEN from.names[i] ELSE NoName
  <2>1. making # <<>> /\ Top.source # Nobody /\ i <= Len(from.items)
        /\ BeginValue(heap[from.items[i]].is, from.items[i], name)
    BY <1>5 DEF CopyItem
  <2>2. /\ Top.cell \in DOMAIN heap /\ Top.source \in DOMAIN heap /\ from.is = heap[Top.cell].is
    BY <1>1, <2>1, TopFrame
  <2>3. from \in CellType /\ Sound(from) /\ heap[Top.cell] \in CellType
    BY <1>1, <2>2
  <2>4. from.items \in Seq(Cells) /\ from.names \in Seq(Names) /\ Made.items \in Seq(Cells)
    BY <2>3, CellParts DEF Made
  <2>5. i \in Nat \ {0} /\ i \in DOMAIN from.items
    BY <2>1, <2>4
  <2>6. from.items[i] \in DOMAIN heap
    <3>1. from.items[i] \in Items(heap, Top.source)
      BY <2>5 DEF Items
    <3> QED
      BY <3>1, <1>1, <2>2, ItemsAreCells
  <2>7. heap[from.items[i]].is \in Kinds
    BY <1>1, <2>6, CellParts
  <2>8. from.is = AnObject => from.names[i] \in Names
    <3>1. from.is = AnObject => Len(from.names) = Len(from.items)
      BY <2>3 DEF Sound
    <3> QED
      BY <3>1, <2>4, <2>5
  <2>9. name \in Names \cup {NoName} /\ (heap[Top.cell].is = AnObject => name \in Names)
    BY <2>2, <2>8
  <2> HIDE DEF from, i, name
  <2> QED
    BY <2>1, <2>6, <2>7, <2>9, BeginKeeps
<1>6. CASE Return
  <2>1. making # <<>> /\ heap' = Trimmed(heap, Top) /\ making' = <<>>
    BY <1>6 DEF Return, Complete
  <2>2. HeapOK(heap')
    BY <1>1, <2>1, TopFrame, TrimmedOK
  <2> QED
    BY <2>1, <2>2, NothingMade DEF TreeInv
<1>7. CASE AddToParent
  <2> DEFINE l == Len(making)
             c == making[l - 1].cell
             v == Top.cell
             h == Trimmed(heap, Top)
  <2>1. /\ making # <<>> /\ l > 1 /\ (heap[c].is = AnObject => ~HasName(heap, c, Top.name))
        /\ heap' = Add(h, c, Top.name, v) /\ making' = SubSeq(making, 1, l - 1)
    BY <1>7 DEF AddToParent, Complete
  <2>2. Top \in Frames /\ v \in DOMAIN heap /\ heap[v].parent = Nobody
    BY <1>1, <2>1, TopFrame
  <2>3. l \in Nat /\ l - 1 \in DOMAIN making /\ l \in DOMAIN making /\ Top = making[l]
    BY <2>1, <1>1 DEF FramesOK, Top
  <2>4. c \in DOMAIN heap /\ heap[c].parent = Nobody /\ c # v
        /\ (heap[c].is = AnObject => Top.name \in Names)
    <3>1. c \in DOMAIN heap /\ heap[c].parent = Nobody
      BY <1>1, <2>3 DEF FramesOK
    <3>2. c = v => l - 1 = l
      BY <1>1, <2>3 DEF FramesOK
    <3>3. heap[c].is = AnObject => Top.name \in Names
      BY <1>1, <2>1, <2>3 DEF FramesOK
    <3> QED
      BY <3>1, <3>2, <3>3, <2>3
  <2>5. /\ HeapOK(h) /\ DOMAIN h = DOMAIN heap
        /\ \A x \in DOMAIN heap : /\ h[x].is = heap[x].is /\ h[x].parent = heap[x].parent
                                  /\ h[x].names = heap[x].names /\ h[x].items = heap[x].items
    BY <1>1, <2>2, TrimmedOK
  <2> HIDE DEF h, l, c, v
  <2>6. c \notin Below(h, v)
    <3>1. Owned(h) /\ Nobody \notin DOMAIN h
      BY <1>1, <2>5 DEF HeapOK, Graph
    <3> QED
      BY <3>1, <2>2, <2>4, <2>5, RootBelow
  <2>7. h[c].is = AnObject => Top.name \in Names /\ ~HasName(h, c, Top.name)
    <3>1. h[c].names = heap[c].names /\ h[c].is = heap[c].is
      BY <2>4, <2>5
    <3> QED
      BY <3>1, <2>1, <2>4, SameIndex
  <2>8. HasAdded(h, heap', c, v)
    <3>1. c \in DOMAIN h /\ v \in DOMAIN h /\ h[v].parent = Nobody
      BY <2>2, <2>4, <2>5
    <3> QED
      BY <3>1, <2>1, <2>5, <2>6, <2>7, AddOK
  <2>9. /\ HeapOK(heap') /\ DOMAIN heap' = DOMAIN h /\ heap'[c].parent = h[c].parent
        /\ \A x \in DOMAIN h : heap'[x].is = h[x].is
        /\ \A x \in DOMAIN h : x # c /\ x # v => heap'[x] = h[x]
    BY <2>8 DEF HasAdded
  <2>10. /\ DOMAIN heap' = DOMAIN heap /\ \A x \in DOMAIN heap : heap'[x].is = heap[x].is
         /\ \A x \in DOMAIN heap : x # making[Len(making)].cell => heap'[x].parent = heap[x].parent
    BY <2>3, <2>5, <2>9 DEF v, l
  <2>11. FramesOK(heap', making')
    BY <1>1, <2>1, <2>10, FramesEnd DEF l
  <2> QED
    BY <2>9, <2>11 DEF TreeInv
<1>8. CASE Refuse
  <2> DEFINE X == {making[k].cell : k \in DOMAIN making}
             R == UNION {Below(heap, making[k].cell) : k \in DOMAIN making}
  <2>1. heap' = Without(heap, R) /\ making' = <<>>
    BY <1>8 DEF Refuse
  <2>2. R = UNION {Below(heap, x) : x \in X}
    OBVIOUS
  <2>3. X \subseteq DOMAIN heap /\ \A x \in X : heap[x].parent = Nobody
    BY <1>1 DEF FramesOK
  <2> HIDE DEF X, R
  <2>4. HeapOK(heap')
    BY <1>1, <2>1, <2>2, <2>3, WithoutOK
  <2> QED
    BY <2>1, <2>4, NothingMade DEF TreeInv
<1> QED
  BY <1>2, <1>3, <1>4, <1>5, <1>6, <1>7, <1>8 DEF TreeNext
-----------------------------------------------------------------------------
(* The theorems                                                            *)

\* The invariant is inductive: a heap of sound values, whose owners and whose
\* items agree, with roots for all that is being made, stays one.
THEOREM TreeInvariant == TreeSpec => []TreeInv
<1>1. TreeInit => TreeInv
  <2> SUFFICES ASSUME TreeInit PROVE TreeInv
    OBVIOUS
  <2>1. heap = <<>> /\ making = <<>> /\ DOMAIN heap = {}
    BY DEF TreeInit
  <2>2. heap \in [DOMAIN heap -> CellType]
    BY <2>1
  <2>3. HeapOK(heap)
    BY <2>1, <2>2 DEF HeapOK, Typed, AllSound, Graph, Owned, Listed, Acyclic
  <2> QED
    BY <2>1, <2>3, NothingMade DEF TreeInv
<1>2. TreeInv /\ [TreeNext]_tvars => TreeInv'
  <2>1. ASSUME TreeInv, UNCHANGED tvars PROVE TreeInv'
    <3>1. heap' = heap /\ making' = making
      BY <2>1 DEF tvars
    <3> QED
      BY <2>1, <3>1 DEF TreeInv
  <2> QED
    BY <2>1, StepKeeps
<1> QED
  BY <1>1, <1>2, PTL DEF TreeSpec

\* Every value of parson.c has one owner, which knows it: through sets that overwrite,
\* removals that move the last member, copies and texts that are refused half way.
THEOREM ValuesHaveOneOwner == TreeSpec => []OneOwner
<1>1. TreeInv => OneOwner
  <2> SUFFICES ASSUME TreeInv, NEW c \in DOMAIN heap
      PROVE  /\ \A i \in DOMAIN heap[c].items :
                    heap[c].items[i] \in DOMAIN heap /\ heap[heap[c].items[i]].parent = c
             /\ Injective(heap[c].items) /\ Injective(heap[c].names)
             /\ Len(heap[c].items) <= heap[c].capacity
             /\ heap[c].parent # Nobody =>
                    heap[c].parent \in DOMAIN heap /\ c \in Items(heap, heap[c].parent)
    BY DEF OneOwner
  <2>1. Sound(heap[c]) /\ Owned(heap) /\ Listed(heap)
    BY DEF TreeInv, HeapOK, AllSound, Graph
  <2>2. \A i \in DOMAIN heap[c].items : heap[c].items[i] \in Items(heap, c)
    BY DEF Items
  <2> QED
    BY <2>1, <2>2 DEF Sound, Owned, Listed
<1> QED
  BY <1>1, TreeInvariant, PTL

\* A value that json_object_dotset_value sets at a path is found at it by
\* json_object_dotget_value, except where a value that is no object is in the way.
THEOREM PathsReach == TreeSpec => []DotSetReaches
<1>1. TreeInv => DotSetReaches
  <2> SUFFICES ASSUME TreeInv, NEW o \in Those(AnObject), NEW v \in Roots, NEW path \in Paths,
                      Room \/ HasName(heap, o, path[1]), Apart(o, v)
      PROVE  Reaches(heap, DotSet(heap, o, path, v), o, path, v)
    BY DEF DotSetReaches, Reaches
  <2> QED
    BY DotSetOK DEF TreeInv, Those, Roots, Apart, Room
<1> QED
  BY <1>1, TreeInvariant, PTL
=============================================================================
