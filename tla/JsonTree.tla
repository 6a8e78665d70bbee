------------------------------- MODULE JsonTree -------------------------------
(***************************************************************************)
(* The values of api/websockets/wsd/parson.c on the heap: objects and      *)
(* arrays own the values in them and free them with themselves, and each   *)
(* value points to its parent.  A pointer is the number of a cell; memory  *)
(* that was freed is given out again.  Running out of memory is left out.  *)
(* What recurses through a value, the parser and the copy, takes one step  *)
(* for each value it begins and one for each that it adds to its parent.   *)
(***************************************************************************)
EXTENDS Integers, Sequences, FiniteSets

CONSTANTS
    MaxCells,          \* bound: values at a time
    StartingCapacity,  \* STARTING_CAPACITY
    MaxNesting,        \* MAX_NESTING
    Names,             \* names of members
    Scalars            \* strings, numbers, booleans and null, as kinds

VARIABLES
    heap,   \* the values there are, by their cells
    making  \* the values being read or copied, the outermost first

tvars == <<heap, making>>

AnObject == [type |-> "object", num |-> 0, str |-> <<>>]
AnArray == [type |-> "array", num |-> 0, str |-> <<>>]
Containers == {AnObject, AnArray}
Kinds == Scalars \cup Containers

ASSUME TreeAssumption ==
    /\ MaxCells \in Nat /\ StartingCapacity \in Nat \ {0} /\ MaxNesting \in Nat
    /\ Scalars \cap Containers = {}

Cells == 1 .. MaxCells
Nobody == 0
NoName == <<>>

\* json_value_init_object, _array, _string, _number, _boolean, _null.
FreshCell(kind) == [is |-> kind, parent |-> Nobody, names |-> <<>>, items |-> <<>>, capacity |-> 0]

FreeCell(h) == CHOOSE c \in Cells : c \notin DOMAIN h
Allocated(h, kind) ==
    [x \in DOMAIN h \cup {FreeCell(h)} |-> IF x = FreeCell(h) THEN FreshCell(kind) ELSE h[x]]

Items(h, c) == {h[c].items[i] : i \in DOMAIN h[c].items}

\* What a value owns, with itself: the least set that holds it and the items of all its values.
Below(h, v) ==
    {x \in DOMAIN h : \A S \in SUBSET DOMAIN h : v \in S /\ (\A y \in S : Items(h, y) \subseteq S) => x \in S}

\* json_value_free, with json_object_free and json_array_free.
Without(h, gone) == [x \in DOMAIN h \ gone |-> h[x]]
Freed(h, v) == Without(h, Below(h, v))

\* json_array_add, and with a name json_object_addn; both resize a full container.
Enlarged(cell) ==
    IF Len(cell.items) < cell.capacity THEN cell.capacity
    ELSE IF 2 * cell.capacity > StartingCapacity THEN 2 * cell.capacity ELSE StartingCapacity
ArrayAdd(h, c, v) ==
    [h EXCEPT ![v].parent = c, ![c].items = Append(@, v), ![c].capacity = Enlarged(h[c])]
ObjectAdd(h, c, name, v) == [ArrayAdd(h, c, v) EXCEPT ![c].names = Append(@, name)]
Add(h, c, name, v) == IF h[c].is = AnObject THEN ObjectAdd(h, c, name, v) ELSE ArrayAdd(h, c, v)

\* json_object_getn_value: the place of a name, and the value there.
Index(h, o, name) ==
    IF \E i \in DOMAIN h[o].names : h[o].names[i] = name
    THEN CHOOSE i \in DOMAIN h[o].names : h[o].names[i] = name ELSE 0
Member(h, o, name) == h[o].items[Index(h, o, name)]
HasName(h, o, name) == Index(h, o, name) # 0

Replaced(h, c, i, v) == [h EXCEPT ![c].items[i] = v, ![v].parent = c]

\* Variant: the value that is overwritten is not freed.
ObjectSetLeaking(h, o, name, v) ==
    IF HasName(h, o, name) THEN Replaced(h, o, Index(h, o, name), v) ELSE ObjectAdd(h, o, name, v)

\* json_object_set_value, of a value without a parent.
ObjectSet(h, o, name, v) ==
    IF HasName(h, o, name) THEN Replaced(Freed(h, Member(h, o, name)), o, Index(h, o, name), v)
    ELSE ObjectAdd(h, o, name, v)

\* json_object_remove_internal: the last member takes the place.
Filled(seq, i) == [j \in 1 .. Len(seq) - 1 |-> IF j = i THEN seq[Len(seq)] ELSE seq[j]]
ObjectRemove(h, o, name) ==
    LET i == Index(h, o, name)
    IN  IF HasName(h, o, name)
        THEN [Freed(h, Member(h, o, name)) EXCEPT ![o].names = Filled(@, i), ![o].items = Filled(@, i)]
        ELSE h

\* Variant: the type of what is in the way is not looked at.
DotSetOver(h, o, path, v) ==
    LET n == FreeCell(h)
        m == Member(h, o, path[1])
    IN  IF ~HasName(h, o, path[1])
        THEN ObjectAdd(ObjectAdd(Allocated(h, AnObject), n, path[2], v), o, path[1], n)
        ELSE ObjectSet(h, m, path[2], v)

\* json_object_dotset_value with a path of two names, as all paths of wsd are: an
\* object that is not there is made, and nothing is done when something else is there.
DotSet(h, o, path, v) ==
    LET n == FreeCell(h)
        m == Member(h, o, path[1])
    IN  IF ~HasName(h, o, path[1])
        THEN ObjectAdd(ObjectAdd(Allocated(h, AnObject), n, path[2], v), o, path[1], n)
        ELSE IF h[m].is = AnObject THEN ObjectSet(h, m, path[2], v) ELSE h

\* json_object_dotremove_internal.
DotRemove(h, o, path) ==
    LET m == Member(h, o, path[1])
    IN  IF HasName(h, o, path[1]) /\ h[m].is = AnObject THEN ObjectRemove(h, m, path[2]) ELSE h

\* json_object_dotget_value: the cell, or Nobody.
DotGet(h, o, path) ==
    LET m == Member(h, o, path[1])
    IN  IF HasName(h, o, path[1]) /\ h[m].is = AnObject /\ HasName(h, m, path[2]) THEN Member(h, m, path[2]) ELSE Nobody

\* json_array_remove, json_array_replace_value.
Shifted(seq, i) == [j \in 1 .. Len(seq) - 1 |-> IF j < i THEN seq[j] ELSE seq[j + 1]]
ArrayRemove(h, a, i) == [Freed(h, h[a].items[i]) EXCEPT ![a].items = Shifted(@, i)]
ArrayReplace(h, a, i, v) == Replaced(Freed(h, h[a].items[i]), a, i, v)

\* json_object_clear, json_array_clear.
Inside(h, c) == UNION {Below(h, x) : x \in Items(h, c)}
Cleared(h, c) == [Without(h, Inside(h, c)) EXCEPT ![c].names = <<>>, ![c].items = <<>>]
-----------------------------------------------------------------------------
Roots == {v \in DOMAIN heap : heap[v].parent = Nobody}
Those(kind) == {v \in DOMAIN heap : heap[v].is = kind}
Paths == Names \X Names
Room == DOMAIN heap # Cells

TreeInit == heap = <<>> /\ making = <<>>

\* The callers keep a value out of itself, and free what has no parent.  A value
\* that has one is refused by every function that would attach it.
Apart(c, v) == v \in Roots /\ c \notin Below(heap, v)

Create == \E kind \in Kinds : Room /\ heap' = Allocated(heap, kind)

SetMember == \E o \in Those(AnObject), v \in DOMAIN heap, name \in Names :
    Apart(o, v) /\ heap' = ObjectSet(heap, o, name, v)

SetAtPath == \E o \in Those(AnObject), v \in DOMAIN heap, path \in Paths :
    Apart(o, v) /\ (Room \/ HasName(heap, o, path[1])) /\ heap' = DotSet(heap, o, path, v)

RemoveMember == \E o \in Those(AnObject) :
    \/ \E name \in Names : heap' = ObjectRemove(heap, o, name)
    \/ \E path \in Paths : heap' = DotRemove(heap, o, path)

AppendItem == \E a \in Those(AnArray), v \in DOMAIN heap : Apart(a, v) /\ heap' = ArrayAdd(heap, a, v)

ReplaceItem == \E a \in Those(AnArray), v \in DOMAIN heap : \E i \in DOMAIN heap[a].items :
    Apart(a, v) /\ heap' = ArrayReplace(heap, a, i, v)

RemoveItem == \E a \in Those(AnArray) : \E i \in DOMAIN heap[a].items : heap' = ArrayRemove(heap, a, i)

Empty == \E c \in Those(AnObject) \cup Those(AnArray) : heap' = Cleared(heap, c)

Release == \E v \in Roots : heap' = Freed(heap, v)

-----------------------------------------------------------------------------
(* The parser and the copy.  Each value that is being made is on the stack  *)
(* of C with the value it is a copy of, if it is one, and its future name.  *)

Top == making[Len(making)]
Made == heap[Top.cell]

BeginValue(kind, source, name) ==
    /\ Room
    /\ heap' = Allocated(heap, kind)
    /\ making' = Append(making, [cell |-> FreeCell(heap), source |-> source, name |-> name])

\* parse_value, with parse_object_value, parse_array_value and the others: whatever
\* the text is, a value begins, at the outside or in the container that is being read.
ReadValue ==
    /\ Len(making) <= MaxNesting
    /\ making # <<>> => Top.source = Nobody /\ Made.is \in Containers
    /\ \E kind \in Kinds, name \in IF making # <<>> /\ Made.is = AnObject THEN Names ELSE {NoName} :
          BeginValue(kind, Nobody, name)

\* json_value_deep_copy begins, and comes to the next item.
BeginCopy ==
    /\ making = <<>>
    /\ \E v \in DOMAIN heap :
          /\ Cardinality(DOMAIN heap) + Cardinality(Below(heap, v)) <= MaxCells
          /\ BeginValue(heap[v].is, v, NoName)

CopyItem ==
    /\ making # <<>> /\ Top.source # Nobody
    /\ LET from == heap[Top.source]
           i == Len(Made.items) + 1
       IN  /\ i <= Len(from.items)
           /\ BeginValue(heap[from.items[i]].is, from.items[i], IF from.is = AnObject THEN from.names[i] ELSE NoName)

\* A value is whole: the parser trims it, and it is returned, or added to the
\* container around it, whose names differ.
Trimmed(h, frame) ==
    IF frame.source = Nobody THEN [h EXCEPT ![frame.cell].capacity = Len(h[frame.cell].items)] ELSE h

Complete == making # <<>> /\ (Top.source # Nobody => Len(Made.items) = Len(heap[Top.source].items))

Return == Complete /\ Len(making) = 1 /\ heap' = Trimmed(heap, Top) /\ making' = <<>>

AddToParent ==
    /\ Complete /\ Len(making) > 1
    /\ LET c == making[Len(making) - 1].cell
       IN  /\ heap[c].is = AnObject => ~HasName(heap, c, Top.name)
           /\ heap' = Add(Trimmed(heap, Top), c, Top.name, Top.cell)
           /\ making' = SubSeq(making, 1, Len(making) - 1)

\* The text is no JSON, is nested too deep or names a member twice: all that was made
\* of it is freed.
Refuse ==
    /\ making # <<>> /\ Top.source = Nobody
    /\ heap' = Without(heap, UNION {Below(heap, making[k].cell) : k \in DOMAIN making})
    /\ making' = <<>>

Operate ==
    \/ Create \/ SetMember \/ SetAtPath \/ RemoveMember \/ AppendItem \/ ReplaceItem \/ RemoveItem
    \/ Empty \/ Release

TreeNext ==
    \/ making = <<>> /\ Operate /\ UNCHANGED making
    \/ ReadValue \/ BeginCopy \/ CopyItem \/ Return \/ AddToParent \/ Refuse

TreeSpec == TreeInit /\ [][TreeNext]_tvars
-----------------------------------------------------------------------------
(* Properties                                                              *)

\* Every value has one owner, which knows it: through sets that overwrite, removals
\* that move the last member, copies, texts that are refused half way and the reuse of
\* memory, no container holds a value that was freed or that another one holds, no
\* value with a parent is lost, and the names of an object differ.
Injective(seq) == \A i, j \in DOMAIN seq : seq[i] = seq[j] => i = j
OneOwner == \A c \in DOMAIN heap :
    LET cell == heap[c]
    IN  /\ \A i \in DOMAIN cell.items : cell.items[i] \in DOMAIN heap /\ heap[cell.items[i]].parent = c
        /\ Injective(cell.items) /\ Injective(cell.names)
        /\ Len(cell.items) <= cell.capacity
        /\ cell.parent # Nobody => cell.parent \in DOMAIN heap /\ c \in Items(heap, cell.parent)

\* A value set at a path is found at it, and the object on the way is there or made,
\* except where the path is blocked by a value that is no object: that one stays, and
\* server.c:424-425, which so names the sender of a message, does not look at the
\* result.
DotSetReaches == \A o \in Those(AnObject), v \in Roots, path \in Paths :
    (Room \/ HasName(heap, o, path[1])) /\ Apart(o, v) =>
        LET h == DotSet(heap, o, path, v)
        IN  IF HasName(heap, o, path[1]) /\ heap[Member(heap, o, path[1])].is # AnObject
            THEN h = heap ELSE DotGet(h, o, path) = v
=============================================================================
