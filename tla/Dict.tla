-------------------------------- MODULE Dict --------------------------------
(***************************************************************************)
(* The hash table of hiredis (api/websockets/hiredis/dict.c), which keeps   *)
(* the callbacks of the channels that are subscribed to: chains of entries  *)
(* in a table whose size is a power of two, doubled when there are as many  *)
(* entries as chains.  One step is one turn of a loop of dictExpand.        *)
(***************************************************************************)
EXTENDS Integers, FiniteSets, Sequences, SequencesExt

CONSTANTS
    Keys, Values,
    Hash,         \* the hash of each key, dictGenHashFunction in async.c
    InitialSize   \* DICT_HT_INITIAL_SIZE

Null == "null"

ASSUME DictAssumption == Hash \in [Keys -> Nat] /\ InitialSize \in Nat \ {0} /\ Null \notin Keys

VARIABLES
    table,   \* the chains, from slot 0; none while it is NULL
    used,
    new,     \* n of dictExpand and its index i; the size while it is looked for
    task,    \* the dictReplace that runs, and how far it is
    iter     \* a dictIterator, or NoIter; entry and nextEntry by their keys

dvars == <<table, used, new, task, iter>>

NoNew == [size |-> 0, table |-> <<>>, used |-> 0, i |-> 0]
NoTask == [step |-> "none", key |-> Null, val |-> Null]
NoIter == [index |-> -1, entry |-> Null, nextEntry |-> Null]

DictInit == table = <<>> /\ used = 0 /\ new = NoNew /\ task = NoTask /\ iter = NoIter

\* dictHashKey & sizemask, as an index of the sequence: sizes are powers of two.
Slot(t, key) == (Hash[key] % Len(t)) + 1

Position(chain, key) == SelectInSeq(chain, LAMBDA e : e.key = key)
Has(t, key) == t # <<>> /\ Position(t[Slot(t, key)], key) # 0

At(step) == task.step = step

\* dictReplace calls dictAdd, and that _dictExpandIfNeeded: the room is made before the
\* key is looked for.
ReplaceBegins(key, val) ==
    /\ At("none") /\ iter = NoIter
    /\ IF Len(table) = 0 \/ used = Len(table)
       THEN /\ task' = [step |-> "size", key |-> key, val |-> val]
            /\ new' = [NoNew EXCEPT !.size = InitialSize]
       ELSE task' = [step |-> "store", key |-> key, val |-> val] /\ UNCHANGED new
    /\ UNCHANGED <<table, used, iter>>

\* What dictExpand is asked for; used is never more (dict.c:94).
Wanted == IF Len(table) = 0 THEN InitialSize ELSE 2 * Len(table)

\* The loop of _dictNextPower.
DoubleSize ==
    /\ At("size") /\ new.size < Wanted
    /\ new' = [new EXCEPT !.size = 2 * @]
    /\ UNCHANGED <<table, used, task, iter>>

\* The new table, of empty chains.
Allocate ==
    /\ At("size") /\ new.size >= Wanted
    /\ new' = [new EXCEPT !.table = [h \in 1 .. new.size |-> <<>>], !.used = used]
    /\ task' = [task EXCEPT !.step = "move"]
    /\ UNCHANGED <<table, used, iter>>

ChainDone == new.i # 0 => table[new.i] = <<>>

\* The loop over the old chains, which ends when no entry is left.
NextChain ==
    /\ At("move") /\ ChainDone /\ new.i < Len(table) /\ used > 0
    /\ new' = [new EXCEPT !.i = @ + 1]
    /\ UNCHANGED <<table, used, task, iter>>

\* Variant: the entry stays in the slot it had.
MoveEntryInPlace ==
    /\ At("move") /\ ~ChainDone
    /\ new' = [new EXCEPT !.table[new.i] = <<Head(table[new.i])>> \o @]
    /\ table' = [table EXCEPT ![new.i] = Tail(@)]
    /\ used' = used - 1
    /\ UNCHANGED <<task, iter>>

\* The loop over one of them: its first entry goes to the head of its new chain, and
\* what is left of the old one is what follows it.
MoveEntry ==
    /\ At("move") /\ ~ChainDone
    /\ LET he == Head(table[new.i])
       IN  new' = [new EXCEPT !.table[Slot(new.table, he.key)] = <<he>> \o @]
    /\ table' = [table EXCEPT ![new.i] = Tail(@)]
    /\ used' = used - 1
    /\ UNCHANGED <<task, iter>>

\* "Remap the new hashtable in the old".
Remap ==
    /\ At("move") /\ ChainDone /\ (new.i >= Len(table) \/ used = 0)
    /\ table' = new.table /\ used' = new.used /\ new' = NoNew
    /\ task' = [task EXCEPT !.step = "store"]
    /\ UNCHANGED iter

\* Variant: an entry that is there is counted once more.
StoreEntryCounting ==
    /\ At("store")
    /\ LET h == Slot(table, task.key)
           k == Position(table[h], task.key)
       IN  IF k # 0
           THEN table' = [table EXCEPT ![h][k].val = task.val]
           ELSE table' = [table EXCEPT ![h] = <<[key |-> task.key, val |-> task.val]>> \o @]
    /\ used' = used + 1
    /\ task' = NoTask
    /\ UNCHANGED <<new, iter>>

\* The rest of dictAdd, for a key that is not there, and that of dictReplace, which sets
\* the value of an entry that is.
StoreEntry ==
    /\ At("store")
    /\ LET h == Slot(table, task.key)
           k == Position(table[h], task.key)
       IN  IF k # 0
           THEN table' = [table EXCEPT ![h][k].val = task.val] /\ UNCHANGED used
           ELSE /\ table' = [table EXCEPT ![h] = <<[key |-> task.key, val |-> task.val]>> \o @]
                /\ used' = used + 1
    /\ task' = NoTask
    /\ UNCHANGED <<new, iter>>

\* dictDelete.
DeleteEntry(key) ==
    /\ At("none")
    /\ IF Has(table, key)
       THEN LET h == Slot(table, key)
            IN  /\ table' = [table EXCEPT ![h] = RemoveAt(@, Position(@, key))]
                /\ used' = used - 1
       ELSE UNCHANGED <<table, used>>
    /\ UNCHANGED <<new, task, iter>>

\* _dictClear, which dictRelease calls.
ClearTable ==
    /\ At("none") /\ iter = NoIter
    /\ table' = <<>> /\ used' = 0
    /\ UNCHANGED <<new, task, iter>>

\* dictGetIterator.
GetIterator ==
    /\ At("none") /\ iter = NoIter
    /\ iter' = [NoIter EXCEPT !.index = 0]
    /\ UNCHANGED <<table, used, new, task>>

KeyAt(chain, k) == IF k <= Len(chain) THEN chain[k].key ELSE Null

\* The iterator at the k-th entry of chain h: the next one is saved, for the caller
\* may delete the entry.
IterAt(h, k) == [index |-> h, entry |-> table[h][k].key, nextEntry |-> KeyAt(table[h], k + 1)]

\* The chains dictNext has yet to come to that have an entry.
Later == {h \in iter.index + 1 .. Len(table) : table[h] # <<>>}

\* dictNext: the entry that was saved, or the head of the next chain that has one,
\* and at the end dictReleaseIterator.
Advance ==
    /\ iter # NoIter
    /\ iter' = IF iter.nextEntry # Null
               THEN IterAt(iter.index, Position(table[iter.index], iter.nextEntry))
               ELSE IF Later # {} THEN IterAt(Min(Later), 1) ELSE NoIter
    /\ UNCHANGED <<table, used, new, task>>

\* The callers: while they iterate they delete at most the entry they were given.
DictNext ==
    \/ \E key \in Keys, val \in Values : ReplaceBegins(key, val)
    \/ \E key \in Keys : iter = NoIter /\ DeleteEntry(key)
    \/ DoubleSize \/ Allocate \/ NextChain \/ MoveEntry \/ Remap \/ StoreEntry
    \/ ClearTable \/ GetIterator \/ Advance
    \/ iter.entry # Null /\ DeleteEntry(iter.entry)

DictSpec == DictInit /\ [][DictNext]_dvars
-----------------------------------------------------------------------------
(* Properties                                                              *)

InChains(t) == UNION {ToSet(chain) : chain \in ToSet(t)}
KeysOf(entries) == {e.key : e \in entries}

\* `used` is the number of entries, so that the loop of dictExpand, which ends when none
\* is left by that count, leaves none behind, and "assert(ht->used == 0)" (dict.c:126)
\* holds.
UsedCounts ==
    /\ used = Cardinality(KeysOf(InChains(table)))
    /\ At("move") => new.used = used + Cardinality(KeysOf(InChains(new.table)))

\* What is in the old table and in the one that replaces it.
Stored == InChains(table) \cup InChains(new.table)
Contents == [key \in KeysOf(Stored) |-> (CHOOSE e \in Stored : e.key = key).val]

\* The keys an iteration has yet to come to.
Ahead ==
    IF iter = NoIter THEN {}
    ELSE (UNION {KeysOf(ToSet(table[h])) : h \in iter.index + 1 .. Len(table)}) \cup
         (IF iter.nextEntry = Null THEN {}
          ELSE LET chain == table[iter.index]
               IN  {chain[k].key : k \in Position(chain, iter.nextEntry) .. Len(chain)})

\* The table is a map, through every growth and collision, and dict.c:279 "the
\* iterator user may delete the entry we are returning" holds of its iterator.
Map == INSTANCE KeyMap WITH map <- Contents, iterating <- iter # NoIter, unseen <- Ahead
IsMap == Map!Spec
=============================================================================
