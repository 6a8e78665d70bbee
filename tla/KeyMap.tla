------------------------------- MODULE KeyMap -------------------------------
(* What a dictionary promises: a map from keys to values, and iterations that *)
(* yield every key once, of which those already yielded may be deleted.       *)

CONSTANTS Keys, Values
VARIABLES map, iterating, unseen

kvars == <<map, iterating, unseen>>

Init == map = [k \in {} |-> k] /\ iterating = FALSE /\ unseen = {}

Put(k, v) == /\ ~iterating
             /\ map' = [x \in DOMAIN map \cup {k} |-> IF x = k THEN v ELSE map[x]]
             /\ UNCHANGED <<iterating, unseen>>
Remove(k) == /\ k \in DOMAIN map /\ k \notin unseen
             /\ map' = [x \in DOMAIN map \ {k} |-> map[x]]
             /\ UNCHANGED <<iterating, unseen>>
Clear == ~iterating /\ map' = [k \in {} |-> k] /\ UNCHANGED <<iterating, unseen>>

Begin == ~iterating /\ iterating' = TRUE /\ unseen' = DOMAIN map /\ UNCHANGED map
Yield == iterating /\ \E k \in unseen : unseen' = unseen \ {k} /\ UNCHANGED <<map, iterating>>
End   == iterating /\ unseen = {} /\ iterating' = FALSE /\ UNCHANGED <<map, unseen>>

Next == \/ \E k \in Keys : Remove(k) \/ \E v \in Values : Put(k, v)
        \/ Clear \/ Begin \/ Yield \/ End

Spec == Init /\ [][Next]_kvars
=============================================================================
