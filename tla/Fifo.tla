--------------------------------- MODULE Fifo ---------------------------------
(***************************************************************************)
(* What an io_buffer of api/websockets/wsd/lists.c promises to the reactor: *)
(* bytes come out in the order they went in, none lost and none repeated,   *)
(* until the whole buffer is given up.                                      *)
(***************************************************************************)
EXTENDS Naturals, Sequences

CONSTANT Data   \* what a caller may push at once

VARIABLE queue

Init == queue = <<>>

Put == \E d \in Data : queue' = queue \o d

Take == \E n \in 0 .. Len(queue) : queue' = SubSeq(queue, n + 1, Len(queue))

Clear == queue' = <<>>

Next == Put \/ Take \/ Clear

Spec == Init /\ [][Next]_queue
=============================================================================
