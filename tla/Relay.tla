--------------------------------- MODULE Relay ---------------------------------
(***************************************************************************)
(* What the redis link of wsd promises the reactor that publishes and the   *)
(* clients it delivers to: a message may be lost at any point of its way,   *)
(* but none is made up, none comes twice, and none overtakes another.  A    *)
(* message is the number of its publication.                                *)
(***************************************************************************)
EXTENDS Naturals, Sequences

VARIABLES
    published,   \* by the reactor
    received,    \* by the redis server
    delivered    \* to the clients

Init == published = <<>> /\ received = <<>> /\ delivered = <<>>

\* m comes after all messages of h.
Follows(m, h) == \A i \in DOMAIN h : h[i] < m

Publish == /\ published' = Append(published, Len(published) + 1)
           /\ UNCHANGED <<received, delivered>>

Accept == /\ \E m \in 1 .. Len(published) : Follows(m, received) /\ received' = Append(received, m)
          /\ UNCHANGED <<published, delivered>>

Deliver == /\ \E i \in DOMAIN received : /\ Follows(received[i], delivered)
                                         /\ delivered' = Append(delivered, received[i])
           /\ UNCHANGED <<published, received>>

Next == Publish \/ Accept \/ Deliver

Spec == Init /\ [][Next]_<<published, received, delivered>>
=============================================================================
