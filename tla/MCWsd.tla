-------------------------------- MODULE MCWsd --------------------------------
(* Instances of Wsd: the sessions, and who the passport says owns them.    *)
EXTENDS Wsd

CONSTANTS s1, s2

\* Two users with a session each.
TwoOwners == [s \in {s1, s2} |-> IF s = s1 THEN 1 ELSE 2]

\* One user with one session.
OneOwner == [s \in {s1} |-> 1]
=============================================================================
