------------------------------ MODULE MCClient3 ------------------------------
(* Instances of Client3: the commands are model values.                    *)
EXTENDS Client3

CONSTANTS c1, c2

TwoCmds == {c1, c2}
=============================================================================
