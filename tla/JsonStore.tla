------------------------------ MODULE JsonStore ------------------------------
(***************************************************************************)
(* The values of api/websockets/wsd/parson.c as texts: what wsd keeps and  *)
(* sends is written from values and read into values again.                *)
(***************************************************************************)
EXTENDS JsonTree

CONSTANT Texts   \* what clients send

Form == INSTANCE JsonText

RECURSIVE Contents(_, _)
Contents(h, v) == Form!Value(h[v].is.type, h[v].is.num, h[v].is.str, h[v].names,
                             [i \in DOMAIN h[v].items |-> Contents(h, h[v].items[i])])

\* json_serialize_to_string and the functions it is made of.
Serialized(v, pretty) == Form!Text(v, pretty, 0)

RECURSIVE Depth(_)
Depth(v) == LET depths == {1 + Depth(v.items[i]) : i \in DOMAIN v.items}
            IN  IF depths = {} THEN 0 ELSE CHOOSE d \in depths : \A e \in depths : e <= d
-----------------------------------------------------------------------------
\* r, read from the text of x, is x, or nothing when x is nested too deep to be read.
ReadBack(x, r) == IF Depth(x) <= MaxNesting THEN r.ok /\ Form!Equals(r.v, x) ELSE ~r.ok

Kept(x) == \A pretty \in BOOLEAN : ReadBack(x, Form!Parse(Serialized(x, pretty)))

\* What the clients' texts are read as.
FromTexts == {r.v : r \in {s \in {Form!Parse(t) : t \in Texts} : s.ok}}

\* What wsd relies on when it keeps the list of users as a text (users.c:186-189):
\* a value that was written, in either form, is read back equal, whatever its
\* strings hold, unless it is nested too deep to be read; the value may have been
\* made by any operations, or read from any text of a client.
TextKept == (\A v \in Roots : Kept(Contents(heap, v))) /\ (making = <<>> => \A x \in FromTexts : Kept(x))
=============================================================================
