----------------------------- MODULE FieldTables -----------------------------
(***************************************************************************)
(* Tables of fields.  A table is a function from the path of a field, a    *)
(* tuple of Go field names, to its class.  In a table of what is read:     *)
(*   optional  a pointer, a list or an enumeration: it may be absent       *)
(*   value     the SDK's field is no pointer: what is absent reads as zero *)
(* In a table of what is sent:                                             *)
(*   optional  a field that is not set is left out of the request          *)
(*   int32     the same, and a number too large for 32 bits is an error    *)
(*   value     a field that is not set is sent as zero, and a number too   *)
(*             large for 32 bits is an error                               *)
(*   cut       a field that is not set is sent as zero, and of a number    *)
(*             the low 32 bits are sent                                    *)
(***************************************************************************)
EXTENDS Naturals, Sequences

\* The fields with these names are of this class.
As(class, names) == [f \in {<<n>> : n \in names} |-> class]

\* The fields of the table, inside the struct with this name.
In(parent, table) ==
    [f \in {<<parent>> \o g : g \in DOMAIN table} |-> table[Tail(f)]]

\* The fields of both tables.  TLC has the operator, too, but the provers do not
\* see its definition.
a @@ b ==
    [f \in DOMAIN a \cup DOMAIN b |-> IF f \in DOMAIN a THEN a[f] ELSE b[f]]

\* The same two for sets of paths.
Paths(names) == {<<n>> : n \in names}
Below(parent, paths) == {<<parent>> \o g : g \in paths}

\* Whether the path leads to one of the given paths or into it.
Within(path, paths) ==
    \E p \in paths : Len(p) <= Len(path) /\ SubSeq(path, 1, Len(p)) = p

==============================================================================
