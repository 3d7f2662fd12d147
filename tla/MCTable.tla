---- MODULE MCTable ----
EXTENDS Table, TLC

CONSTANT Half  \* the FLOAT 0.5

Row(k, c, x, forced) == [vals |-> [k |-> k, c |-> Text(c), t |-> Text(x)], forced |-> forced]
Refused == [vals |-> [k |-> 1, c |-> Text("s"), t |-> Null], forced |-> {}]
SomeTuples == {<<Row(Half, "s", "long", {}), Row(1, "s", "s", {})>>,
               <<Row(Null, "long", "s", {"t"}), Refused>>}

(* lround(0.5) is 1; three bytes are the length of the CHARS field. *)
SomeInexact == [k |-> Half :> 1, c |-> Text("long") :> Text("lon"), t |-> <<>>]
SomeFull == [k |-> {}, c |-> {Text("lon")}, t |-> {}]

Plain == [name |-> "plain", fields |-> <<"k">>, unique |-> FALSE]
Unique == [name |-> "unique", fields |-> <<"k">>, unique |-> TRUE]
Both == [name |-> "both", fields |-> <<"c", "k">>, unique |-> TRUE]
ByText == [name |-> "bytext", fields |-> <<"t">>, unique |-> TRUE]
Empty(meta) == [name |-> meta.name, fields |-> meta.fields, unique |-> meta.unique, entries |-> {}]

SomeIndexes == {<<Empty(Plain), Empty(Unique)>>, <<Empty(Both)>>}
ToCreate == {Unique, ByText}
Symmetry == Permutations(Threads)
====
