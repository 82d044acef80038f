---------------------------- MODULE MCDictServer ----------------------------
EXTENDS DictServer

Perm == Permutations(Clients)
NoCollision == [w \in Words |-> CASE w = "cat" -> 1 [] w = "dog" -> 2 [] w = "emu" -> 3 [] OTHER -> 9]
Collision == [w \in Words |-> IF w \in {"cat", "dog"} THEN 1 ELSE 2]

\* Failed loads make the server insert rows again and again; runs with failing
\* queries look at tables of at most this many rows.
MaxRows == 2
RowsBound == Len(rows) <= MaxRows

=============================================================================
