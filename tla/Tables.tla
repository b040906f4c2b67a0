------------------------------- MODULE Tables -------------------------------
(***************************************************************************)
(* A table of PostgreSQL as a function from the primary keys of its rows   *)
(* to the other columns.                                                   *)
(***************************************************************************)

\* The keys are in S and the rows in T.
IsTable(table, S, T) == DOMAIN table \subseteq S /\ table \in [DOMAIN table -> T]

Empty == [x \in {} |-> x]

\* An INSERT ... ON CONFLICT (id) DO UPDATE of one row.
Upsert(table, id, row) == [x \in {id} \cup DOMAIN table |-> IF x = id THEN row ELSE table[x]]

\* A DELETE of the rows S.
Without(table, S) == [x \in DOMAIN table \ S |-> table[x]]
=============================================================================
