------------------------------- MODULE Forest -------------------------------
(***************************************************************************)
(* Parent functions over the rows of a self-referencing table               *)
(* (administrative_units.parent_id, places.parent_place_id) and the two      *)
(* recursive queries the schema asks of them.  None is SQL's NULL.          *)
(***************************************************************************)
CONSTANTS Nodes, None

ASSUME NoneAssumption == None \notin Nodes

\* The tables' contents: each row's parent.
Parents == [Nodes -> Nodes \cup {None}]

\* S contains the parent of each of its members.
Closed(par, S) == \A m \in S : par[m] # None => par[m] \in S

\* WITH RECURSIVE ancestors ... UNION ...: the least set of rows that holds n
\* and is closed under the join on the parent column.
ancestors(par, n) ==
  LET closed == {S \in SUBSET Nodes : n \in S /\ Closed(par, S)}
  IN {m \in Nodes : \A S \in closed : m \in S}

\* No row is an ancestor of its own parent: the query of migration 2 over the
\* whole table (CYCLE id SET is_cycle) returns nothing.
Acyclic(par) ==
  \A n \in Nodes : par[n] # None => n \notin ancestors(par, par[n])

=============================================================================
