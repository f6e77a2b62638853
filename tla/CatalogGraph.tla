---------------------------- MODULE CatalogGraph ----------------------------
(***************************************************************************)
(* What rule closure and join planning read of the catalog snapshot and of  *)
(* the policy: tables, columns, the approved relationships between tables,  *)
(* and the objects the principal may use.  Neither changes while a request  *)
(* is bound: binding is one synchronous call.                               *)
(***************************************************************************)
EXTENDS Integers, FiniteSets

CONSTANTS
  Tables,         \* table ids, numbered in their sorted order
  Columns,
  TableOf,        \* TableOf[c]: the table of a column
  Relationships,  \* relationship refs, numbered in their sorted order
  None            \* Python's None

Objects == Tables \cup Columns

Cardinalities == {"one_to_one", "many_to_one", "one_to_many", "many_to_many"}

\* RelationshipRecord: an edge between two tables, its join keys, how many rows
\* match, and whether it lists prohibited usages.
RelationshipRecords ==
  [left : Tables, right : Tables, keys : SUBSET Columns,
   cardinality : Cardinalities, prohibited : BOOLEAN]

ASSUME CatalogAssumption ==
  /\ Tables \subseteq Nat /\ Relationships \subseteq Nat /\ IsFiniteSet(Relationships)
  /\ TableOf \in [Columns -> Tables]
  /\ Tables \cap Columns = {} /\ None \notin Objects \cup Relationships

VARIABLES
  graph,  \* the snapshot's relationships
  may,    \* tables that may be discovered, columns that may be used in predicates
  read    \* columns that may be read

Ends(rel) == {graph[rel].left, graph[rel].right}

Keys(rel) == graph[rel].keys

=============================================================================
