------------------------------ MODULE MCBinding ------------------------------
(***************************************************************************)
(* A small catalog for Binding: table 1 is the fact, 2 and 3 are dimensions,*)
(* 4 is a detail table; a column is ten times its table, and 21 is a second *)
(* column of table 2.                                                       *)
(***************************************************************************)
EXTENDS Binding

CONSTANTS slot, low, high

CatalogColumns == {10, 20, 21, 30, 40}

CatalogTableOf == [c \in CatalogColumns |-> c \div 10]

Edge(l, r, cardinality, prohibited) ==
  [left |-> l, right |-> r, keys |-> {10 * l, 10 * r},
   cardinality |-> cardinality, prohibited |-> prohibited]

\* Two roles between 1 and 2, a detour and a direct edge to 3, and a detail
\* table whose rows multiply the fact.
Roles ==
  <<Edge(1, 2, "many_to_one", FALSE), Edge(1, 2, "one_to_one", FALSE),
    Edge(2, 3, "many_to_one", FALSE), Edge(1, 3, "many_to_one", FALSE),
    Edge(1, 4, "one_to_many", FALSE)>>

\* Edges recorded from the other side, and a prohibited one.
Turned ==
  <<Edge(2, 1, "one_to_many", FALSE), Edge(1, 2, "many_to_one", TRUE),
    Edge(3, 2, "one_to_many", FALSE), Edge(3, 1, "many_to_one", FALSE),
    Edge(4, 1, "one_to_many", FALSE)>>

\* A chain longer than the hops allowed.
Chain ==
  <<Edge(1, 2, "many_to_one", FALSE), Edge(2, 3, "many_to_one", FALSE),
    Edge(3, 4, "many_to_one", FALSE), Edge(1, 4, "many_to_many", FALSE),
    Edge(2, 4, "many_to_one", TRUE)>>

SomeGraphs == {Roles, Turned, Chain}

Always == [op |-> "always", on |-> {}]

UsesAny(objects) == [op |-> "uses", on |-> objects]

Unset == [op |-> "slot_unset", on |-> {slot}]

Require(columns, tables, rel) ==
  [op |-> "require", columns |-> columns, tables |-> tables, rel |-> rel]

Default(v) == [op |-> "set_slot", slot |-> slot, value |-> v]

Menu ==
  { [when |-> Always, effect |-> Require({21}, {}, None)],
    [when |-> UsesAny({21}), effect |-> Require({}, {3}, None)],
    [when |-> UsesAny({20, 2}), effect |-> Require({}, {}, 2)],
    [when |-> UsesAny({3}), effect |-> Require({}, {}, 3)],
    [when |-> UsesAny({10}), effect |-> Require({40}, {}, None)],
    [when |-> UsesAny({}), effect |-> Require({}, {4}, None)],
    [when |-> UsesAny({3}), effect |-> [op |-> "require_semijoin_or_allocation"]],
    [when |-> Unset, effect |-> Default(low)],
    [when |-> Unset, effect |-> Default(high)] }

SomeBooks == [Rules -> Menu]

\* Everything; without a table; without a join key, or with it for reading only.
SomePermissions ==
  {[may |-> Objects, read |-> Columns],
   [may |-> Objects \ {2}, read |-> Columns],
   [may |-> Objects \ {20}, read |-> Columns],
   [may |-> Objects \ {20}, read |-> Columns \ {20}]}

Request(dimensions, via, rules) ==
  [base |-> 1, measures |-> {10}, predicates |-> {}, dimensions |-> dimensions,
   via |-> via, required_rules |-> rules]

\* A total of the fact; by a dimension through a role; by a distant dimension,
\* where the metric names a rule of its own and a filter uses a column.
SomeRequests ==
  { Request({}, {}, {}), Request({20}, {1}, {}),
    [Request({30}, {}, {1}) EXCEPT !.predicates = {30}] }

=============================================================================
