--------------------------- MODULE MCAuthorization ---------------------------
(***************************************************************************)
(* Two requests under two successive policies: revenue, measured in amount  *)
(* over status, by the dimension region.                                    *)
(***************************************************************************)
EXTENDS Discovery, TLC

CONSTANTS analyst, guest, revenue, by_region, orders, amount, status, region

SomeResources == {revenue, by_region, orders, amount, status, region}

SomeBelow ==
  [x \in SomeResources |-> IF x = orders THEN {amount, status, region} ELSE {}]

SomeClosure == [m \in {revenue} |-> [measures |-> {amount}, predicates |-> {status}]]

SomeDimensions == [d \in {by_region} |-> region]

SomeAsks == {[metric |-> revenue, dimensions |-> {by_region}]}

Exact(x) == [of |-> x, wild |-> FALSE]
All(x) == [of |-> x, wild |-> TRUE]

Nowhere == [a \in Actions |-> {}]

\* A broad analyst: the table and all below it.
Open ==
  [grants |-> [a \in Actions |-> IF a = "execute_metric" THEN {Exact(revenue)} ELSE
                 {All(orders), Exact(revenue), Exact(by_region)}],
   denies |-> Nowhere]

Deny(doc, a, p) == [doc EXCEPT !.denies[a] = @ \cup {p}]
Grant(doc, a, p) == [doc EXCEPT !.grants[a] = @ \cup {p}]

\* The columns may be used, but only some of them known.
Sealed ==
  [Open EXCEPT !.grants["discover"] =
     {Exact(revenue), Exact(by_region), Exact(status), Exact(region)}]

Hidden == Deny(Open, "read", Exact(status))

Named == Grant(Open, "use_in_predicate", Exact(status))

\* The dimension is nobody's to discover, and the table is kept from readers.
Narrow == [Open EXCEPT !.grants["discover"] = {All(orders), Exact(revenue)}]

SomeDocuments ==
  {Open, Sealed, Narrow, Deny(Open, "read", All(orders)), Hidden, Named, Deny(Named, "read", Exact(status)),
   Deny(Named, "use_in_predicate", Exact(status)),
   Deny(Deny(Named, "use_in_predicate", Exact(status)), "read", Exact(status)),
   Deny(Open, "discover", All(orders)),
   Deny(Open, "disclose", Exact(region)),
   [Hidden EXCEPT !.grants["use_in_predicate"] = {}],
   [Open EXCEPT !.grants["execute_metric"] = {}]}

\* The analyst's document is edited, while the guest's stays.
SomePolicies ==
  {[e \in Epochs |-> analyst :> edits[e] @@ guest :> Sealed] :
     edits \in [Epochs -> SomeDocuments]}

SomeSpelt == {{}, {by_region}}

Everything == [p \in Principals |-> SomeResources]

AlikeRequests == Permutations(Requests)

\* Bound: one request at most comes through the workflow.
OneDiscoveryInit ==
  DiscoveryInit /\ \A r, s \in Requests : req[r].front = "graph" /\ req[s].front = "graph" => r = s

OneDiscoverySpec == OneDiscoveryInit /\ [][DiscoveryNext]_dvars
==============================================================================
