---------------------------- MODULE MCCompilation ----------------------------
(***************************************************************************)
(* Orders, the history of their customers, and regions: the as-of join with  *)
(* its open interval, a left join behind it, and the same behind a contract. *)
(***************************************************************************)
EXTENDS Compilation

O(n) == <<"orders", n>>
H(n) == <<"history", n>>
R(n) == <<"regions", n>>
P(n) == <<"parameter", n>>
L(n) == <<"literal", n>>

SomeColumns ==
  {O(n) : n \in {"id", "tenant", "customer", "at", "amount", "status"}} \cup
  {H(n) : n \in {"tenant", "customer", "from", "to", "internal", "region"}} \cup
  {R(n) : n \in {"region", "rank"}} \cup {<<"products", "order">>}

Keyless == <<"no", "key">>

SomeTimeRoles == {O("at")}

SomeTenantKeys == {O("tenant"), H("tenant")}

SomeCatalog ==
  [orders |-> [tenant_key |-> O("tenant"), tags |-> {"tenant_scoped"}, certified |-> TRUE,
               grain |-> <<O("tenant"), O("id")>>, nonnull |-> {O("tenant"), O("id")}],
   history |-> [tenant_key |-> H("tenant"), tags |-> {"tenant_scoped"}, certified |-> TRUE,
                grain |-> <<H("tenant"), H("customer"), H("from")>>,
                nonnull |-> {H("customer"), H("from")}],
   regions |-> [tenant_key |-> Keyless, tags |-> {}, certified |-> TRUE,
                grain |-> <<R("region")>>, nonnull |-> {R("region")}],
   products |-> [tenant_key |-> Keyless, tags |-> {"tenant_scoped"},
                 certified |-> FALSE, grain |-> <<>>, nonnull |-> {}]]

AsOf == <<Predicate("eq", <<O("tenant"), H("tenant")>>),
          Predicate("eq", <<O("customer"), H("customer")>>),
          Predicate("gte", <<O("at"), H("from")>>),
          Predicate("lt_or_null", <<O("at"), H("to")>>)>>

InRegion == <<Predicate("eq", <<H("region"), R("region")>>)>>

SomeRelationships ==
  [as_of |-> [left |-> "orders", right |-> "history", type |-> "inner", contract |-> TRUE,
              predicates |-> AsOf],
   in_region |-> [left |-> "history", right |-> "regions", type |-> "left",
                  contract |-> FALSE, predicates |-> InRegion],
   one_region |-> [left |-> "history", right |-> "regions", type |-> "inner",
                   contract |-> TRUE, predicates |-> InRegion],
   bought |-> [left |-> "orders", right |-> "products", type |-> "left", contract |-> FALSE,
               predicates |-> <<Predicate("eq", <<O("id"), <<"products", "order">>>>)>>],
   bare |-> [left |-> "orders", right |-> "history", type |-> "left", contract |-> FALSE,
             predicates |-> <<>>],
   like_region |-> [left |-> "history", right |-> "regions", type |-> "inner",
                    contract |-> FALSE,
                    predicates |-> <<Predicate("like", <<H("region"), R("region")>>)>>]]

SomeValues ==
  P("p_tenant") :> 1 @@ P("p_time_start") :> 1 @@ P("p_time_end") :> 3 @@ P("p_other") :> 0
    @@ L("completed") :> 1 @@ L("true") :> 1 @@ L("false") :> 0 @@ L("north") :> 0
    @@ L("south") :> 1

SomeBindings == DOMAIN SomeValues

Completed == <<Predicate("eq", <<O("status"), L("completed")>>)>>
Settled == <<Predicate("not_null", <<O("status")>>)>>

SomePublished ==
  [revenue |-> [measure |-> Predicate("sum", <<O("amount")>>), population |-> Completed],
   orders_placed |-> [measure |-> Predicate("count_rows", <<>>), population |-> Settled],
   customers |-> [measure |-> Predicate("count_distinct", <<O("customer")>>),
                  population |-> Completed],
   average |-> [measure |-> Predicate("ratio", <<O("amount"), O("id")>>),
                population |-> Completed],
   smallest |-> [measure |-> Predicate("min", <<O("amount")>>), population |-> Completed],
   largest |-> [measure |-> Predicate("max", <<O("amount")>>), population |-> Settled],
   average_or_null |-> [measure |-> Predicate("ratio_null", <<O("amount"), O("id")>>),
                        population |-> Completed]]

-----------------------------------------------------------------------------
(* Plans as the binder makes them: what a plan reads it also scans.           *)

Join(rel, to) == [rel |-> rel, to |-> to, preserves |-> TRUE]

Rule(rule, placement, ps) == [rule |-> rule, placement |-> placement, predicate |-> ps]

TenantScope == Rule("security.tenant_scope", "before_aggregation", <<>>)
NoInternal == Rule("exclude_internal", "before_aggregation",
                   <<Predicate("eq", <<H("internal"), L("false")>>)>>)
KnownRegion == Rule("known_region", "after_aggregation", <<Predicate("not_null", <<H("region")>>)>>)
SouthOnly == Rule("south", "after_aggregation",
                  <<Predicate("eq", <<H("region"), L("south")>>)>>)

InList == <<Predicate("in", <<O("status"), L("true"), L("south")>>)>>
Other == <<Predicate("eq", <<O("id"), P("p_other")>>)>>
HasRegion == <<Predicate("not_null", <<H("region")>>)>>

PlanOf(m, joins, dims, time, rules, filters) ==
  [base |-> "orders", metric |-> m, measure |-> SomePublished[m].measure,
   population |-> SomePublished[m].population, joins |-> joins, dimensions |-> dims,
   time |-> time, obligations |-> rules, filters |-> filters,
   grain |-> Len(dims) + (IF time # <<>> /\ time[1].bucket THEN 1 ELSE 0),
   epoch |-> 1, snapshot |-> "local-001"]

Window(bucket) == <<[column |-> O("at"), bucket |-> bucket]>>

\* Orders alone.
Plain ==
  {PlanOf(m, <<>>, <<>>, t, <<TenantScope>>, <<>>) :
     m \in DOMAIN SomePublished, t \in {<<>>, Window(TRUE)}}
  \cup {PlanOf("revenue", <<>>, <<>>, Window(FALSE), <<TenantScope>>, f) :
          f \in {InList, Other}}

\* Orders by the region of the customer at the time.
ByRegion ==
  {PlanOf(m, <<Join("as_of", "history")>>, d, Window(d = <<>>), rules, f) :
     m \in {"revenue", "orders_placed"}, d \in {<<>>, <<H("region")>>},
     f \in {<<>>, HasRegion \o InList},
     rules \in {<<TenantScope>>, <<TenantScope, NoInternal>>, <<NoInternal>>}}

\* Restricted after aggregation.
Restricted ==
  {PlanOf(m, <<Join("as_of", "history")>>, <<H("region")>>, t, <<rule, TenantScope>>, f) :
     m \in {"revenue"}, t \in {<<>>, Window(TRUE)}, rule \in {KnownRegion, SouthOnly},
     f \in {<<>>, InList}}

\* Through the history to the regions.
Through ==
  {PlanOf("revenue", <<Join("as_of", "history"), Join(rel, "regions")>>, <<R("rank")>>, t,
          <<TenantScope, NoInternal>>, <<>>) :
     rel \in {"in_region", "one_region", "like_region"}, t \in {<<>>, Window(FALSE)}}

\* What the binder lets pass and what comes after it does not: a table that is not
\* certified, a join without conditions, a time without the role of one.
Unsound ==
  {PlanOf("revenue", <<Join("bought", "products")>>, <<>>, <<>>, <<>>, <<>>),
   PlanOf("revenue", <<Join("bare", "history")>>, <<>>, <<>>, <<>>, <<>>),
   PlanOf("revenue", <<>>, <<>>, <<[column |-> O("id"), bucket |-> FALSE]>>, <<>>, <<>>)}

SomePlans == Unsound \cup Plain \cup ByRegion \cup Restricted \cup Through

Nothing == [read |-> {}, use |-> {}, discover |-> {}, metric |-> {}]

SomePermissions ==
  {Nothing, [Nothing EXCEPT !.read = {O("amount")}], [Nothing EXCEPT !.use = {O("amount")}],
   [Nothing EXCEPT !.use = {H("tenant")}], [Nothing EXCEPT !.use = {O("status")}],
   [Nothing EXCEPT !.use = {H("to")}], [Nothing EXCEPT !.read = {H("region")}],
   [Nothing EXCEPT !.discover = {"history"}], [Nothing EXCEPT !.metric = {"revenue"}]}

-----------------------------------------------------------------------------
(* Facts of two tenants at the instants 0 to 3, and histories of a customer.  *)

Order(id, tenant, at, amount, status) ==
  [id |-> id, tenant |-> tenant, customer |-> 1, at |-> at, amount |-> amount,
   status |-> status]

Facts == {Order(1, 1, 0, 1, 1), Order(2, 1, 1, 2, 1), Order(3, 1, 2, 2, 1),
          Order(4, 1, 3, 8, 1), Order(5, 2, 1, 16, 1), Order(6, 1, 1, 32, 0)}

Version(tenant, from, to, internal, region) ==
  [tenant |-> tenant, customer |-> 1, from |-> from, to |-> to, internal |-> internal,
   region |-> region]

Versions ==
  {Version(1, i[1], i[2], x[1], x[2]) :
     i \in {<<0, -1>>, <<0, 2>>, <<1, 2>>, <<2, -1>>, <<1, 3>>},
     x \in {<<0, 1>>, <<1, 0>>}}
  \cup {Version(1, 2, -1, 0, -1), Version(2, 0, -1, 0, 0)}

Histories == UNION {kSubset(k, Versions) : k \in 0..2}

SomeWarehouses ==
  {[orders |-> Facts, history |-> h,
    regions |-> {[region |-> 1, rank |-> 7]}, products |-> {}] : h \in Histories}

\* A bucketed trend, a breakdown under both rules, one restricted after aggregation,
\* and one through two joins.
SomeTampered ==
  {PlanOf("revenue", <<>>, <<>>, Window(TRUE), <<TenantScope>>, <<>>),
   PlanOf("revenue", <<Join("as_of", "history")>>, <<H("region")>>, Window(FALSE),
          <<TenantScope, NoInternal>>, HasRegion \o InList),
   PlanOf("revenue", <<Join("as_of", "history")>>, <<H("region")>>, <<>>,
          <<SouthOnly, TenantScope>>, <<>>),
   PlanOf("revenue", <<Join("as_of", "history"), Join("in_region", "regions")>>,
          <<R("rank")>>, Window(FALSE), <<TenantScope, NoInternal>>, <<>>)} \X {Nothing}

ThisScope == [epoch |-> 1, snapshot |-> "local-001"]

-----------------------------------------------------------------------------
\* The theorems about answers are about these plans and warehouses: all that is answered
\* here resolves, the facts have a key, and the plain joins find one region at most.
ASSUME ExactnessAssumption ==
  \A p \in SomePlans :
    /\ Resolves(p)
    /\ Lowers(p, {}) /\ Conditioned(Lower(p))
         => \A w \in SomeWarehouses : GrainIsKey(p, w) /\ JoinsPreserve(p, w)

\* So is the one about defects: the plans whose text may be damaged tell it apart.
ASSUME DefectsAssumption == \A x \in SomeTampered : TellsApart(x[1])
==============================================================================
