------------------------------ MODULE Validation ------------------------------
(***************************************************************************)
(* app/sql/validators/suite.py: the gates between a compiled text and the   *)
(* warehouse.  A gate is an operator that holds when it has nothing to       *)
(* report.  Some read the text again, some the logical plan, some the bound  *)
(* plan; only those that read the text can notice a defect of the compiler.  *)
(***************************************************************************)
EXTENDS SqlCompiler

CONSTANTS
  Published,  \* Published[m]: measure and population of a metric of the catalog
  TimeRoles,  \* the columns with a declared time role
  TenantKeys  \* the columns with the flag is_tenant_key

ASSUME PublishedAssumption ==
  \A m \in DOMAIN Published :
    /\ Published[m].measure \in Expressions /\ Published[m].measure.op \in MeasureOperators
    /\ Published[m].measure.args \in Seq(Columns)
    /\ Published[m].population \in Seq(Expressions)

\* The flag of a column and the tenant key of its table are declared apart and nothing
\* compares them; the bundle that is shipped declares both of the same columns.
ASSUME TenantKeysAssumption ==
  TenantKeys = {c \in Columns : Catalog[TableOf(c)].tenant_key = c}

\* Nodes[op]: the nodes that parsing an item of the text yields besides its columns.
Nodes ==
  [column |-> {}, date_trunc |-> {"timestamptrunc"}, foreign |-> {"anonymous"},
   star |-> {"star"}, sum |-> {"sum"}, avg |-> {"avg"}, min |-> {"min"}, max |-> {"max"},
   count |-> {"count"}, count_rows |-> {"count", "star"}, count_distinct |-> {"count", "distinct"},
   sum_distinct |-> {"sum", "distinct"},
   ratio |-> {"div", "sum", "count"}, ratio_null |-> {"div", "sum", "count", "nullif"}]

AllowedNodes ==
  {"timestamptrunc", "anonymous", "star", "sum", "avg", "min", "max", "count", "distinct",
   "div"}

Aggregates == {"sum", "count", "avg", "min", "max"}

IsAggregate(item) == Nodes[item.op] \cap Aggregates # {}

Items(text) == Range(text.items)

-----------------------------------------------------------------------------
(* The syntax of the text.                                                   *)

\* A text of one statement is the SELECT it was compiled to: a parser that yields two
\* statements or none fails this gate.
SingleStatement(text) == text.statements = 1

NodesAllowed(text) == \A item \in Items(text) : Nodes[item.op] \subseteq AllowedNodes

FunctionsAllowed(text) == \A item \in Items(text) : "anonymous" \notin Nodes[item.op]

NoStar(text) == \A item \in Items(text) : item.op # "star"

\* Variant: only strings are looked for.
ParametersUncounted(text, compiled) ==
  \A e \in Range(TextClauses(text)) : Inline \notin Range(e.args)

\* As many placeholders as values, and no string in their place.
ParametersGate(text, compiled) ==
  /\ Len(Placeholders(TextClauses(text))) = Len(compiled.values)
  /\ \A e \in Range(TextClauses(text)) : Inline \notin Range(e.args)

-----------------------------------------------------------------------------
(* What the text refers to.                                                  *)

TablesGate(text, compiled) ==
  \A rel \in Range(text.relations) :
    /\ rel.table \in Tables
    /\ rel.table \in compiled.tables
    /\ Catalog[rel.table].certified

\* The catalog column that a term of the text denotes.
ColumnId(text, x) == <<text.relations[x.alias + 1].table, x.name>>

Refs(es) == UNION {{x \in Range(e.args) : x.alias >= 0} : e \in Range(es)}

TextColumns(text, es) == {ColumnId(text, x) : x \in Refs(es)}

ColumnsGate(text, compiled) ==
  TextColumns(text, text.items \o TextClauses(text) \o text.group)
    \subseteq Columns \cap compiled.columns

NoCartesian(text) == \A i \in 2..Len(text.relations) : text.relations[i].on # <<>>

JoinsApproved(lp) ==
  \A j \in Range(lp.joins) :
    /\ j.rel \in DOMAIN Relationships
    /\ Len(j.predicates) = Len(Relationships[j.rel].predicates)

\* As many conjuncts in each ON as the approved relationship has.
JoinPredicatesSql(text, lp) ==
  /\ Len(text.relations) = Len(lp.joins) + 1
  /\ \A i \in DOMAIN lp.joins :
       Len(text.relations[i + 1].on) = Len(Relationships[lp.joins[i].rel].predicates)

AggregatesSql(text, plan) ==
  \A item \in Items(text) :
    IsAggregate(item) /\ "distinct" \in Nodes[item.op] => plan.measure.op = "count_distinct"

-----------------------------------------------------------------------------
(* Permissions, the metric, obligations.                                     *)

\* What the policy in force closes to the principal.
Closed == [read : SUBSET Columns, use : SUBSET Columns, discover : SUBSET Tables,
           metric : SUBSET DOMAIN Published]

\* Variant: only the columns that a plan names, as the binder's sweep.
AuthorizationOfPlan(compiled, plan, closed) ==
  LET measured == ColumnsIn(plan.measure)
      named == AllColumnsIn(plan.population \o plan.filters) \cup Range(plan.dimensions)
  IN /\ measured \cap closed.read = {}
     /\ (named \ measured) \cap closed.use = {}
     /\ compiled.tables \cap closed.discover = {}
     /\ plan.metric \notin closed.metric

\* Every column the compiler met: those of the measure are read, all others, tenant
\* keys and join keys among them, are used in a predicate.
AuthorizationGate(compiled, plan, closed) ==
  LET measured == ColumnsIn(plan.measure) IN
  /\ compiled.columns \cap measured \cap closed.read = {}
  /\ (compiled.columns \ measured) \cap closed.use = {}
  /\ compiled.tables \cap closed.discover = {}
  /\ plan.metric \notin closed.metric

MetricIntegrity(plan) ==
  /\ plan.measure = Published[plan.metric].measure
  /\ plan.population = Published[plan.metric].population

\* The scanned tables to be isolated, and those with a tenant key among the columns.
NeedsIsolation(lp) == {t \in DOMAIN lp.alias : "tenant_scoped" \in Catalog[t].tags}

Isolated(columns) == {TableOf(c) : c \in columns \cap TenantKeys}

\* An obligation is met when each of its columns occurs in its clause.
Evident(plan, lp, where, having) ==
  \A o \in Range(plan.obligations) :
    IF o.predicate # <<>>
      THEN AllColumnsIn(o.predicate) \subseteq
             IF o.placement = "before_aggregation" THEN where ELSE having
      ELSE o.rule = "security.tenant_scope" => NeedsIsolation(lp) \subseteq Isolated(where)

ObligationsGate(plan, lp) ==
  Evident(plan, lp, AllColumnsIn(lp.where), AllColumnsIn(lp.having))

ObligationsSql(text, plan, lp) ==
  Evident(plan, lp, TextColumns(text, text.where), TextColumns(text, text.having))

-----------------------------------------------------------------------------
(* Grain, grouping, time, fan-out and the scope.                             *)

GrainGate(plan, lp) == plan.grain = Len(lp.group)

GroupByGate(text) ==
  Len(text.group) = Cardinality({i \in DOMAIN text.items : ~IsAggregate(text.items[i])})

\* TimeRange refuses an empty interval before the gate could.
TimeGate(plan) == plan.time # <<>> => plan.time[1].column \in TimeRoles

FanOutGate(plan, lp) ==
  plan.measure.op \in {"sum", "avg"} => \A j \in Range(lp.joins) : j.preserves

\* The epoch and the snapshot of the plan are those of the scope.
PolicyEpochGate(plan, scope) == plan.epoch = scope.epoch /\ plan.snapshot = scope.snapshot

-----------------------------------------------------------------------------
\* Validator.validate: all gates run, and a gate that cannot complete blocks.
Passes(text, compiled, lp, plan, scope, closed) ==
  /\ SingleStatement(text)
  /\ NodesAllowed(text) /\ FunctionsAllowed(text) /\ NoStar(text)
  /\ ParametersGate(text, compiled)
  /\ TablesGate(text, compiled)
  /\ ColumnsGate(text, compiled)
  /\ NoCartesian(text)
  /\ JoinsApproved(lp) /\ JoinPredicatesSql(text, lp)
  /\ AggregatesSql(text, plan)
  /\ AuthorizationGate(compiled, plan, closed)
  /\ MetricIntegrity(plan)
  /\ ObligationsGate(plan, lp) /\ ObligationsSql(text, plan, lp)
  /\ GrainGate(plan, lp) /\ GroupByGate(text)
  /\ TimeGate(plan)
  /\ FanOutGate(plan, lp)
  /\ PolicyEpochGate(plan, scope)
==============================================================================
