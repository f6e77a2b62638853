------------------------------- MODULE Lowering -------------------------------
(***************************************************************************)
(* app/planning/lowering.py: from a bound semantic plan to the logical plan, *)
(* the only thing the compiler accepts.  Names are pairs: a column is        *)
(* <<table, name>>, the other operands <<"parameter", name>> and             *)
(* <<"literal", name>>.  Sort keys and limits, which no gate and no count of *)
(* facts depends on, are left out.                                           *)
(***************************************************************************)
EXTENDS Integers, Sequences, FiniteSets, SequencesExt

CONSTANTS
  Columns,       \* <<table, name>>
  Bindings,      \* the other operands
  Catalog,       \* Catalog[t]: tenant_key, tags, certified, grain, nonnull of a table
  Relationships, \* Relationships[r]: left, right, type, contract, predicates
  NoKey          \* the tenant key of a table that declares none

Tables == DOMAIN Catalog

TableOf(c) == c[1]

\* What a predicate compares with, "like" for those that no join has; what a metric
\* aggregates with.
Comparisons ==
  {"eq", "ne", "lt", "lte", "gt", "gte", "lt_or_null", "is_null", "not_null", "in", "like"}

MeasureOperators ==
  {"sum", "avg", "min", "max", "count", "count_rows", "count_distinct", "ratio", "ratio_null"}

\* An expression is an operator over operands.
Operators == Comparisons \cup MeasureOperators \cup {"column", "date_trunc"}

Expressions == [op : Operators, args : Seq(Columns \cup Bindings)]

ASSUME CatalogAssumption ==
  /\ \A c \in Columns : TableOf(c) \in Tables /\ c = <<c[1], c[2]>>
  /\ Bindings \cap Columns = {}
  /\ {<<"parameter", n>> : n \in {"p_tenant", "p_time_start", "p_time_end"}} \subseteq Bindings
  /\ \A t \in Tables :
       /\ Catalog[t].tenant_key \in {c \in Columns : TableOf(c) = t} \cup {NoKey}
       /\ Catalog[t].grain \in Seq({c \in Columns : TableOf(c) = t})
       /\ Catalog[t].nonnull \subseteq Columns
  /\ \A r \in DOMAIN Relationships :
       /\ {Relationships[r].left, Relationships[r].right} \subseteq Tables
       /\ Relationships[r].predicates \in Seq(Expressions)

Predicate(op, args) == [op |-> op, args |-> args]

ColumnsIn(e) == Range(e.args) \cap Columns

AllColumnsIn(es) == UNION {ColumnsIn(e) : e \in Range(es)}

\* The elements of a sequence that are in a set, in their order.
Among(s, S) == FlattenSeq([i \in DOMAIN s |-> IF s[i] \in S THEN <<s[i]>> ELSE <<>>])

-----------------------------------------------------------------------------
(* The parts of a logical plan.                                              *)

\* The scans in order: the base, then what is joined.
Scanned(plan) == <<plan.base>> \o [i \in DOMAIN plan.joins |-> plan.joins[i].to]

\* The number of a table in the order of the scans.
Alias(plan, t) == (CHOOSE i \in DOMAIN Scanned(plan) : Scanned(plan)[i] = t) - 1

NeedsTenant(plan) == \E o \in Range(plan.obligations) : o.rule = "security.tenant_scope"

TenantTables(plan) ==
  IF NeedsTenant(plan)
    THEN Among(Scanned(plan), {t \in Tables : "tenant_scoped" \in Catalog[t].tags})
    ELSE <<>>

TenantPredicates(plan) ==
  [i \in DOMAIN TenantTables(plan) |->
     Predicate("eq", <<Catalog[TenantTables(plan)[i]].tenant_key, <<"parameter", "p_tenant">>>>)]

\* Half-open.
TimePredicates(plan) ==
  IF plan.time = <<>> THEN <<>>
  ELSE <<Predicate("gte", <<plan.time[1].column, <<"parameter", "p_time_start">>>>),
         Predicate("lt", <<plan.time[1].column, <<"parameter", "p_time_end">>>>)>>

\* The predicates of the obligations at one placement.
Placed(plan, placement) ==
  FlattenSeq([i \in DOMAIN plan.obligations |->
                IF plan.obligations[i].placement = placement
                  THEN plan.obligations[i].predicate ELSE <<>>])

Where(plan) ==
  TenantPredicates(plan) \o TimePredicates(plan) \o plan.population
    \o Placed(plan, "before_aggregation") \o plan.filters

\* What is grouped by: the time bucket, then the dimensions.
Grouped(plan) ==
  (IF plan.time # <<>> /\ plan.time[1].bucket
     THEN <<Predicate("date_trunc", <<plan.time[1].column>>)>> ELSE <<>>)
    \o [i \in DOMAIN plan.dimensions |-> Predicate("column", <<plan.dimensions[i]>>)]

-----------------------------------------------------------------------------
(* Lowering.lower.                                                           *)

JoinOperators == {"eq", "gte", "lt", "lte", "gt", "lt_or_null"}

\* get_table, _join_predicates and the placing of the tenant scope may each raise.
Lowers(plan, hidden) ==
  /\ Range(Scanned(plan)) \cap hidden = {}
  /\ \A j \in Range(plan.joins) :
       \A p \in Range(Relationships[j.rel].predicates) : p.op \in JoinOperators
  /\ \A t \in Range(TenantTables(plan)) : Catalog[t].tenant_key # NoKey

Lower(plan) ==
  [base |-> plan.base,
   alias |-> [t \in Range(Scanned(plan)) |-> Alias(plan, t)],
   joins |-> [i \in DOMAIN plan.joins |->
                [rel |-> plan.joins[i].rel, to |-> plan.joins[i].to,
                 type |-> Relationships[plan.joins[i].rel].type,
                 preserves |-> plan.joins[i].preserves,
                 predicates |-> Relationships[plan.joins[i].rel].predicates]],
   where |-> Where(plan),
   group |-> Grouped(plan),
   measure |-> plan.measure,
   having |-> Placed(plan, "after_aggregation")]
==============================================================================
