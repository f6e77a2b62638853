----------------------------- MODULE Compilation -----------------------------
(***************************************************************************)
(* From a bound plan to an answer: lower, compile, validate, attest and      *)
(* execute, as Pipeline.run and the node bind_validate_compile call them.    *)
(* Between compiler and validators a defect may change the text in one       *)
(* place, as the tamper tests do: the plan and the values stay as they were. *)
(* The warehouse does not change between attestations and execution.         *)
(***************************************************************************)
EXTENDS Validation, Attestation

CONSTANTS
  Plans,       \* the bound plans that are considered
  Permissions, \* what the policy in force may close
  Warehouses,  \* the contents of the warehouse
  Tampered,    \* bound of the model: <<plan, permissions>> whose text may be defective
  ScopeOfRequest  \* epoch and snapshot of the scope

\* A plan as the binder makes it: the metric as it is published, joins that keep the
\* grain and enter a new table each, the grain of what is grouped by, and the scope of
\* the request.
AsBound(p) ==
  /\ p.base \in Tables
  /\ p.joins \in Seq([rel : DOMAIN Relationships, to : Tables, preserves : {TRUE}])
  /\ \A i, k \in DOMAIN Scanned(p) : Scanned(p)[i] = Scanned(p)[k] => i = k
  /\ p.metric \in DOMAIN Published
  /\ p.measure = Published[p.metric].measure
  /\ p.population = Published[p.metric].population
  /\ p.dimensions \in Seq(Columns) /\ p.filters \in Seq(Expressions)
  /\ p.time \in {<<>>} \cup {<<[column |-> c, bucket |-> b]>> : c \in Columns, b \in BOOLEAN}
  /\ p.obligations \in Seq([rule : STRING, predicate : Seq(Expressions),
                            placement : {"before_aggregation", "after_aggregation"}])
  /\ p.grain = Len(p.dimensions) + (IF p.time # <<>> /\ p.time[1].bucket THEN 1 ELSE 0)
  /\ p.epoch = ScopeOfRequest.epoch /\ p.snapshot = ScopeOfRequest.snapshot

ASSUME PlanAssumption == \A p \in Plans : AsBound(p)

\* A warehouse holds what the catalog says of its columns, and the caller's values are none
\* that SQL compares with nothing.
ASSUME WarehouseAssumption ==
  /\ \A n \in {"p_tenant", "p_time_start", "p_time_end"} : Values[<<"parameter", n>>] \in Nat
  /\ \A w \in Warehouses, t \in Tables :
       /\ w[t] \subseteq [{c[2] : c \in {d \in Columns : TableOf(d) = t}} -> Int]
       /\ IsFiniteSet(w[t])
       /\ \A row \in w[t], c \in Range(Catalog[t].grain) :
            c \in Catalog[t].nonnull => row[c[2]] # Null

VARIABLES
  plan, closed,
  logical,   \* the logical plan
  compiled,  \* the compiled query
  edit,      \* what happened to the text: the kind of edit, or "none"
  data,      \* the contents of the warehouse, once it is asked
  pc, answer

vars == <<plan, closed, logical, compiled, edit, data, pc, answer>>

None == [none |-> TRUE]

Init ==
  /\ plan \in Plans /\ closed \in Permissions
  /\ logical = None /\ compiled = None /\ data = None
  /\ edit = "none" /\ pc = "bound" /\ answer = {}

LowerPlan ==
  /\ pc = "bound"
  /\ IF Lowers(plan, closed.discover)
       THEN logical' = Lower(plan) /\ pc' = "lowered"
       ELSE logical' = None /\ pc' = "unavailable"
  /\ UNCHANGED <<plan, closed, compiled, edit, data, answer>>

\* Pipeline._parameters; the tenant comes from the scope.
Supplied == {"p_tenant"} \cup (IF plan.time = <<>> THEN {} ELSE {"p_time_start", "p_time_end"})

CompilePlan ==
  /\ pc = "lowered"
  /\ \/ /\ Compiles(logical, Supplied) /\ Conditioned(logical)
        /\ compiled' = Compile(logical) /\ pc' = "compiled"
     \/ ~Compiles(logical, Supplied) /\ compiled' = None /\ pc' = "unavailable"
     \/ ~Conditioned(logical) /\ compiled' = None /\ pc' = "raised"
  /\ UNCHANGED <<plan, closed, logical, edit, data, answer>>

-----------------------------------------------------------------------------
(* One defect in the text.                                                   *)

Swap(s, i) == [s EXCEPT ![i] = s[i + 1], ![i + 1] = s[i]]

\* An argument of one conjunct is replaced.
WithArg(e, i, x) == [e EXCEPT !.args[i] = x]

DroppedConjuncts(text) ==
  {<<"where", [text EXCEPT !.where = RemoveAt(@, i)]>> : i \in DOMAIN text.where} \cup
  {<<"having", [text EXCEPT !.having = RemoveAt(@, i)]>> : i \in DOMAIN text.having} \cup
  UNION {{<<"on", [text EXCEPT !.relations[k].on = RemoveAt(@, i)]>> :
            i \in DOMAIN text.relations[k].on} : k \in DOMAIN text.relations}

ReplacedParts(text) ==
  {<<"statement", [text EXCEPT !.statements = 2]>>,
   <<"star", [text EXCEPT !.items = <<Predicate("star", <<>>)>> \o @]>>} \cup
  {<<"distinct", [text EXCEPT !.items[i].op = "sum_distinct"]>> :
     i \in {k \in DOMAIN text.items : text.items[k].op = "sum"}} \cup
  {<<"function", [text EXCEPT !.items[i].op = "foreign"]>> :
     i \in {k \in DOMAIN text.items : text.items[k].op = "date_trunc"}} \cup
  {<<"table", [text EXCEPT !.relations[k].table = t]>> :
     k \in DOMAIN text.relations, t \in Tables \cup {"nowhere"}} \cup
  {<<"cartesian", [text EXCEPT !.relations[k].on = <<>>]>> : k \in 2..Len(text.relations)}

ReplacedTerms(text) ==
  UNION {UNION {
    LET e == text.where[i] IN
    IF e.args[a] = Placeholder
      THEN {<<"inline", [text EXCEPT !.where[i] = WithArg(e, a, Inline)]>>}
      ELSE {<<"column", [text EXCEPT !.where[i] = WithArg(e, a, Ref(e.args[a].alias, c[2]))]>> :
              c \in {d \in Columns : TableOf(d) = text.relations[e.args[a].alias + 1].table}}
    : a \in DOMAIN text.where[i].args} : i \in DOMAIN text.where}

\* Defects that leave the columns and the number of placeholders as they are.
Unnoticed(text) ==
  {<<"order", [text EXCEPT !.where = Swap(@, i)]>> : i \in 1..(Len(text.where) - 1)} \cup
  {<<"operator", [text EXCEPT !.where[i].op = "gte"]>> :
     i \in {k \in DOMAIN text.where : text.where[k].op = "eq"}}

Edits(text) ==
  {e \in DroppedConjuncts(text) \cup ReplacedParts(text) \cup ReplacedTerms(text)
         \cup Unnoticed(text) : e[2] # text}

EditText ==
  /\ pc = "compiled" /\ edit = "none" /\ <<plan, closed>> \in Tampered
  /\ \E e \in Edits(compiled.text) :
       /\ edit' = e[1]
       /\ compiled' = [compiled EXCEPT !.text = e[2]]
  /\ UNCHANGED <<plan, closed, logical, data, pc, answer>>

-----------------------------------------------------------------------------
Validate ==
  /\ pc = "compiled"
  /\ pc' = IF Passes(compiled.text, compiled, logical, plan, ScopeOfRequest, closed)
             THEN "validated" ELSE "blocked"
  /\ UNCHANGED <<plan, closed, logical, compiled, edit, data, answer>>

\* All attestations, one query each; the first that does not prove ends the request.
Attest ==
  /\ pc = "validated"
  /\ data' \in Warehouses
  /\ pc' = IF \A j \in ToAttest(logical) : Attestable(logical, j)
             THEN IF \A j \in ToAttest(logical) : Proved(logical, j, data')
                    THEN "attested" ELSE "unproven"
             ELSE "failed"
  /\ UNCHANGED <<plan, closed, logical, compiled, edit, answer>>

Execute ==
  /\ pc = "attested"
  /\ answer' = Answer(compiled.text, compiled.values, data)
  /\ pc' = "answered"
  /\ UNCHANGED <<plan, closed, logical, compiled, edit, data>>

Next == LowerPlan \/ CompilePlan \/ EditText \/ Validate \/ Attest \/ Execute

Spec == Init /\ [][Next]_vars

-----------------------------------------------------------------------------
(* What a plan means, told from its tables and rows alone.  A reading gives   *)
(* each scanned table a row.                                                  *)

Meaning(x, m) == IF x \in Columns THEN m[TableOf(x)][x[2]] ELSE Values[x]

Holds(p, m) == Satisfied(p.op, [i \in DOMAIN p.args |-> Meaning(p.args[i], m)])

HoldAll(ps, m) == \A p \in Range(ps) : Holds(p, m)

\* The joined row matches; a left join makes do with none when none does.
Fits(m, j, w) ==
  LET rel == Relationships[j.rel] IN
  \/ m[j.to] \in w[j.to] /\ HoldAll(rel.predicates, m)
  \/ /\ rel.type = "left" /\ m[j.to] = NullRow(j.to)
     /\ \A row \in w[j.to] : ~HoldAll(rel.predicates, [m EXCEPT ![j.to] = row])

\* Each tenant-scoped table shows rows of the principal's tenant.
OfTenant(m) ==
  NeedsTenant(plan) => \A t \in DOMAIN m : "tenant_scoped" \in Catalog[t].tags =>
    m[t][Catalog[t].tenant_key[2]] = Values[<<"parameter", "p_tenant">>]

InTime(m) ==
  plan.time # <<>> =>
    LET at == Meaning(plan.time[1].column, m) IN
    Values[<<"parameter", "p_time_start">>] <= at /\ at < Values[<<"parameter", "p_time_end">>]

Governed(m, placement) ==
  \A o \in Range(plan.obligations) : o.placement = placement => HoldAll(o.predicate, m)

\* The readings of a plan at one fact.
Readings(fact, w) ==
  LET rows(t) == IF t = plan.base THEN {fact} ELSE w[t] \cup {NullRow(t)}
      tables == Range(Scanned(plan))
  IN {m \in [tables -> UNION {rows(t) : t \in tables}] :
        /\ \A t \in tables : m[t] \in rows(t)
        /\ \A j \in Range(plan.joins) : Fits(m, j, w)
        /\ OfTenant(m) /\ InTime(m) /\ HoldAll(plan.population \o plan.filters, m)
        /\ Governed(m, "before_aggregation")}

\* The answer the plan stands for: each fact counts once, in the group of its reading.
Expected(w) ==
  LET read == [fact \in w[plan.base] |-> Readings(fact, w)]
      Key(m) == [i \in DOMAIN Grouped(plan) |->
                   KeyOf(Grouped(plan)[i], Meaning(Grouped(plan)[i].args[1], m))]
      all == UNION {read[fact] : fact \in w[plan.base]}
      keys == IF Grouped(plan) = <<>> THEN {<<>>} ELSE {Key(m) : m \in all}
      kept == {k \in keys : \A m \in all : Key(m) = k => Governed(m, "after_aggregation")}
      Facts(k) == {fact \in w[plan.base] : \E m \in read[fact] : Key(m) = k}
      Measured(k) == [fact \in Facts(k) |->
                        LET m == CHOOSE m \in read[fact] : Key(m) = k
                        IN [i \in DOMAIN plan.measure.args |-> Meaning(plan.measure.args[i], m)]]
  IN {Append(k, Aggregated(plan.measure.op, Collected(Facts(k), Measured(k)))) : k \in kept}

-----------------------------------------------------------------------------
(* What exactness rests on and no step of a request verifies.                *)

\* SQL resolves an ON clause among the joined table and those before it, and the values of
\* a list come in its order when what is looked up in it is a column.
Resolves(p) ==
  /\ \A i \in DOMAIN p.joins :
       \A c \in AllColumnsIn(Relationships[p.joins[i].rel].predicates) :
         TableOf(c) \in {Scanned(p)[k] : k \in 1..i + 1}
  /\ \A e \in Range(Clauses(Lower(p))) :
       e.op = "in" => e.args # <<>> /\ e.args[1] \in Columns

\* The declared grain of the base tells its rows apart.
GrainIsKey(p, w) ==
  \A f, g \in w[p.base] :
    (\A c \in Range(Catalog[p.base].grain) : f[c[2]] = g[c[2]]) => f = g

\* A join without a uniqueness contract matches one row at most, whatever it is joined to.
JoinsPreserve(p, w) ==
  LET tables == Range(Scanned(p))
      rows(t) == w[t] \cup {NullRow(t)}
      Meets(m, j, row) == HoldAll(Relationships[j.rel].predicates, [m EXCEPT ![j.to] = row])
  IN \A j \in Range(p.joins) : ~Relationships[j.rel].contract =>
       \A m \in [tables -> UNION {rows(t) : t \in tables}] :
         (\A t \in tables : m[t] \in rows(t)) =>
           \A r, s \in w[j.to] : Meets(m, j, r) /\ Meets(m, j, s) => r = s

-----------------------------------------------------------------------------
(* What the gates rest on, which see the columns of a clause and not its      *)
(* conjuncts.                                                                *)

\* The operands of some predicates in which a column stands.
Places(c, ps) ==
  UNION {{<<i, a>> : a \in {b \in DOMAIN ps[i].args : ps[i].args[b] = c}} : i \in DOMAIN ps}

OneOperand(c, ps) == \A x, y \in Places(c, ps) : x = y

\* A column of a rule, and the tenant key of a table, stand in one operand of their clause
\* only, a rule looks at columns, and the tenant scope has no predicates of its own.  Of
\* two scanned tables each has a column in use by a name not in use of the other.
TellsApart(p) ==
  LET rules == Placed(p, "before_aggregation")
      used == Referenced(Lower(p))
  IN /\ \A c \in AllColumnsIn(rules \o TenantPredicates(p)) : OneOperand(c, Where(p))
     /\ LET after == Placed(p, "after_aggregation")
        IN \A c \in AllColumnsIn(after) : OneOperand(c, after)
     /\ \A o \in Range(p.obligations) :
          /\ \A e \in Range(o.predicate) : ColumnsIn(e) # {}
          /\ o.rule = "security.tenant_scope" => o.predicate = <<>>
     /\ \A t, u \in Range(Scanned(p)) :
          t # u => \E c \in used : TableOf(c) = t /\ <<u, c[2]>> \notin used

-----------------------------------------------------------------------------
(* Properties.                                                               *)

\* What is executed as it was compiled answers exactly what the plan means: the values
\* meet their placeholders, no predicate is lost or misplaced, and no join counts a
\* fact twice or drops it (compiler.py:160, attestation.py:3-12).
AnswersAreExact == pc = "answered" /\ edit = "none" => answer = Expected(data)

\* What the plan restricts the base to, by itself.
OnBase(ps) == {p \in Range(ps) : {TableOf(c) : c \in ColumnsIn(p)} = {plan.base}}

\* A reading of the base alone.
Alone(fact) == [t \in {plan.base} |-> fact]

InQuestion(fact) ==
  LET m == Alone(fact) IN
  /\ OfTenant(m)
  /\ (\A t \in Range(plan.time) : TableOf(t.column) = plan.base) => InTime(m)
  /\ \A p \in OnBase(plan.population \o plan.filters) : Holds(p, m)
  /\ \A o \in Range(plan.obligations) :
       o.placement = "before_aggregation" => \A p \in OnBase(o.predicate) : Holds(p, m)

\* A fact meets exactly one row across each join with a uniqueness contract.
MeetsOne(fact, j, w) ==
  \E row \in w[j.to] : \A other \in w[j.to] :
    HoldAll(Relationships[j.rel].predicates, With(Alone(fact), j.to, other))
      <=> other = row

\* The attestations let a request pass when every fact in question meets exactly one
\* row, at the boundaries of the intervals and in open ones too, and only then
\* (attestation.py:3-10, 65-69).
AttestedExactly ==
  LET exact == \A j \in Range(plan.joins) : Relationships[j.rel].contract =>
                 \A fact \in data[plan.base] : InQuestion(fact) => MeetsOne(fact, j, data)
  IN (pc \in {"attested", "answered"} => exact) /\ (pc = "unproven" => ~exact)

\* Every column the answer of a plan depends on, the keys of tenants and joins included.
Touched ==
  AllColumnsIn(plan.population \o plan.filters)
    \cup (UNION {AllColumnsIn(o.predicate) : o \in Range(plan.obligations)})
    \cup (UNION {AllColumnsIn(Relationships[j.rel].predicates) : j \in Range(plan.joins)})
    \cup Range(plan.dimensions) \cup {t.column : t \in Range(plan.time)}
    \cup {Catalog[t].tenant_key : t \in Range(TenantTables(plan))}

\* The policy lets the measure be read and all else the answer depends on be used; the
\* measure divides by no NULLIF, which is no allowed node; and what the binder does not
\* look at is in order: certified tables, and a column that is a time.
Acceptable ==
  LET measured == ColumnsIn(plan.measure) IN
  /\ measured \cap closed.read = {} /\ (Touched \ measured) \cap closed.use = {}
  /\ plan.metric \notin closed.metric /\ plan.measure.op # "ratio_null"
  /\ \A t \in Range(Scanned(plan)) : Catalog[t].certified
  /\ \A t \in Range(plan.time) : t.column \in TimeRoles

\* The gates accept a text as it was compiled if and only if its plan is acceptable: none
\* objects to what the compiler writes by itself (suite.py:308-336, compiler.py:265-270).
SoundPlansAccepted ==
  edit = "none" => /\ pc \in {"validated", "attested", "unproven", "answered"} => Acceptable
                   /\ pc = "blocked" => ~Acceptable

\* The defects that no gate sees: conjuncts exchanged, so that values meet the wrong
\* placeholders, and operators exchanged.
Invisible == {"order", "operator"}

\* The reading of an environment of the text.
ReadingOf(env) == [t \in Range(Scanned(plan)) |-> env[Alias(plan, t)]]

\* Whatever single defect the text has but those two: no statement, function, star,
\* DISTINCT, inlined string, foreign table or partial join runs, and what runs counts
\* rows of the principal's tenant that meet every mandatory rule (suite.py:1-8, 541).
DefectsStayGoverned ==
  pc = "answered" /\ edit \notin Invisible \cup {"none"} =>
    /\ edit \in {"column", "where"}
    /\ \A env \in Counted(compiled.text, compiled.values, data) :
         OfTenant(ReadingOf(env)) /\ Governed(ReadingOf(env), "before_aggregation")
==============================================================================
