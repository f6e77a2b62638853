------------------------------- MODULE Binding -------------------------------
(***************************************************************************)
(* app/planning/binder.py: Binder.bind, from the resolved metric,           *)
(* dimensions and filters to a bound plan.  The rule engine closes over what*)
(* they use, the join planner connects what the closure needs, and every    *)
(* column is authorized once more.                                          *)
(***************************************************************************)
EXTENDS RuleClosure, JoinPlanner

CONSTANTS
  Graphs,       \* relationship catalogs
  Books,        \* rule catalogs
  Permissions,  \* what a principal may use
  Requests      \* what metrics and dimensions resolve to

VARIABLES
  request,  \* what the request's metric, dimensions and filters resolve to
  binding   \* resolving, closing, joining, bound, or the code it is refused with

catalogVars == <<graph, may, read>>

vars == <<catalogVars, closureVars, joinVars, request, binding>>

\* The metric's base table and the columns it measures, those that stand in its
\* population, its time window and the user's filters, the dimensions and the
\* relationships they go through, and the rules the metric names.
RequestRecords ==
  [base : Tables, measures : SUBSET Columns, predicates : SUBSET Columns,
   dimensions : SUBSET Columns, via : SUBSET Relationships,
   required_rules : SUBSET Rules]

ASSUME BindingAssumption ==
  /\ Graphs \subseteq [Relationships -> RelationshipRecords]
  /\ \A g \in Graphs, rel \in Relationships : g[rel].left # g[rel].right
  /\ Books \subseteq [Rules -> RuleRecords]
  /\ Permissions \subseteq [may : SUBSET Objects, read : SUBSET Columns]
  /\ Requests \subseteq RequestRecords

Nothing ==
  [tables |-> {}, columns |-> {}, rels |-> {}, slots |-> [s \in Slots |-> None]]

Init ==
  /\ graph \in Graphs /\ book \in Books
  /\ \E p \in Permissions : may = p.may /\ read = p.read
  /\ request \in Requests
  /\ binding = "resolving"
  /\ seed = Nothing /\ state = Nothing /\ before = Nothing
  /\ todo = {} /\ rounds = 0 /\ obligations = {} /\ applied = {}
  /\ requirements = {} /\ closure = "idle"
  /\ wanted = [base |-> request.base, terminals |-> {}, required |-> {}]
  /\ queue = <<>> /\ found = <<>> /\ plan = <<>> /\ joins = "idle"

-----------------------------------------------------------------------------
UsedColumns == request.measures \cup request.predicates \cup request.dimensions

\* What the rule closure starts from.
Seed ==
  [tables |-> {request.base} \cup {TableOf[c] : c \in UsedColumns},
   columns |-> UsedColumns, rels |-> request.via,
   slots |-> [s \in Slots |-> None]]

\* The metric, the dimensions and the filters are resolved, each authorized for
\* what it is: a dimension need only be readable so far.
Resolve ==
  /\ binding = "resolving"
  /\ IF /\ request.measures \cup request.dimensions \subseteq read
        /\ request.predicates \subseteq may
       THEN binding' = "closing" /\ OpenClosure(Seed)
       ELSE binding' = "NOT_AUTHORIZED" /\ UNCHANGED closureVars
  /\ UNCHANGED <<catalogVars, request, joinVars>>

Close ==
  /\ binding = "closing" /\ ClosureStep
  /\ UNCHANGED <<catalogVars, request, binding, joinVars>>

ClosureRefused ==
  /\ binding = "closing"
  /\ closure \notin {"idle", "between", "round", "closed"}
  /\ binding' = closure
  /\ UNCHANGED <<catalogVars, request, closureVars, joinVars>>

\* Variant: only the dimensions mandate relationships.
RequiredByDimensions == request.via

\* The relationships the dimensions go through and the rules require.
RequiredRelationships == request.via \cup state.rels

Unresolved == requirements # {} \/ ~(request.required_rules \subseteq applied)

Closed ==
  /\ binding = "closing" /\ closure = "closed"
  /\ IF Unresolved
       THEN binding' = "MANDATORY_RULE_UNRESOLVED" /\ UNCHANGED joinVars
       ELSE /\ binding' = "joining"
            /\ OpenJoins(request.base, state.tables, RequiredRelationships)
  /\ UNCHANGED <<catalogVars, request, closureVars>>

Join ==
  /\ binding = "joining" /\ JoinStep
  /\ UNCHANGED <<catalogVars, request, binding, closureVars>>

\* The columns of the question, of the obligations and of the joins: the final
\* authorization, which now holds dimensions to use in predicates.
SweptColumns ==
  seed.columns \cup (UNION {book[r].effect.columns : r \in obligations})
    \cup (UNION {Keys(rel) : rel \in Refs(plan)})

Bind ==
  /\ binding = "joining" /\ joins \notin {"idle", "searching"}
  /\ binding' = IF joins # "planned" THEN joins
                ELSE IF SweptColumns \ request.measures \subseteq may
                  THEN "bound" ELSE "NOT_AUTHORIZED"
  /\ UNCHANGED <<catalogVars, request, closureVars, joinVars>>

Next == Resolve \/ Close \/ ClosureRefused \/ Closed \/ Join \/ Bind

Spec == Init /\ [][Next]_vars

-----------------------------------------------------------------------------
(* Properties.                                                               *)

TypeOK ==
  /\ ClosureTypeOK /\ JoinTypeOK
  /\ request \in Requests
  /\ binding \in {"resolving", "closing", "joining", "bound", "NOT_AUTHORIZED",
                  "RULE_CONFLICT", "RULE_CLOSURE_NOT_CONVERGED",
                  "MANDATORY_RULE_UNRESOLVED", "NO_APPROVED_PATH", "AMBIGUOUS_PATH"}

PlannedTables == {request.base} \cup {plan[i].to : i \in DOMAIN plan}

\* A bound plan meets the rules that bind it: every obligation finds its tables
\* and its relationship among the joins, with the tables the question uses, and
\* no rule of the metric's own is missing.
BoundPlanMeetsRules ==
  binding = "bound" =>
    /\ request.required_rules \subseteq applied
    /\ \A r \in obligations :
         /\ NeededTables(book[r].effect) \subseteq PlannedTables
         /\ NeededRels(book[r].effect) \subseteq Refs(plan)
    /\ seed.tables \subseteq PlannedTables

\* The architecture document has the join planner return to binding "whenever its
\* selected operators introduce dependencies or change rule applicability": the
\* tables a bound plan scans, those between the base and what is used included,
\* activate no mandatory rule that does not bind it.
ScansGoverned ==
  binding = "bound" =>
    Mandatory \cap Candidates([state EXCEPT !.tables = @ \cup PlannedTables])
      \subseteq obligations

=============================================================================
