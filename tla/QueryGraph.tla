----------------------------- MODULE QueryGraph -----------------------------
(***************************************************************************)
(* The request workflow of app/graph: a LangGraph state machine that admits *)
(* a question, routes it, retrieves candidates, obtains a proposal, asks    *)
(* the user when the proposal is materially ambiguous, binds and compiles   *)
(* it, repairs presentation defects, and executes the compiled query.       *)
(*                                                                          *)
(* One action is one node.  The model follows one thread: `st` is the       *)
(* checkpointed GraphState, `ctx` the RequestContext of the invocation in   *)
(* progress (never persisted), `pc` the node LangGraph runs next.  What a   *)
(* language model, the retrieval index, the catalog and the warehouse       *)
(* answer is chosen nondeterministically; what the nodes do with the answer *)
(* is not.                                                                  *)
(***************************************************************************)
EXTENDS Integers, FiniteSets

CONSTANTS
  Metrics,             \* metric ids of the catalog
  Ranges,              \* reporting periods a proposal may carry
  OfferedRanges,       \* the periods missing_time_range offers
  Grains,              \* time grains
  Supports,            \* Supports[m]: the grains metric m is published at
  SortKeys,            \* sort keys a request may carry
  Proposals,           \* the requests the proposer may come up with
  None,                \* Python's None
  MaxRetrievalRounds,  \* MAX_RETRIEVAL_ROUNDS
  MaxRepairAttempts,   \* MAX_REPAIR_ATTEMPTS
  MaxEpoch             \* bound of the model: policy changes

ASSUME BudgetAssumption ==
  /\ MaxRetrievalRounds \in Nat
  /\ MaxRepairAttempts \in Nat
  /\ MaxEpoch \in Nat

ASSUME CatalogAssumption ==
  /\ OfferedRanges \subseteq Ranges
  /\ Supports \in [Metrics -> SUBSET Grains]
  /\ None \notin Metrics \cup Ranges \cup Grains

VARIABLES
  pc,       \* the node to run next, or where the thread rests
  st,       \* GraphState: the checkpointed channels of the thread
  ctx,      \* RequestContext of the running invocation: scope epoch, artifacts
  payload,  \* the resume value the clarify node has not consumed yet
  policy,   \* the live policy, as the policy engine evaluates it
  steps,    \* nodes run in this invocation (LangGraph's recursion counter)
  history   \* what the user asked for: observed by the properties only

vars == <<pc, st, ctx, payload, policy, steps, history>>

-----------------------------------------------------------------------------
(* Data.                                                                     *)

Slots == {"metric", "time_range", "time_grain"}

Values == Metrics \cup Ranges \cup Grains

\* A SemanticRequest.  `first` is metric_ids[0], `others` the further ids.
Requests ==
  [first : Metrics, others : SUBSET Metrics, time : Ranges \cup {None},
   grain : Grains \cup {None}, sort : SUBSET SortKeys]

ASSUME RequestAssumption == Proposals \subseteq Requests /\ None \notin Requests

Nodes ==
  {"admit", "understand", "retrieve", "expand", "propose", "clarify", "repair",
   "bind_compile", "execute", "definition", "metadata", "stop"}

\* Where a thread may rest: nothing asked, waiting for the user, finished, or
\* left by an exception the graph does not catch.
Resting == {"idle", "suspended", "end", "aborted"}

\* What UnderstandOutput may say; the edge for "denied" has no producer.
Routes == {"sql", "definition", "metadata", "clarify", "unsupported"}

\* Conditional edges: <<node, what the node decided, next node>>.
Edges ==
  {<<"admit", "allowed", "understand">>, <<"admit", "denied", "stop">>,
   <<"understand", "sql", "retrieve">>, <<"understand", "clarify", "retrieve">>,
   <<"understand", "definition", "definition">>,
   <<"understand", "metadata", "metadata">>,
   <<"understand", "unsupported", "stop">>, <<"understand", "denied", "stop">>,
   <<"retrieve", "ready", "propose">>, <<"retrieve", "empty", "propose">>,
   <<"propose", "ready", "bind_compile">>, <<"propose", "expand", "expand">>,
   <<"propose", "clarify", "clarify">>, <<"propose", "blocked", "stop">>,
   <<"clarify", "resumed", "admit">>, <<"clarify", "blocked", "stop">>,
   <<"repair", "ready", "bind_compile">>, <<"repair", "blocked", "stop">>,
   <<"expand", "ready", "retrieve">>, <<"expand", "blocked", "stop">>,
   <<"bind_compile", "ready", "execute">>,
   <<"bind_compile", "repairable", "repair">>,
   <<"bind_compile", "blocked", "stop">>,
   <<"execute", "answered", "end">>, <<"execute", "blocked", "stop">>,
   <<"definition", "answered", "end">>, <<"definition", "blocked", "stop">>,
   <<"metadata", "answered", "end">>, <<"metadata", "blocked", "stop">>}

Targets(node, label) ==
  {e[3] : e \in {x \in Edges : x[1] = node /\ x[2] = label}}

RepairableCodes == {"VALIDATION_FAILED", "COMPILER_DEFECT"}

\* Output columns a sort key may name: a metric goes by its own alias, and the period
\* by the grain it is broken down by.
Columns(r) ==
  {r.first} \cup r.others
    \cup (IF r.time # None /\ r.grain # None THEN {r.grain} ELSE {})

-----------------------------------------------------------------------------
(* app/planning/clarify.py                                                   *)

\* Candidate metrics this principal may discover and execute.
Runnable(cands) == cands \cap policy.grants

\* runnable[:4]: which four depends on the order of the candidates, left open.
Shortlists(cands) ==
  LET n == Cardinality(Runnable(cands))
  IN  {T \in SUBSET Runnable(cands) : Cardinality(T) = IF n <= 4 THEN n ELSE 4}

AmbiguousMeasure(cands, exact) ==
  exact = {} /\ Cardinality(Runnable(cands)) >= 2

UnsupportedGrain(r) ==
  r.grain # None /\ r.grain \notin Supports[r.first]
    /\ Cardinality(Supports[r.first]) >= 2

\* The first unresolved material ambiguity as a question, or None.
Detect(r, cands, exact, asked, menu) ==
  IF ~({r.first} \cup r.others \subseteq policy.grants) THEN None
  ELSE IF "metric" \notin asked /\ AmbiguousMeasure(cands, exact)
    THEN [slot |-> "metric", options |-> menu]
  ELSE IF "time_range" \notin asked /\ r.time = None
    THEN [slot |-> "time_range", options |-> OfferedRanges]
  ELSE IF "time_grain" \notin asked /\ UnsupportedGrain(r)
    THEN [slot |-> "time_grain", options |-> Supports[r.first]]
  ELSE None

\* Only the clarified slot changes.
ApplyAnswer(r, slot, value) ==
  CASE slot = "metric"     -> [r EXCEPT !.first = value, !.others = {}]
    [] slot = "time_range" -> [r EXCEPT !.time = value]
    [] slot = "time_grain" -> [r EXCEPT !.grain = value]

\* Variant: only the latest answer counts as asked.
AskedLast ==
  IF st.clarification_answer = None THEN {} ELSE {st.clarification_answer.slot}

Asked == {s \in Slots : st.clarified_slots[s] > 0}

-----------------------------------------------------------------------------
(* app/runtime.py: a caller asks and resumes.                                *)

NoContext == [epoch |-> None, artifacts |-> {}]

\* context(): a fresh scope under the live policy and an empty artifact store.
FreshContext == [epoch |-> policy.epoch, artifacts |-> {}]

NothingChosen == [s \in Slots |-> None]

Init ==
  /\ pc = "idle"
  /\ st = [decision |-> None, route |-> None, exact_metric_refs |-> {},
           candidates |-> {}, retrieval_rounds |-> 0, proposal |-> None,
           clarification |-> None, clarification_answer |-> None,
           clarified_slots |-> [s \in Slots |-> 0], columns |-> {},
           reason_codes |-> {}, sql |-> None, passed |-> None,
           repair_attempts |-> 0, plan_revision |-> 1, result |-> None,
           answer |-> None]
  /\ ctx = NoContext
  /\ payload = None
  /\ \E grants \in SUBSET Metrics :
       policy = [epoch |-> 1, known |-> TRUE, grants |-> grants]
  /\ steps = 0
  /\ history = [chosen |-> NothingChosen, meant |-> None]

\* ask(), under a thread id of its own as both front ends call it.  An unknown
\* principal has no scope: ask() raises before the graph is entered.
Ask ==
  /\ pc = "idle"
  /\ policy.known
  /\ pc' = "admit"
  /\ ctx' = FreshContext
  /\ UNCHANGED <<st, payload, policy, steps, history>>

\* resume(): the pending clarify node runs again, with the caller's payload.
Resume ==
  /\ pc = "suspended"
  /\ policy.known
  /\ payload' \in [slot : Slots, value : Values]
  /\ pc' = "clarify"
  /\ ctx' = FreshContext
  /\ steps' = 0
  /\ UNCHANGED <<st, policy, history>>

\* An exception no node catches ends the invocation: ainvoke raises it.
Raise ==
  /\ pc \in Nodes
  /\ pc' = "aborted"
  /\ ctx' = NoContext
  /\ payload' = None
  /\ UNCHANGED <<st, policy, steps, history>>

\* The reviewed policy changes under the application: an environment action.
PolicyChange ==
  /\ policy.epoch < MaxEpoch
  /\ policy' \in [epoch : {policy.epoch + 1}, known : BOOLEAN,
                   grants : SUBSET Metrics]
  /\ ~policy'.known => policy'.grants = {}
  /\ UNCHANGED <<pc, st, ctx, payload, steps, history>>

-----------------------------------------------------------------------------
(* app/graph/nodes/core.py.  Node(n) is what LangGraph does for every node:  *)
(* count the step and drop the context when the invocation is over.          *)

\* The longest path of one invocation.
InvocationBound == 8 + 3 * MaxRetrievalRounds + 2 * MaxRepairAttempts

\* Bound of the model: counting stops one step beyond the longest path, so that
\* nodes that call each other for ever make a cycle of states.
Counted(n) == IF n > InvocationBound THEN n ELSE n + 1

Node(n) ==
  /\ pc = n
  /\ steps' = Counted(steps)
  /\ UNCHANGED policy

Goto(n, label) == pc' \in Targets(n, label)

Continue == UNCHANGED <<ctx, payload>>

Blocked(codes) == [st EXCEPT !.decision = "blocked", !.reason_codes = codes]

Admit ==
  /\ Node("admit")
  /\ st' = IF policy.known THEN [st EXCEPT !.decision = "allowed"]
           ELSE [st EXCEPT !.decision = "denied",
                           !.reason_codes = {"NOT_AUTHORIZED"}]
  /\ Goto("admit", st'.decision)
  /\ Continue /\ UNCHANGED history

Understand ==
  /\ Node("understand")
  /\ \/ \E route \in Routes, exact \in SUBSET Metrics :
          st' = [st EXCEPT !.route = route, !.exact_metric_refs = exact]
     \/ st' = [Blocked({"PROVIDER_UNAVAILABLE"}) EXCEPT !.route = "unsupported"]
  /\ Goto("understand", st'.route)
  /\ Continue /\ UNCHANGED history

\* Variant: a retrieval that is not counted.
FoundUncounted(cands, d) == [st EXCEPT !.candidates = cands, !.decision = d]

Found(cands, d) ==
  [st EXCEPT !.candidates = cands, !.decision = d, !.retrieval_rounds = @ + 1]

\* The DISCOVER recheck of a candidate raises when the principal is unknown; without
\* candidates nothing is rechecked.
Retrieve ==
  /\ Node("retrieve")
  /\ \E cands \in SUBSET Metrics, d \in {"ready", "empty"} :
       /\ cands # {} => d = "ready" /\ policy.known
       /\ st' = Found(cands, d)
  /\ Goto("retrieve", st'.decision)
  /\ Continue /\ UNCHANGED history

Expand ==
  /\ Node("expand")
  /\ st' = IF st.retrieval_rounds >= MaxRetrievalRounds + 1
             THEN Blocked({"BUDGET_EXHAUSTED"})
             ELSE [st EXCEPT !.decision = "ready"]
  /\ Goto("expand", st'.decision)
  /\ Continue /\ UNCHANGED history

\* Variant: a pending clarification is looked for, and resume has cleared it.
SettledIfPending == st.clarification # None /\ st.proposal # None

\* The settled proposal is authoritative on every run after an answer.
Settled == st.clarification_answer # None /\ st.proposal # None

\* What propose emits for the request r it settles on.
ProposeWith(r, question) ==
  [st EXCEPT !.proposal = r, !.clarification = question,
             !.decision = IF question = None THEN "ready" ELSE "clarify"]

Proposed(r) ==
  \E menu \in Shortlists(st.candidates) :
    st' = ProposeWith(r, Detect(r, st.candidates, st.exact_metric_refs, Asked, menu))

\* The proposer may choose only metrics it was offered.
ProposePlan ==
  /\ Node("propose")
  /\ \/ /\ Settled
        /\ policy.known      \* detect asks the policy engine, which raises
        /\ Proposed(st.proposal)
        /\ UNCHANGED history
     \/ /\ ~Settled
        /\ policy.known
        /\ \E r \in Proposals :
             /\ {r.first} \cup r.others \subseteq
                  st.exact_metric_refs \cup st.candidates
             /\ Proposed(r)
             /\ history' = [history EXCEPT !.meant = r]
     \/ /\ ~Settled           \* nothing offered, or nothing chosen
        /\ st' = IF st.retrieval_rounds <= MaxRetrievalRounds
                 THEN [st EXCEPT !.decision = "expand"]
                 ELSE Blocked({"COVERAGE_INCOMPLETE"})
        /\ UNCHANGED history
     \/ /\ ~Settled           \* the proposer fails, with this or another code
        /\ st' = Blocked({"PROVIDER_UNAVAILABLE"})
        /\ UNCHANGED history
  /\ Goto("propose", st'.decision)
  /\ Continue

\* interrupt(): the thread is checkpointed and the invocation returns.
ClarifyInterrupt ==
  /\ Node("clarify")
  /\ payload = None
  /\ pc' = "suspended"
  /\ ctx' = NoContext
  /\ UNCHANGED <<st, payload, history>>

Offered(p) ==
  p.slot = st.clarification.slot /\ p.value \in st.clarification.options

\* The node again, from the top, with the resume value.
ClarifyAnswer ==
  /\ Node("clarify")
  /\ payload # None
  /\ IF Offered(payload)
       THEN /\ st' = [st EXCEPT
                        !.proposal = ApplyAnswer(@, payload.slot, payload.value),
                        !.clarification = None,
                        !.clarification_answer = payload,
                        !.clarified_slots[payload.slot] = @ + 1,
                        !.decision = "resumed"]
            /\ history' = [history EXCEPT
                             !.chosen[payload.slot] = payload.value,
                             !.meant = ApplyAnswer(@, payload.slot, payload.value)]
       ELSE /\ st' = Blocked({IF payload.slot = st.clarification.slot
                                THEN "NOT_AUTHORIZED" ELSE "MATERIAL_AMBIGUITY"})
            /\ UNCHANGED history
  /\ payload' = None
  /\ Goto("clarify", st'.decision)
  /\ UNCHANGED ctx

\* Variant: the repair also gives up the breakdown the sort key named.
RepairedByGrain(r) == [r EXCEPT !.sort = @ \cap st.columns, !.grain = None]

\* propose_repair drops the sort keys that name no column, and nothing else.
Repaired(r) == [r EXCEPT !.sort = @ \cap st.columns]

Repair ==
  /\ Node("repair")
  /\ st' = IF st.repair_attempts >= MaxRepairAttempts
             THEN Blocked({"BUDGET_EXHAUSTED"})
           ELSE IF \/ st.reason_codes \cap RepairableCodes = {}
                   \/ st.proposal.sort \subseteq st.columns
             THEN [st EXCEPT !.decision = "blocked"]
           ELSE [st EXCEPT          \* clear_downstream, then the repair
                  !.proposal = Repaired(@), !.columns = {}, !.sql = None,
                  !.passed = None, !.result = None, !.answer = None,
                  !.plan_revision = @ + 1, !.repair_attempts = @ + 1,
                  !.reason_codes = {}, !.decision = "ready"]
  /\ Goto("repair", st'.decision)
  /\ Continue /\ UNCHANGED history

-----------------------------------------------------------------------------
(* bind_validate_compile.                                                    *)

\* What the binder always refuses, whatever the rest of the catalog says.
BindFinding(r) ==
  IF r.others # {} THEN "UNSUPPORTED_CAPABILITY"
  ELSE IF ~policy.known \/ r.first \notin policy.grants THEN "NOT_AUTHORIZED"
  ELSE IF r.time # None /\ r.grain # None /\ r.grain \notin Supports[r.first]
    THEN "UNSUPPORTED_CAPABILITY"
  ELSE None

\* Codes binding, lowering or compiling r may raise.  PLANNING_FAILED stands
\* for the non-repairable ones (rules, joins, columns, dimensions).
RaisedCodes(r) ==
  IF BindFinding(r) # None THEN {BindFinding(r)}
  ELSE {"PLANNING_FAILED", "VALIDATION_FAILED"} \cup
       (IF r.sort \subseteq Columns(r) THEN {"COMPILER_DEFECT"} ELSE {})

Binds(r) == BindFinding(r) = None /\ r.sort \subseteq Columns(r)

\* Codes a failed validation reports; UNSAFE_QUERY stands for the others.
ReportedCodes == SUBSET (RepairableCodes \cup {"UNSAFE_QUERY"}) \ {{}}

Verdict(codes) ==
  IF codes \cap RepairableCodes # {} /\ st.repair_attempts < MaxRepairAttempts
    THEN "repairable" ELSE "blocked"

Compiled(r) == [request |-> r, revision |-> st.plan_revision]

BindFailed(codes) ==
  [st EXCEPT !.decision = Verdict(codes), !.reason_codes = codes,
             !.columns = Columns(st.proposal)]

BindReady(passed) ==
  [st EXCEPT !.decision = "ready", !.sql = Compiled(st.proposal),
             !.passed = passed, !.columns = Columns(st.proposal)]

\* discard_from(revision), then put(revision).
Stored ==
  [ctx EXCEPT !.artifacts =
    {a \in @ : a.revision < st.plan_revision} \cup
    {[revision |-> st.plan_revision, request |-> st.proposal,
      epoch |-> ctx.epoch]}]

BindRaises ==
  /\ \E code \in RaisedCodes(st.proposal) : st' = BindFailed({code})
  /\ UNCHANGED ctx

\* Variant: validation findings are advisory.
ValidationAdvises ==
  /\ Binds(st.proposal)
  /\ st' = BindReady(FALSE) /\ ctx' = Stored

ValidationFails ==
  /\ Binds(st.proposal)
  /\ \E codes \in ReportedCodes :
       st' = [BindFailed(codes) EXCEPT !.sql = Compiled(st.proposal),
                                       !.passed = FALSE]
  /\ UNCHANGED ctx

ValidationPasses ==
  /\ Binds(st.proposal)
  /\ st' = BindReady(TRUE) /\ ctx' = Stored

BindCompile ==
  /\ Node("bind_compile")
  /\ BindRaises \/ ValidationFails \/ ValidationPasses
  /\ Goto("bind_compile", st'.decision)
  /\ UNCHANGED <<payload, history>>

-----------------------------------------------------------------------------
(* execute and the answers that need no SQL.                                 *)

\* END: the invocation returns and its context is garbage.
Leave == ctx' = (IF pc' = "end" THEN NoContext ELSE ctx) /\ UNCHANGED payload

Current(a) == a \in ctx.artifacts /\ a.revision = st.plan_revision

Result(a) ==
  [request |-> a.request, revision |-> a.revision, bound |-> a.epoch,
   released |-> policy.epoch]

\* Variant: the rows are emitted before the result contract is checked.
ExecutionFailsWithRows ==
  \E a \in ctx.artifacts :
    /\ Current(a)
    /\ st' = [Blocked({"EXECUTION_FAILED"}) EXCEPT !.result = Result(a)]

\* No artifact of this revision; an unknown principal; or the ticket, preflight,
\* attestation, the gateway or the result contract refuses (EXECUTION_FAILED
\* stands for all of the latter).
ExecutionFails ==
  st' = Blocked({IF ~\E a \in ctx.artifacts : Current(a) THEN "COMPILER_DEFECT"
                 ELSE IF ~policy.known THEN "NOT_AUTHORIZED"
                 ELSE "EXECUTION_FAILED"})

ExecutionAnswers ==
  \E a \in ctx.artifacts :
    /\ Current(a)
    /\ policy.known
    /\ st' = [st EXCEPT !.decision = "answered", !.answer = "answered",
                        !.result = Result(a)]

Execute ==
  /\ Node("execute")
  /\ ExecutionFails \/ ExecutionAnswers
  /\ Goto("execute", st'.decision)
  /\ Leave /\ UNCHANGED history

\* DISCOVER alone admits a definition, so a metric that may not be executed
\* may still be defined.
DefinitionAnswer ==
  /\ Node("definition")
  /\ \/ /\ st.exact_metric_refs # {}
        /\ st' = [st EXCEPT !.decision = "answered", !.answer = "answered"]
     \/ /\ st.exact_metric_refs = {}
        /\ st' = Blocked({"OBJECT_NOT_FOUND"})
     \/ /\ ~(st.exact_metric_refs \subseteq policy.grants) \/ ~policy.known
        /\ st' = Blocked({"NOT_AUTHORIZED"})
  /\ Goto("definition", st'.decision)
  /\ Leave /\ UNCHANGED history

MetadataAnswer ==
  /\ Node("metadata")
  /\ policy.known   \* queryable_tables raises otherwise
  /\ st' = [st EXCEPT !.decision = "answered", !.answer = "answered"]
  /\ Goto("metadata", st'.decision)
  /\ Leave /\ UNCHANGED history

Stop ==
  /\ Node("stop")
  /\ st' = [st EXCEPT !.answer =
             IF st.decision = "denied" THEN "denied"
             ELSE IF st.route \in {"unsupported", "clarify"} THEN st.route
             ELSE "unavailable"]
  /\ pc' = "end"
  /\ Leave /\ UNCHANGED history

-----------------------------------------------------------------------------
NodeStep ==
  \/ Admit \/ Understand \/ Retrieve \/ Expand \/ ProposePlan
  \/ ClarifyInterrupt \/ ClarifyAnswer \/ Repair \/ BindCompile
  \/ Execute \/ DefinitionAnswer \/ MetadataAnswer \/ Stop

Next == Ask \/ Resume \/ NodeStep \/ Raise \/ PolicyChange

\* The event loop runs a pending node until it returns or raises.  Nothing makes
\* a user ask, or answer a clarification.
Fairness == WF_vars(NodeStep \/ Raise)

Spec == Init /\ [][Next]_vars /\ Fairness

-----------------------------------------------------------------------------
(* Properties.                                                               *)

Choices(slot) ==
  IF slot = "metric" THEN Metrics ELSE IF slot = "time_range" THEN Ranges ELSE Grains

Questions ==
  {q \in [slot : Slots, options : SUBSET Values] : q.options \subseteq Choices(q.slot)}

Payloads == [slot : Slots, value : Values]

Codes ==
  RepairableCodes \cup
  {"NOT_AUTHORIZED", "PROVIDER_UNAVAILABLE", "BUDGET_EXHAUSTED",
   "COVERAGE_INCOMPLETE", "MATERIAL_AMBIGUITY", "UNSUPPORTED_CAPABILITY",
   "PLANNING_FAILED", "UNSAFE_QUERY", "EXECUTION_FAILED", "OBJECT_NOT_FOUND"}

Decisions ==
  {"allowed", "denied", "ready", "empty", "expand", "clarify", "resumed",
   "repairable", "blocked", "answered"}

Answers == {"answered", "denied", "unsupported", "clarify", "unavailable"}

AskedCounts == [Slots -> Nat]
ColumnSets  == SUBSET (Metrics \cup Grains)
Queries     == [request : Requests, revision : Nat]
Results     == [request : Requests, revision : Nat, bound : Nat, released : Nat]
Artifacts   == [revision : Nat, request : Requests, epoch : Nat]

Optional(S) == S \cup {None}

GraphState ==
  [decision : Optional(Decisions),
   route : Optional(Routes),
   exact_metric_refs : SUBSET Metrics,
   candidates : SUBSET Metrics,
   retrieval_rounds : Nat,
   proposal : Optional(Requests),
   clarification : Optional(Questions),
   clarification_answer : Optional(Payloads),
   clarified_slots : AskedCounts,
   columns : ColumnSets,
   reason_codes : SUBSET Codes,
   sql : Optional(Queries),
   passed : Optional(BOOLEAN),
   repair_attempts : Nat,
   plan_revision : Nat,
   result : Optional(Results),
   answer : Optional(Answers)]

Contexts == [epoch : Nat, artifacts : SUBSET Artifacts]

Policies == [epoch : Nat, known : BOOLEAN, grants : SUBSET Metrics]

Histories == [chosen : [Slots -> Optional(Values)], meant : Optional(Requests)]

\* Every channel of GraphState, and the context, hold what state.py declares.
TypeOK ==
  /\ pc \in Nodes \cup Resting
  /\ st \in GraphState
  /\ ctx \in Contexts \cup {NoContext}
  /\ payload \in Optional(Payloads)
  /\ policy \in Policies
  /\ steps \in Nat
  /\ history \in Histories

Honours(r, chosen) ==
  /\ chosen["metric"] # None => r.first = chosen["metric"] /\ r.others = {}
  /\ chosen["time_range"] # None => r.time = chosen["time_range"]
  /\ chosen["time_grain"] # None => r.grain = chosen["time_grain"]

\* A released result answers every clarification the way the user did, however
\* many times the request was suspended, resumed, re-routed and repaired.
SettledSlotsHonoured ==
  st.result # None => Honours(st.result.request, history.chosen)

\* A dialogue never asks about one slot twice, although understanding and
\* retrieval run again, and may answer differently, after every resume.
NoSlotAskedTwice ==
  /\ \A s \in Slots : st.clarified_slots[s] <= 1
  /\ pc = "suspended" => st.clarified_slots[st.clarification.slot] = 0

\* r is q with some of its sort keys dropped.
SameMeaning(r, q) ==
  /\ r.first = q.first /\ r.others = q.others
  /\ r.time = q.time /\ r.grain = q.grain
  /\ r.sort \subseteq q.sort

\* The query that ran measures what was proposed and clarified: binding and
\* repair drop sort keys at most.
MeaningPreserved ==
  st.result # None =>
    history.meant # None /\ SameMeaning(st.result.request, history.meant)

\* A released result comes from the artifact of the current revision: its
\* compiled form passed validation and is the one the state shows.
ReleasedWasValidated ==
  st.result # None =>
    /\ st.passed = TRUE
    /\ st.sql = [request |-> st.result.request, revision |-> st.result.revision]
    /\ st.result.revision = st.plan_revision
    /\ st.proposal = st.result.request

\* No refusal carries rows: what stop answers, it answers without a result.
RefusalReleasesNothing ==
  pc \in {"stop", "suspended"} \/ st.answer \notin {None, "answered"}
    => st.result = None

\* No invocation is longer than its longest path: LangGraph's recursion limit (40)
\* is a circuit breaker the budgets keep every request away from.
StepsWithinBudget == steps <= InvocationBound

\* scope.py: "A changed policy epoch means the old scope is stale and every
\* inherited binding must be rechecked."
ReleasedUnderBoundEpoch ==
  st.result # None => st.result.released = st.result.bound

-----------------------------------------------------------------------------
(* The workflow implements RequestLifecycle.  A thread is waiting from the    *)
(* interrupt until the clarify node has consumed the answer.                  *)

LifecycleStatus ==
  IF pc = "idle" THEN "none"
  ELSE IF pc = "aborted" THEN "failed"
  ELSE IF pc = "suspended" \/ payload # None THEN "waiting"
  ELSE IF pc # "end" THEN "working"
  ELSE IF st.answer = "answered" THEN "answered" ELSE "refused"

Measured(r) ==
  [s \in Slots |-> IF s = "metric" THEN r.first
                   ELSE IF s = "time_range" THEN r.time ELSE r.grain]

Lifecycle == INSTANCE RequestLifecycle WITH
  status  <- LifecycleStatus,
  asking  <- IF LifecycleStatus = "waiting" THEN st.clarification.slot ELSE None,
  settled <- history.chosen,
  outcome <- IF st.result = None THEN None ELSE Measured(st.result.request)

\* Every behaviour of the graph is one RequestLifecycle allows.
RefinesLifecycle == Lifecycle!Spec

\* Every invocation ends: it answers, refuses, suspends for the user or raises; no two
\* nodes hand a question to each other for ever, recursion limit or not.
InvocationEnds == Lifecycle!WorkEnds

=============================================================================
