# Verification of text-to-sql-rag

TLA+ models of the governed text-to-SQL application in `src/`, TLC
configurations that check them on small instances, and proofs that TLAPS checks
for every value of the constants. All paths below are relative to the
repository; module names refer to this directory.

- [1. The system](#1-the-system)
- [2. Modules, and how they correspond to the code](#2-modules-and-how-they-correspond-to-the-code)
- [3. Runs](#3-runs)
- [4. Proofs](#4-proofs)
- [5. Where documentation and code disagree](#5-where-documentation-and-code-disagree)
- [6. What is not modelled](#6-what-is-not-modelled)
- [7. Plan](#7-plan)

## 1. The system

A user asks a question in the CLI or in a Chainlit chat. A LangGraph workflow
turns it into a typed request (metric, dimensions, period, grain), asks back
when the request is materially ambiguous, binds the request against a pinned
catalog snapshot under the user's permissions, compiles it to SQL, validates
the SQL, and executes it through a gateway that admits nothing but validated
queries. No step trusts what a language model says.

| Component | State it keeps | Operations | What makes it correct |
|---|---|---|---|
| Request workflow `app/graph` | `GraphState` channels (checkpointed per thread), `ArtifactStore` (per invocation) | twelve nodes and their conditional edges | every invocation ends; only the validated artifact of the current revision releases rows; budgets are charged |
| Runtime `app/runtime.py` | graph, index, services | `build`, `ask`, `resume`, `pending_clarification` | the scope is fresh on each entry; a suspended thread resumes where it was |
| Clarification `app/planning/clarify.py`, `contracts/clarification.py` | none | `detect`, `validate_answer`, `apply_answer` | a slot is asked about once; the answer is what is measured |
| Repair `app/planning/repair.py` | none | `propose_repair` | presentation only, never meaning |
| Binder `app/planning/binder.py` | none | `bind` | mandatory rules and edges are in the plan; every column is authorized |
| Semantic rules `app/semantics/rules.py` | none between calls | `close` | a fixed point, and the least one |
| Join planner `app/relationships/planner.py` | none between calls | `plan` | an approved tree that multiplies nothing; the shortest |
| Metrics `app/semantics/metrics.py` | cache by principal, epoch, reference | `resolve` | a cached closure is never used under another policy |
| Authorization `app/authorization` | policy file, epoch | `check`, `establish_scope`, `reauthorize` | denies win and cascade; a changed epoch is noticed |
| Catalog `app/catalog/service.py` | pinned snapshot | authorized lookups | immutable while pinned |
| Retrieval `app/retrieval` | index per snapshot | `search`, `publish`, `retire`, `is_ready` | candidates are authorized whatever the provider; faults are reported |
| Language model `app/llm` | none | `understand`, `propose`, `structured` | it chooses among what it is offered, and that was open |
| Lowering, compiler `app/planning/lowering.py`, `app/sql/compiler.py` | none | `lower`, `compile` | values meet their placeholders; what runs answers what was bound |
| Validators `app/sql/validators/suite.py` | none | `validate` | sound queries pass; a defective one stays within tenant and rules |
| Attestation `app/sql/attestation.py` | none | `build_attestations`, `check_result` | exactly one history row per fact, at every boundary |
| Gateway `app/sql/gateway.py` | `ExecutionLedger` | `issue_ticket`, `preflight`, `run_attestation`, `execute` | what runs was admitted, once, and is complete |
| Pipeline `app/pipeline.py` | none | `run` | policy rechecked before admission and before disclosure |
| Chainlit UI `app/chainlit_ui.py` | one runtime per process, one lock per session | `on_chat_start`, `on_message` | one question at a time per session; one runtime; a reply to each |
| CLI `app/cli.py` | none | `ask` | as the UI, for one user |
| Publication `ingestion` | snapshot directories | `publish`, `export_cards` | complete and immutable, or absent |
| Search index (OpenSearch, external) | one index per snapshot, shared by all runtimes | `retire`, `publish`, `is_ready`, `search` | what is served is what was projected; faults are reported |

**Interactions.** The front ends call `AppRuntime.ask` and `resume`. The graph
calls the components in its nodes and keeps what they return in `GraphState`;
`interrupt` suspends a thread until `resume` brings the answer, and the nodes
from `admit` on run again. `bind_compile` calls the binder, which calls the
metric service, the rule engine and the join planner; `execute` calls the
gateway. Building a runtime loads the published snapshot and projects it into
the search index, which every other runtime of that snapshot uses and rebuilds
as well. `Pipeline.run` drives the same binder and gateway without the graph. A
bound plan is lowered, compiled, validated, attested and executed by the same
functions on both ways.

**What is hard.** Not threads: a node and everything it calls is synchronous
Python on one event loop. What moves is the rest: the policy and the clock
between any two nodes, the warehouse between any two calls, the user between
`interrupt` and `resume`, chats and messages at every `await`, the runtime
built in worker threads, and other processes, which publish into the same
directory and rebuild the same index with nothing between them. Beyond
concurrency, the loops of the workflow share budgets, rules activate each other
in any order, plans are cut off at limits, values meet their placeholders by
position, and history intervals meet facts at their boundaries. `PROJECT.json`
lists each hazard at its line, with the property that would catch it.

## 2. Modules, and how they correspond to the code

```
RequestLifecycle          what the workflow promises the person who asks
   ^ implemented by
QueryGraph                app/graph, runtime.ask/resume, clarify, repair
   + QueryGraphProofs
Execution                 app/sql/gateway.py, driven as pipeline.py and execute() do
   + ExecutionProofs
ChainlitSession           app/chainlit_ui.py
   + ChainlitSessionProofs
CatalogGraph              what rules and joins read of the catalog and the policy
   RuleClosure            app/semantics/rules.py
   JoinPlanner            app/relationships/planner.py
      Binding             app/planning/binder.py, composing the two
         + BindingProofs  of JoinPlanner and Binding
Lowering                  app/planning/lowering.py
   SqlCompiler            app/sql/compiler.py
      Validation          app/sql/validators/suite.py
      Warehouse           what a text means to the engine (external)
         Attestation      app/sql/attestation.py
            Compilation   lower, compile, validate, attest, execute
               + CompilationProofs, AnswerProofs
Policy                    app/authorization/policy.py, one document
   Authorization          scope, metrics.resolve and its cache, admission, disclosure
      Discovery           what is searched, offered and proposed before binding
         + AuthorizationProofs
SnapshotStore             what publication promises the processes that load
   ^ implemented by
Publication               ingestion/publish.py, CatalogSnapshot
SearchIndex               providers/opensearch.py, AppRuntime.build, RetrievalService
   Startup                from a published snapshot to a runtime that searches
      + StartupProofs     of Publication, SearchIndex and Startup
MCQueryGraph, MCChainlitSession, MCBinding, MCAuthorization, MCStartup,
MCCompilation             small instances
```

**QueryGraph.** One action per node of `core.py`; `Edges` is the table of
`build.py`. `st` is `GraphState`, `ctx` the `RequestContext` (scope epoch and
artifacts, lost when an invocation ends or suspends), `pc` the next node.
`Ask`, `Resume` and `Raise` are the caller's side: `Raise` is an exception no
node catches. What a model, the index, the catalog or the warehouse answers is
a nondeterministic choice; what a node does with it is not. `PolicyChange`
happens between any two nodes: the graph re-enters `admit` on resume for that
reason (`build.py:67-68`). `history` observes what the user chose and meant and
is read by properties only. `steps` counts the nodes of an invocation, as
LangGraph does. It saturates one above the largest number that `StepsWithinBudget`
allows (`Counted`), so that nodes which ran for ever would close a cycle of states
instead of unfolding one: `InvocationEnds` could see it. A request is reduced to what clarification and
repair tell apart: metric, further metrics, period, grain and sort keys.

**RequestLifecycle.** Six actions: ask, pose a question, reply, compute,
conclude, fail. `QueryGraph!Lifecycle` maps the workflow to it: a thread is
waiting from the interrupt until `clarify` has consumed the answer.

**Execution.** One action per call of the gateway: `Bind`, `Admit`, `Preflight`,
`BuildAttestations`, `Attest`, `Submit`, `Query`, `Release`. `front` says who calls: `Pipeline.run`
compares epochs and rechecks disclosure, the `execute` node does neither.
`active` is the run the interpreter is inside, as the calls are synchronous;
between `bind_compile` and `execute` the event loop may run others. The
environment ticks the clock, changes the policy and takes the warehouse away.
`BuildAttestations` makes all queries before the first is run, and raises on a
join without a column to probe. `Compilation` has the two as one action, since only
one request runs there.

**ChainlitSession.** The steps of a coroutine between two awaits are one action.
A lock object is named after the coroutine that made it, so replacing the lock
of a session is visible. `EnterRuntime` and `FinishBuild` are `get_runtime` in a
worker thread. `seen` observes builds and arrival order for the properties.

**RuleClosure, JoinPlanner, Binding.** `RuleClosure` applies one rule per
action, in rounds whose candidates are listed at the start; `JoinPlanner` does
one iteration of the breadth-first enumeration per action. `Binding` runs them
in the binder's order: resolve and authorize, close, check requirements, join,
authorize everything once more. Rules are numbered by precedence, tables and
relationships in their sorted order. The properties do not repeat the
algorithms: the closure is compared with the least set of rules that is closed,
and the join plan with all sets of relationships that would be an answer.

**Lowering, SqlCompiler, Validation, Warehouse, Attestation, Compilation.** Pure
functions, so they are operators; `Compilation` has one action per call, with
the warehouse's content chosen when it is first asked. A column is a pair of
table and name. A text is kept as what parsing it yields: relations with their
ON conjuncts, items, WHERE and HAVING; values are bound by position, in the
order in which `_Ctx.operand` meets them (`in` binds the members of its list
before what is looked up). Each gate of `suite.py` that can block is an operator
of `Validation`. `EditText` damages the text of a query in one place, as the
tamper tests do: it exchanges or drops conjuncts, replaces a column, a table, an
operator or a function, inlines a value, adds a star or a statement. A plan may leave the compiler by an
error it declares (`Compiles`) or by an `IndexError` on a join without predicates
(`Conditioned`), which no caller catches. `TenantKeys` are the columns with the flag
that the gates for isolation read; lowering reads the key of the table, and
`TenantKeysAssumption` has the two agree. `Expected`,
the answer a plan asks for, is told from the plan and the rows alone and knows
nothing of lowering.

**Policy, Authorization.** `Policy` is `PolicyEngine.check` on one principal's
document. A pattern is the ID of a resource or a prefix; `Below` says what a
prefix covers, the only thing IDs are parsed for. `EditHolds` compares the
document before and after an edit. `Authorization` follows a request through the
calls that ask the policy: `EstablishScope`, `Bind` (metric resolution with its
cache, dimensions, the last sweep), `Admit`, `Release`. `policies` lists the
policies of a run by epoch and never changes; `PolicyChange` puts the next one
in force. `front` tells the pipeline, which compares epochs and rechecks
disclosure, from the graph. User filters, rules and joins, whose columns the
sweep treats like those of dimensions, are left to `Binding`.

**Discovery.** Puts before `Bind` what the workflow does first: `Understand`
keeps the names a question spells out, `Search` is one provider's filter by the
denies of the scope followed by the recheck of `RetrievalService.search` against
the policy in force, `Propose` intersects the model's reply with what it was
offered. The model's replies, and what ranking leaves of what was found, are
chosen. The pipeline names its metric itself and skips all this.

**SnapshotStore, Publication.** One directory, any number of processes that
publish into it and load it. `publish` is a step for each thing another process
could notice: validate, test for the directory, make it, and for each file
truncate and fill, the manifest last. `Abandon` is a killed process or a failed
write. The loader reads the manifest and then file after file, and raises on a
file that is missing or torn. A bundle is the set of refs it defines, those it
cites and those it supersedes: `_validate` asks nothing else of it, and a torn
JSON file never parses. `Published` is what a reader of the directory can make
of it, and the mapping to `SnapshotStore`.

**SearchIndex, Startup.** Each client call of `retire`, `publish` and `is_ready`
is a step, tests apart from what they guard, and a bulk request takes effect
item by item, as another process may delete the index in between. `rt` holds
the local variables of `build` and of a search. `SearchBegins`, `Search` (once
for each query) and `Answer` are `OpenSearchProvider.search` with the recheck of
`RetrievalService.search`. OpenSearch itself is external: it may refuse an item,
time out, lose shards or be unreachable, and creates a missing index with a
guessed mapping when documents arrive. `disturbed` observes which runtimes have
had their index changed by another. `Startup` composes both: a runtime builds
from a snapshot it has loaded.

## 3. Runs

Every property of a passing run has a mutant: a plausible bug in a mapped definition (operators
commented "Variant") that TLC finds to violate it.

| Run | Question | Bounds |
|---|---|---|
| `graph` | do the safety properties of the workflow hold, does it implement `RequestLifecycle`, and does each invocation end? | 2 metrics, 2 periods, 3 grains, 5 proposals that lack a period, a supported grain, a single metric or valid sort keys, in combination; 1 extension of the retrieval, 2 repairs, 1 policy change |
| `graph_epoch` | is a changed epoch noticed before release? (no) | as `graph` |
| `execution` | duplicates, cap, ticket, rechecks | 2 runs, 2 queries, 1 attestation, cap 1, a ticket lifetime of 0 with 1 tick of the clock, 1 policy change |
| `ledger` | is a job open only while its query runs? (no) | as `execution` |
| `session` | order, single build, fitting runtime, a reply to each | 1 chat, 3 messages, 2 configurations, 1 clarification each, 1 change |
| `session_lock` | are the requests of a session serialised? (no) | as `session` |
| `binding` | closure and joins against their definitions | 4 tables, 5 relationships in 3 graphs, all 729 catalogs of 3 rules from a menu of 9, 3 requests, 4 permissions; 3 rounds, 2 hops |
| `binding_scan` | do the rules of every scanned table bind the plan? (no) | as `binding` |
| `compilation` | is an executed query the one that was asked, do sound plans pass, what can a damaged text do? | 57 plans over 4 tables and 6 relationships, 9 permissions; every history of at most 2 of 12 versions under 6 facts; single edits of 4 plans |
| `authorization` | is only offered what was open, and does the cache or an edit of the policy let anything in? | 2 requests, at most 1 of them through the workflow, 2 principals, 2 epochs; 13 documents for one principal, in all pairs, and 1 for the other; 2 providers, 2 questions |
| `providers` | do both providers find the same? (no) | as `authorization` |
| `startup` | is a snapshot absent or one whole valid bundle, is nothing else loaded, does a runtime serve what it projected, does each build end, does a search report its faults? | 2 publishers, 2 runtimes that load and build, 2 record files, 4 bundles, 2 of them invalid; 2 cards, one of them not discoverable, 3 builds altogether |

**Why the bounds are enough to be interesting.** All three slots can be settled
in one dialogue, with a further ambiguity left after each; the retrieval and
repair budgets are run out and one more is tried (`MAX_RETRIEVAL_ROUNDS` is 2 in the
code and 1 here, as the rounds differ in nothing but their count, and the budget of
steps is proved for any number); a policy change reaches every
position between two nodes, and one change separates binding from release. Two
runs are what duplicate submissions take; a cap of one separates results of
exactly the cap, one more and two more; a lifetime of zero ticks makes a ticket
expire between any two calls. Three messages are an owner of the lock and two
waiters. Three rules with three rounds contain chains in both orders, the
longest of which meets the limit; the graphs have parallel roles, a detour and a
direct edge, edges recorded from the other side, edges that multiply or are
prohibited, and a chain longer than the hops. The cap of 32 candidate plans is
kept and is not met at this size. The documents pair an exact grant, a wildcard,
a deny of the action and a deny of a broader one in all combinations, and two
requests let one fill the cache for the other; the wildcard denies of discovery
and of reading are those by which the providers differ. The plans have every
clause that binds values, alone and together, an as-of join, one behind it with
and without a contract, and every kind of measure; the versions of a history
touch, overlap, leave gaps, start and end on a fact, stay open and belong to
another tenant; the facts lie on and beyond the ends of the period, and include
one of another tenant and one outside the population. Three plans have what the
binder lets pass and the compiler or a gate does not. Two publishers race for
`mkdir`, and two record files and the manifest leave a torn directory in every
stage. Three builds let one runtime serve, or search, while the other rebuilds
the index and a third build undoes that again; two cards make a bulk request
half done. The index does not depend on which bundle was published, so builds begin
after one publication only (`Projected` in `MCStartup`); the races before it are all
explored.

**Bounds of the models.** `MaxEpoch`, `MaxClock`, `MaxChanges` and `MaxBuilds` bound the
environment and appear in its guards only. `MaxRetrievalRounds`,
`MaxRepairAttempts`, `MaxClosureRounds`, `MaxHops`, `MaxCandidates`, `TTL` and
`MaxRows` are limits of the code, made constants. `Tampered` names the queries of
`Compilation` whose text may be damaged, `OneDiscoveryInit` allows one request
through the workflow. `MaxClarifications` stands
for the slots one request can be asked about, which `NoSlotAskedTwice` bounds.

**Deadlock** is checked in `execution`, where the warehouse always may come and go. It
is not checked elsewhere: a thread that has ended, a chat with nothing more to send, a finished binding, a request that was released,
refused or answered, a snapshot that is published or abandoned, and a runtime that
may not be built again may all stop.

**Fairness.** The event loop runs what is ready: weak fairness of the pending
node (or of its exception) in `QueryGraph`, of each coroutine in `ChainlitSession`, of each build that has begun
in `Startup`, whose calls all return or raise. A clarification that nobody
answers times out after 180 seconds in the UI, so it counts as ready; in
`QueryGraph` nothing makes a user answer. No fairness is assumed of users, of
the clock, the policy or the warehouse. That a query returns, that a node
returns and that building the runtime ends is assumed with the fairness: the
code has no timeout for them.

## 4. Proofs

Eight modules hold proofs; each extends the module it is about (`AnswerProofs`
does so through `CompilationProofs`). The theorems
speak of that module's own specification, for every value of its constants that
meets the assumptions named there.

**Workflow**, for every choice of catalog, proposals, budgets and bound on
policy changes (`BudgetAssumption`, `CatalogAssumption`, `RequestAssumption`):

| Theorem | Module | States |
|---|---|---|
| `TypeCorrect` | `QueryGraphProofs` | `Spec => []TypeOK` |
| `AskedTwiceNever` | `QueryGraphProofs` | `Spec => []NoSlotAskedTwice` |
| `ChoicesHonoured` | `QueryGraphProofs` | `Spec => []SettledSlotsHonoured` |
| `MeaningKept` | `QueryGraphProofs` | `Spec => []MeaningPreserved` |
| `OnlyValidatedReleased` | `QueryGraphProofs` | `Spec => []ReleasedWasValidated` |
| `RefusalsEmpty` | `QueryGraphProofs` | `Spec => []RefusalReleasesNothing` |
| `InvocationsAreShort` | `QueryGraphProofs` | `Spec => []StepsWithinBudget` |
| `LifecycleImplemented` | `QueryGraphProofs` | `Spec => RefinesLifecycle` |

`TypeOK` is not inductive: `clarify` reads the pending question and `repair` the
proposal, which must be there when those nodes run. `TypeInv` adds what each
node may rely on. The safety properties speak of the released result alone, and
hold because of what was true long before it; `Inv` therefore adds to `TypeInv`
four conjuncts that follow a request through the graph. `AskedOnce`: a pending
question is about a slot never settled. `ProposalFaithful`: the proposal differs
from what was meant by dropped sort keys at most, and honours what was chosen.
`ReadyToRun`: an artifact of the current revision holds the current proposal,
validated. `ResultFaithful`: so does a result. Each node is a lemma. For the
budget, a rank function `StepsLeft` bounds the nodes that can still run from
each node and falls with each of them, so that `steps + StepsLeft` never exceeds
`8 + 3 MaxRetrievalRounds + 2 MaxRepairAttempts`. With the code's budgets that
is well below LangGraph's recursion limit of 40.

The refinement maps each node to a step of `RequestLifecycle` or to a stutter:
the inner nodes stutter, the interrupt is `Pose`, the clarify node with an
answer `Reply`, the execution `Compute` or `Conclude`, an exception `Fail`. Two
facts carry it. `SettledCounted` says that a slot whose count is zero is
unsettled, so with `AskedOnce` the slot asked about is one `Pose` may ask; and
`ReadyToRun` with `ProposalFaithful` gives the outcome that `Compute` allows.
`RequestLifecycle` states no fairness, so its specification is implemented in
full.

**Gateway**, for any number of runs, queries and attestations, any row cap and
ticket lifetime (`LimitAssumption`), in `ExecutionProofs`:

| Theorem | States |
|---|---|
| `ExecutionTypes` | `Spec => []TypeOK` |
| `OpenJobsDiffer` | `Spec => []NoDuplicateOpen` |
| `AnswersComplete` | `Spec => []CompleteAnswersOnly` |
| `TicketsAdmit` | `Spec => []SubmittedWhileAdmitted` |
| `PipelineHolds` | `Spec => []PipelineRechecks` |

`Sound` ties each run to its job: the job says where the run is (`Ledgered`), a
run past admission holds the ticket of its own query, issued before now
(`Ticketed`) and submitted within its lifetime, and what looks complete is
complete (`Whole`). A lemma per action changes one run and one job; the others
are untouched by the shape of the step.

**Chat sessions**, for any number of chats and messages and any assignment of
messages to chats (`SessionAssumption`), in `ChainlitSessionProofs`:

| Theorem | States |
|---|---|
| `SessionTypes` | `Spec => []TypeOK` |
| `InTurn` | `Spec => []FirstComeFirstServed` |
| `BuiltOnceOnly` | `Spec => []BuiltOnce` |
| `RuntimeAlwaysFits` | `Spec => []RuntimeFits` |

Two independent halves. `RuntimeInv`: whoever builds is the builder, and only
while there is no runtime; whoever has one has that of its configuration.
`QueueInv`: a message has one place in one queue and owns a lock while it runs;
a message of a started chat waits for the lock the chat has for good
(`LateWait`); and of two such messages the earlier one has its reply or is
further ahead (`InOrder`).

**Rule closure, joins and binding**, for any finite catalog, number and order of
rules, request, permission and limits (`RuleAssumption`, `PlannerAssumption`,
`BindingAssumption` and `CatalogGraph`'s assumption), in `BindingProofs`:

| Theorem | States |
|---|---|
| `BindingTypes` | `Spec => []TypeOK` |
| `ClosureTypes` | `Spec => []ClosureTypeOK` |
| `FixedPoint` | `Spec => []EveryActiveRuleApplied` |
| `LeastFixedPoint` | `Spec => []NoRuleUncalledFor` |
| `LongChainsOnly` | `Spec => []GivesUpOnLongChainsOnly` |
| `PlansAreConnections` | `Spec => []PlanConnects` |
| `PlansAreShortest` | `Spec => [](LedToTables => PlanIsShortest)` |
| `PathsAreFound` | `Spec => [](LedToTables /\ Uncut => RefusedWithoutPathOnly)` |
| `NeverAmbiguous` | `AMBIGUOUS_PATH` is never raised |
| `PlansMeetRules` | `Spec => []BoundPlanMeetsRules` |

The closure. `Listed` says that the rest of a round and what is collected cover
all that the round's first state activates: a round that changes nothing has
therefore applied everything. `Least` says that every self-contained set of
rules holds what is collected, and a state of its own that activates at least as
much; it is kept because the effects of a rule of the set are part of that
state. `Counted` bounds the rounds by the rules applied so far: a round that
changes the state applies some rule for the first time, because one that was
applied before has nothing left to do (`Spent`).

The planner. `Enumerated` says that whatever is enumerated is a tree
(`Tree`: as many relationships as joins and one table more, permitted, reached
from the base), that the queue is ordered by length and spans two lengths at
most, and that nothing found is longer than what waits. `NoneMissed` says that of
every answer of the catalog a part is in the queue or was found, which the
expansion of a tree keeps as long as the answer has an edge that enters a new
table. That it has one, and that a tree inside an answer which already covers
the tables asked for is no longer than the answer, is a counting argument
(`OneForEach`: what connects a set of tables has a relationship for each table
away from the base), by a least counterexample in place of an induction.
`NoTie`: equal rank means equal references, so the branch that reports an
ambiguous path is dead.

Two hypotheses are real. `LedToTables`: the relationships a dimension goes
through may be entered at tables the question uses. Without it a plan that
reaches all tables stops short of a mandated edge and none is found; with the
request `Request({20}, {3}, {})` over `Roles`, TLC refutes
`RefusedWithoutPathOnly` for that reason. `Uncut`: the candidates did not run
into `MaxCandidates` while an edge is mandated, for the edge is looked for among
the candidates that were kept.

`Added` and `Called` carry the obligations of the closure into the call of the
planner, and `PlannerInv` carries them into the plan.

**Search index**, for any number of cards, runtimes and builds
(`CardAssumption`, `ProcessAssumption`, those of `Publication`), in
`StartupProofs`:

| Theorem | States |
|---|---|
| `IndexTypes` | `Spec => []IndexTypeOK` |
| `FaultsAlwaysReported` | `Spec => []FaultsReported` |
| `CompleteMeansAll` | `Spec => []CompleteListsAll` |
| `ProjectionServed` | `Spec => []ServesItsProjection` |

`Faithful` holds of a search by itself: its status knows of every fault.
`Whole` relates a runtime to the index and holds only until another one has
touched that: what has been sent is in the index, what was ready is full. A
step of one runtime either leaves the index alone or disturbs the others, so
each step needs `Whole` for its own runtime only.

**Authorization and discovery**, for any documents, principals, requests,
catalogs, providers, replies and number of policies (`AuthorizationAssumption`,
`BelowAssumption`, `DiscoveryAssumption`), in `AuthorizationProofs`:

| Theorem | States |
|---|---|
| `AuthorizationTypes` | `Spec => []TypeOK` |
| `AdmissionChecked` | `Spec => AdmittedUnderPolicyInForce` |
| `DeniesAlwaysPrevail` | `Spec => DeniesPrevail` |
| `DiscoveryIsPartOfIt` | `DiscoverySpec => Spec` |
| `OffersAlwaysWereOpen` | `DiscoverySpec => []OffersWereOpen` |
| `ProvidersDifferAtReadRoots` | `DiscoverySpec => []AgreeButForReadRoots` |

Edits: denies only grow, so what is allowed after the edit was not denied before
it, and a wildcard is not an exact grant; monotonicity of `Matches` does the
rest. Admission: `CacheHonest` says that an entry was checked under the policy
of its epoch or a later one, `BoundHonest` that a plan bound in the current
epoch is allowed by the current policy. The first gives the second at `Bind`,
where the interval of epochs has shrunk to one; `PolicyChange` makes the second
vacuous, and the comparison in `Admit` is what makes it apply. Discovery only
gives up or leaves `Authorization` alone, so its specification implies the other
one and inherits the first three theorems. An offer is open at the moment of the
search, which lies between the scope and now, and that interval only grows.
The providers do not agree (`ProvidersAgree` fails in its run);
`ProvidersDifferAtReadRoots` says exactly where, for all policies. It rests on the
policy still being that of the scope: the in-memory filter hides more than the query
only where a wildcard denies its own root, and what a wildcard denies to `discover`
the recheck takes back.

**Publication**, for any sets of processes and bundles and any number of files
(`FileAssumption`, `BundleAssumption`), in `StartupProofs`:

| Theorem | States |
|---|---|
| `PublicationTypes` | `PubSpec => []PubTypeOK` |
| `WholeSnapshotsOnly` | `PubSpec => []LoadedWhole` |
| `StoreImplemented` | `PubSpec => ImplementsStore` |

A reader sees files, and no file says who wrote it. `PubInv` says it for them.
`PublishersSound`: at most one process has made the directory, it did so with a
valid bundle, and the others wrote nothing. `WrittenInOrder`: the files before
the one it is at hold its bundle, those after are absent; so a manifest that
parses means that every file is written and nobody writes any more
(`ManifestLast`). `LoadersSound`: a loader that got past the manifest read it
from the directory as it is for ever after. The refinement follows: the one step
that fills the manifest is `Publish`, and no step changes a directory that has a
manifest.

**Compilation**, for any catalog, published metrics, permissions, warehouses and
plans as the binder makes them (`CatalogAssumption`, `PublishedAssumption`,
`PlanAssumption`, `WarehouseAssumption`):

| Theorem | Module | States |
|---|---|---|
| `SoundAlwaysAccepted` | `CompilationProofs` | `Spec => []SoundPlansAccepted` |
| `AttestedAlwaysExactly` | `AnswerProofs` | `Spec => [](Resolves(plan) /\ GrainIsKey(plan, data) => AttestedExactly)` |
| `AnswersAlwaysExact` | `AnswerProofs` | `Spec => [](Resolves(plan) /\ GrainIsKey(plan, data) /\ JoinsPreserve(plan, data) => AnswersAreExact)` |
| `DefectsAlwaysGoverned` | `AnswerProofs` | `Spec => [](Resolves(plan) /\ TellsApart(plan) => DefectsStayGoverned)` |

A text that nobody damaged passes the gates if and only if its plan is
`Acceptable`, which says no more than what the policy lets be used and what the
binder does not look at: certified tables, the role of a
time, and the one measure whose `NULLIF` the allow-list misses. The gates know
the text alone, its aliases and its conjuncts, so the proof reads it back.
`ReferencedTouched` finds in it the columns that the plan touches and no other:
every conjunct comes from the population, a filter, a rule, a join or a tenant
key, and every alias leads back to its table. `GatesAgree` then goes through the
gates: each agrees with one conjunct of `Acceptable` or has nothing to report. In
particular what the compiler adds by itself, the tenant keys and the interval of
the time, is what the gates for obligations and placeholders look for. `Inv` says
that the text is `Compile(Lower(plan))` until a defect changes it.

Attestation and answer compare two meanings: that of a text, which knows aliases
and positions, and that of a plan, which knows tables and rows. Three facts carry
the comparison. *Values meet their placeholders* (`ValuesMeet`, `TextFilled`):
the n-th placeholder of the text stands where the n-th value of `Bound` was
emitted, clause by clause, although a list emits its members before the column
it is looked up in. *Environments are readings* (`FromReadings`,
`ReadingsMean`): the environments that FROM and WHERE leave are, table by alias,
the readings of the plan, by going through the joins in their order; a left join
makes do with the row of NULLs exactly when `Fits` says so. *The attestation
counts what it should* (`PairsCounted`, `ProvedExactly`): its two counts are equal,
and equal to the number of facts in question, if and only if each of these meets
one row. `Upheld` keeps from the attestation to the execution what it
established about the warehouse.

An answer is then exact because each fact is counted once (`OneReading`). Two
readings of a fact agree at the base; going through the joins, they agree at the
next table, either because the join was attested (`AttestedOnce`: a fact of a
reading is in question) or because it preserves the grain by itself
(`PreservedOnce`). With one environment for each fact the groups of both sides
collect the same values (`GroupsCollected`) and the same groups survive HAVING
(`GroupsKept`).

A defective text is followed edit by edit. `Defective` says that a text differs
from `Text(logical)` by one edit at most and that only what the gates let pass is
attested and executed. `DefectsPassed` goes through the edits. Most fail at a gate
of their own (`ItemsBlocked`, `JoinsBlocked`, `InlineBlocked`); a text that lacks a
rule in HAVING no longer names the columns of that rule (`HavingBlocked`), and one
that scans another table names a column that was never compiled (`TableBlocked`).
What passes has lost a conjunct of WHERE, or looks at another column in one. The
gate on obligations then shows that no conjunct was hit that a rule or a tenant
table requires, for it finds their columns in WHERE and they stand nowhere else
(`RequiredStay`). A lost conjunct had no placeholder, because placeholders still
count up to the values, and another column takes none away; so every value still
meets its placeholder (`BoundWithout`, `BoundAlike`), and what WHERE says of a
reading includes all that is required (`LackingGoverned`, `MovedGoverned`).

The hypotheses are what exactness rests on and no step of a request verifies.
`Resolves`: an ON clause mentions the joined table and those before it, and a
list looks up a column; the engine refuses a text without the first, and the
binder makes lists no other way (`binder.py:372-377`). `GrainIsKey`: the declared
grain of the base is a key of its contents; the attestation groups the facts by it
(`attestation.py:115`), so two facts of one grain would pass for a fact that
matches two rows. `JoinsPreserve`: a join without a uniqueness contract, which no
attestation covers, matches one row at most; the planner takes the catalog's word
for it. Every plan of the instance that can be answered meets them in every
warehouse: `ExactnessAssumption` in `MCCompilation` has TLC check that, so the
theorems say something of each of its answers.

`TellsApart` is what the gates rest on, which see the columns of a clause and not
its conjuncts. A column of a mandatory rule, and the tenant key of a table, stand in
one operand of their clause only; a rule looks at columns, and the tenant scope has
no predicates of its own; of two scanned tables each has a column in use by a name
that is not in use of the other. Without it the property is false: in a plan with a
user filter on the column that a mandatory rule reads, TLC finds the edit that turns
the rule to another column while the filter keeps the gate on obligations content.
All plans whose text is edited in the run tell apart (`DefectsAssumption` in
`MCCompilation`); a catalog with two tables that use the same column names, or a
question that filters by the column of a rule, is outside the theorem.

**What the assumptions leave out.** `BindingAssumption` has no relationship join
a table to itself. Nothing in ingestion rejects such a record, and the planner
would skip one that a rule requires when there is nothing else to join
(`planner.py`, the early return without terminals); no bundle has one. A catalog
has finitely many relationships, and the limit on candidates is positive (it is
`MAX_CANDIDATES = 32`). `ProcessAssumption` only says that the runtimes are the
loaders of the snapshot. `CatalogAssumption` of `Lowering` takes the tenant key of
a table from that table, and `TenantKeysAssumption` of `Validation` has a column
flagged if and only if it is that key: the shipped bundle does so
(`ingestion/source_bundle.py`), and nothing compares the two declarations. A key
without the flag would have the gates block every query of its table; a flag without
a key would let a text through that isolates by another column. `AsBound` gives a plan the measure and population of
its published metric, joins that keep the grain, and the grain of what it groups
by, as the binder does; the rest of a plan is free. It also has the joins enter a new
table each, which `PlanConnects` proves of the planner. A measure is over columns
(`PublishedAssumption`), the grain of a table names columns of that table
(`CatalogAssumption`), and a warehouse holds finite tables of rows that have the
catalog's columns and no NULL where the catalog excludes it for a column of the
grain (`WarehouseAssumption`).

**Only model-checked.** Liveness, which rests on fairness: `InvocationEnds`,
`EveryMessageReplied` and `BuildsEnd`. Every invariant that a passing run checks is stated by a
theorem, those of `Compilation` under the hypotheses above.

## 5. Where documentation and code disagree

Each has a run that exhibits it.

- **Epoch at release** (`graph_epoch`). `scope.py:44-45` wants inherited bindings
  rechecked when the epoch has changed. `execute` (`core.py:355`) takes the new
  scope and goes on with the old artifact. `pipeline.py:93-108` compares.
- **Session lock** (`session_lock`). `README.md:37-39` has a lock serialise each
  session. `on_chat_start` replaces it after an await (`chainlit_ui.py:138`).
- **Rules of joined tables** (`binding_scan`). The architecture document, line
  320, wants binding repeated when the joins bring in dependencies. The binder
  closes over the rules once, before the joins.
- **Open jobs** (`ledger`). `gateway.py:92-93` records submissions so that an
  uncertain outcome can be reconciled. A connection that fails at line 222, after the
  job was opened and outside the `try`, leaves it submitted for ever: nothing
  reconciles it, and the same query is refused as a duplicate from then on
  (`gateway.py:213-219`).
- **Providers** (`providers`). `inmemory.py:3-5` has both providers restrict a search
  in exactly the same way. A wildcard deny `x.*` covers `x` itself in memory
  (`inmemory.py:124-129`) and not in OpenSearch (`opensearch.py:98-101`). The recheck
  asks for `discover` alone, so a deny of `read` leaves the difference standing.

Met on the way, without a run.

*Workflow and planning.* `planner.py:147-159` refuses plans of equal rank, but
the rank ends with the relationship references (line 209), so of two
role-playing edges the one with the smaller reference is taken, and
`NeverAmbiguous` proves the refusal dead code; `core.py:150`
says retrieval expands once, and the condition lets it expand twice; the
`BUDGET_EXHAUSTED` branch of `expand_retrieval` is unreachable;
`_detect_conflicts` compares only rules that were applied, and at most one rule
per slot is; `pipeline.py:5-6` says the graph's nodes delegate to the pipeline,
and they do not. A second `ask` on a thread that was used before keeps the
channels of the earlier question (`runtime.py:129`); no caller does that, each
makes a new thread, and the model follows the callers.

*Compilation.* The gates see the columns of a text as sets and its conjuncts as
counts, so they accept a text whose conjuncts or operators were exchanged, and
most replacements of one column by another that the query uses as well. Of the
single edits in the run those alone reach the warehouse, and one dropped
conjunct without a placeholder; `DefectsStayGoverned` says what they leave
intact. `NULLIF` is not among the allowed nodes (`suite.py`), so every ratio
with `zero_denominator: null`, which `compiler.py:265-270` writes on purpose, is compiled
and then blocked (`Acceptable` has it as a condition). A join without predicates
leaves the compiler as an `IndexError` (`compiler.py:116`, `278`) before the gate
against Cartesian products could report it; the node and the pipeline catch only
`GovernedError`. The gate that
compares the plan's epoch with the scope's always holds, as the call passes the
same scope. An attestation of a join whose left side is not the base table does
not resolve, and the request fails.

*Discovery.* Metrics and dimensions that a question names exactly are looked up
in the whole catalog (`understand.py:108-119`) and offered without a check of
`discover`, although `propose.py:3` speaks of authorized candidates only; the
binder refuses them. The cap per source is applied
after the provider's budget (`service.py:118`), so capped candidates are not
made up for. `policy.domains or None` makes an empty set of domains no
restriction at all (`scope.py:27`).

*Publication and the index.* `publish.py:3-5` calls publication atomic, with
cycle checks. A process that dies leaves a directory that cannot be loaded and,
as it exists, cannot be published into again; `_validate` looks for no cycles;
and the loader verifies none of the hashes the manifest records. The order of
writes is what keeps `LoadedWhole` true. `base.py:7-8` and `service.py:93-94`
have incompleteness never presented as a complete list. A search during another
runtime's rebuild finds an index that is there and still filling, and reports
`COMPLETE`; `CompleteListsAll` is stated for undisturbed runtimes for that
reason.

## 6. What is not modelled

Text as text: prompts, rendering, cards, embeddings and scores are functions
from data to text or numbers; their outcomes are choices in the models. The CLI
is one caller of the graph among those `QueryGraph` allows. Fixtures and the
source bundle are data. Snapshot identity is left out, as one process pins one
snapshot. Chainlit's stop button, which cancels a handler from outside, is not
modelled. Nor is a server restart: the default checkpointer is in memory and the
ledger is too, so nothing survives it. A ticket's timeout is not modelled,
because nothing enforces it.

Abstractions to keep in mind:

- `QueryGraph`: `PLANNING_FAILED`, `UNSAFE_QUERY` and `EXECUTION_FAILED` each
  stand for several codes with the same effect on control.
- `RuleClosure`: an activation by metric or entity is settled by the question
  and counts as "always" or absent, a tag names the tables that carry it, and
  `prefer_relationship` is left out since it is only recorded.
- `Binding`: resolving metrics, dimensions and filters is one step, as nothing
  in it depends on an order.
- `Compilation`: sort keys, the limit, `ScanOp.columns`, lineage, the time zone
  and the spelling of the text are left out. The engine (`Warehouse`) is SQL as
  the compiler relies on it. The warehouse is not loaded anew between an
  attestation and the query it vouches for. The fan-out gate leaves out `count`,
  which matters only for joins that multiply, and the planner allows none.
- `Discovery`: the two attempts of the structured client (`client.py:83-139`),
  which repeats an invalid reply and nothing else, are one outcome; domains and
  access scopes of a principal are one set of cards.
- `Authorization`: each policy that replaces another has a higher epoch. One
  replaced under the same epoch is noticed by no comparison in the code.

## 7. Plan

Done: 1 QueryGraph and 2 RequestLifecycle with their proofs; 3 Execution with its
proofs; 4 ChainlitSession with its proofs; 5 CatalogGraph, RuleClosure,
JoinPlanner, Binding with their proofs; 6 SnapshotStore and
Publication with its proofs; 7 SearchIndex and Startup with their proofs;
8 Policy, Authorization and Discovery with their proofs; 9 Lowering,
SqlCompiler, Validation, Warehouse, Attestation and Compilation with their proofs.

What would come next:

1. Compositions: `Binding` as the implementation of what `QueryGraph`'s
   `bind_compile` chooses from; `ChainlitSession` over `RequestLifecycle`.
2. The in-memory index, ranks and fusion, if their order ever carries meaning.
