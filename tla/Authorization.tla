---------------------------- MODULE Authorization ----------------------------
(***************************************************************************)
(* What the policy lets a request do while the policy moves: the scope it   *)
(* was established with, metric resolution with its cache, the binder's last*)
(* sweep, admission, and disclosure.  Pipeline.run compares epochs before it*)
(* admits a plan and checks disclosure; the workflow's execute node does    *)
(* neither.  Each action is one synchronous call.                           *)
(***************************************************************************)
EXTENDS Policy, Naturals

CONSTANTS
  Principals, Requests,
  Metrics,      \* the published metrics; each is a resource
  Closure,      \* Closure[m]: columns measured, and those of population and time
  Dimensions,   \* Dimensions[d]: the column of dimension d
  Asks,         \* what may be asked: a metric by some dimensions
  MaxEpoch,     \* bound of the model: policies in the course of a run
  Policies      \* the successive policies that are considered

Epochs == 1..MaxEpoch

ASSUME AuthorizationAssumption ==
  /\ MaxEpoch \in Nat \ {0}
  /\ Metrics \subseteq Resources
  /\ Closure \in [Metrics -> [measures : SUBSET Resources, predicates : SUBSET Resources]]
  /\ DOMAIN Dimensions \subseteq Resources
  /\ Dimensions \in [DOMAIN Dimensions -> Resources]
  /\ Asks \subseteq [metric : Metrics, dimensions : SUBSET DOMAIN Dimensions]
  /\ Policies \subseteq [Epochs -> [Principals -> Documents]]

VARIABLES
  policies,  \* policies[e][p]: the document of principal p under epoch e
  epoch,     \* of the policy in force
  cache,     \* the keys of MetricService._cache
  req        \* req[r]: who asks what, through which front, and how far it has come

vars == <<policies, epoch, cache, req>>

Doc(p) == policies[epoch][p]

Init ==
  /\ policies \in Policies
  /\ epoch = 1
  /\ cache = {}
  /\ req \in [Requests -> [principal : Principals, front : {"pipeline", "graph"},
                           ask : Asks, pc : {"asked"}, epoch : {0}]]

\* The reviewed file is replaced by one with a higher epoch.
PolicyChange ==
  /\ epoch < MaxEpoch
  /\ epoch' = epoch + 1
  /\ UNCHANGED <<policies, cache, req>>

Goes(r, pc) == req' = [req EXCEPT ![r].pc = pc]

\* establish_scope stamps the scope with the epoch of the engine.
EstablishScope(r) ==
  /\ req[r].pc = "asked"
  /\ req' = [req EXCEPT ![r].pc = "planning", ![r].epoch = epoch]
  /\ UNCHANGED <<policies, epoch, cache>>

\* The workflow ends before it has anything to bind.
GivesUp(r) ==
  /\ req[r].front = "graph" /\ req[r].pc = "planning"
  /\ Goes(r, "refused")
  /\ UNCHANGED <<policies, epoch, cache>>

-----------------------------------------------------------------------------
(* Binder.bind.                                                              *)

\* CatalogService.get_metric.
Executable(doc, m) == Allowed(doc, "discover", m) /\ Allowed(doc, "execute_metric", m)

\* The columns of a metric: all may be known, those of the population used, and
\* the measure read.
ColumnsOpen(doc, m) ==
  /\ \A c \in Closure[m].measures \cup Closure[m].predicates : Allowed(doc, "discover", c)
  /\ \A c \in Closure[m].predicates : Allowed(doc, "use_in_predicate", c)
  /\ \A c \in Closure[m].measures : Allowed(doc, "read", c)

DimensionOpen(doc, d) ==
  /\ Allowed(doc, "discover", d)
  /\ Allowed(doc, "discover", Dimensions[d]) /\ Allowed(doc, "read", Dimensions[d])

\* The final authorization sweep.
Swept(doc, ask) ==
  LET measures == Closure[ask.metric].measures
      columns == Closure[ask.metric].predicates \cup {Dimensions[d] : d \in ask.dimensions}
  IN /\ \A c \in columns \ measures : Allowed(doc, "use_in_predicate", c)
     /\ \A c \in measures : Allowed(doc, "read", c)

\* Variant: the key without the epoch.
KeyUnversioned(r) == <<req[r].principal, 1, req[r].ask.metric>>

CacheKey(r) == <<req[r].principal, req[r].epoch, req[r].ask.metric>>

\* MetricService.resolve: what is cached for the scope is not checked again.
Resolved(r) ==
  /\ Executable(Doc(req[r].principal), req[r].ask.metric)
  /\ CacheKey(r) \in cache \/ ColumnsOpen(Doc(req[r].principal), req[r].ask.metric)

Bind(r) ==
  LET doc == Doc(req[r].principal) IN
  /\ req[r].pc = "planning"
  /\ cache' = IF Resolved(r) THEN cache \cup {CacheKey(r)} ELSE cache
  /\ Goes(r, IF /\ Resolved(r)
                /\ \A d \in req[r].ask.dimensions : DimensionOpen(doc, d)
                /\ Swept(doc, req[r].ask)
               THEN "bound" ELSE "refused")
  /\ UNCHANGED <<policies, epoch>>

-----------------------------------------------------------------------------
(* Admission and release.                                                    *)

\* The pipeline reauthorizes and compares the epoch with that of the plan.
Admit(r) ==
  /\ req[r].pc = "bound"
  /\ Goes(r, IF req[r].front = "pipeline" /\ epoch # req[r].epoch
               THEN "refused" ELSE "admitted")
  /\ UNCHANGED <<policies, epoch, cache>>

\* What an answer shows: the metric and the columns of its dimensions.
Projected(ask) == {ask.metric} \cup {Dimensions[d] : d \in ask.dimensions}

Release(r) ==
  /\ req[r].pc = "admitted"
  /\ Goes(r, IF /\ req[r].front = "pipeline"
                /\ \E x \in Projected(req[r].ask) :
                     ~Allowed(Doc(req[r].principal), "disclose", x)
               THEN "refused" ELSE "released")
  /\ UNCHANGED <<policies, epoch, cache>>

Next ==
  \/ PolicyChange
  \/ \E r \in Requests :
       EstablishScope(r) \/ GivesUp(r) \/ Bind(r) \/ Admit(r) \/ Release(r)

Spec == Init /\ [][Next]_vars

-----------------------------------------------------------------------------
(* Properties.                                                               *)

\* Scopes and cache entries are of the epochs there have been.
TypeOK ==
  /\ policies \in Policies /\ epoch \in Epochs
  /\ cache \subseteq Principals \X (1..epoch) \X Metrics
  /\ req \in [Requests -> [principal : Principals, front : {"pipeline", "graph"},
                ask : Asks, pc : {"asked", "planning", "bound", "admitted", "released",
                                  "refused"}, epoch : 0..epoch]]

\* All that the plan of a request rests on is open to the principal.
PlanOpen(doc, ask) ==
  /\ Executable(doc, ask.metric) /\ ColumnsOpen(doc, ask.metric)
  /\ \A d \in ask.dimensions : DimensionOpen(doc, d)
  /\ Swept(doc, ask)

\* The pipeline admits a plan only if the policy in force at that moment allows
\* everything binding has to check, although binding ran earlier, some of it for
\* another request, and the cache has checked nothing since.
AdmittedUnderPolicyInForce ==
  [][\A r \in Requests :
       req[r].front = "pipeline" /\ req[r].pc = "bound" /\ req'[r].pc = "admitted" =>
         PlanOpen(Doc(req[r].principal), req[r].ask)]_vars

\* When a policy replaces another, denies prevail: added denies and withdrawn
\* grants allow nothing new, and an added wildcard reopens nothing that was denied
\* (policy.py:103-106).
DeniesPrevail ==
  [][epoch' # epoch =>
       \A p \in Principals : EditHolds(policies[epoch][p], policies'[epoch'][p])]_vars
==============================================================================
