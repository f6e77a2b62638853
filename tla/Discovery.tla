------------------------------- MODULE Discovery -------------------------------
(***************************************************************************)
(* How a question comes to the metric it asks for: the names it spells out  *)
(* are resolved exactly, a provider searches the cards within the scope, the*)
(* retrieval service checks what was found against the policy in force, and *)
(* the language model chooses among what it is offered.  The scope is that  *)
(* of the request; the policy may have moved since.  A request through the  *)
(* pipeline names its metric itself and skips all this.                      *)
(***************************************************************************)
EXTENDS Authorization

CONSTANTS
  Providers,   \* "inmemory" and "opensearch"
  InDomain,    \* InDomain[p]: the cards of the domains and access scopes of p
  Spelt        \* the sets of metrics and dimensions that a question may spell out

Offers == Metrics \cup DOMAIN Dimensions

ASSUME DiscoveryAssumption ==
  /\ Providers \subseteq {"inmemory", "opensearch"}
  /\ InDomain \in [Principals -> SUBSET Resources]
  /\ Spelt \subseteq SUBSET Offers

VARIABLE
  found  \* found[r]: the names spelt out, what was found and offered, and the proposal

dvars == <<policies, epoch, cache, req, found>>

NotYet == [pc |-> "none", exact |-> {}, offered |-> {}, proposal |-> {}]

DiscoveryInit == Init /\ found = [r \in Requests |-> NotYet]

\* The document that a scope was established with.
ScopeDoc(r) == policies[req[r].epoch][req[r].principal]

\* PolicyEngine.denied_object_ids, as they stood when the scope was established.
DeniedPatterns(r) == ScopeDoc(r).denies["discover"] \cup ScopeDoc(r).denies["read"]

-----------------------------------------------------------------------------
(* What the providers keep back.                                             *)

\* InMemoryProvider._permitted: a wildcard hides its root and all below.
HiddenInMemory(r, x) ==
  \E p \in DeniedPatterns(r) : x = p.of \/ (p.wild /\ x \in Below[p.of])

\* authorization_filter: the prefix of a wildcard ends in the dot.
HiddenByQuery(r, x) ==
  \E p \in DeniedPatterns(r) : IF p.wild THEN x \in Below[p.of] ELSE x = p.of

Permitted(provider, r) ==
  {x \in InDomain[req[r].principal] :
     IF provider = "inmemory" THEN ~HiddenInMemory(r, x) ELSE ~HiddenByQuery(r, x)}

\* Variant: what the provider lets through is taken for authorized.
FoundUnchecked(provider, r) == Permitted(provider, r)

\* RetrievalService.search checks again, against the policy in force.
Found(provider, r) ==
  {x \in Permitted(provider, r) : Allowed(Doc(req[r].principal), "discover", x)}

-----------------------------------------------------------------------------
\* The model interprets the question; it may be unavailable.  What the question spells
\* out is looked up in the catalog without regard to the principal.
Understand(r) ==
  /\ req[r].front = "graph" /\ req[r].pc = "planning" /\ found[r].pc = "none"
  /\ \/ /\ \E names \in Spelt :
             found' = [found EXCEPT ![r].pc = "understood", ![r].exact = names]
        /\ UNCHANGED vars
     \/ GivesUp(r) /\ UNCHANGED found

\* Ranking, the budget and the cap per source leave any part of what was found, and a
\* failed search leaves nothing.  Only metrics and dimensions are offered.
Search(r) ==
  /\ req[r].pc = "planning" /\ found[r].pc = "understood"
  /\ \E provider \in Providers : \E hits \in SUBSET (Found(provider, r) \cap Offers) :
       found' = [found EXCEPT ![r].pc = "offered", ![r].offered = found[r].exact \cup hits]
  /\ UNCHANGED vars

\* What is kept of a reply: nothing that was not offered.
Kept(reply, offered) == reply \cap offered

\* The ask of a request is what the reply comes down to.
Propose(r) ==
  /\ req[r].pc = "planning" /\ found[r].pc = "offered"
  /\ found[r].offered \cap Metrics # {}
  /\ \E reply \in SUBSET Offers :
       LET kept == Kept(reply, found[r].offered) IN
       /\ kept = {req[r].ask.metric} \cup req[r].ask.dimensions
       /\ found' = [found EXCEPT ![r].pc = "proposed", ![r].proposal = kept]
  /\ UNCHANGED vars

\* Nothing offered, nothing kept of the reply, a time range that cannot be resolved, or
\* no reply that validates: the workflow searches again or gives up.
ProposeNothing(r) ==
  /\ req[r].pc = "planning" /\ found[r].pc = "offered"
  /\ \/ found' = [found EXCEPT ![r].pc = "understood"] /\ UNCHANGED vars
     \/ GivesUp(r) /\ UNCHANGED found

\* The workflow binds what was proposed.
BindProposed(r) ==
  /\ req[r].front = "graph" => found[r].pc = "proposed"
  /\ Bind(r) /\ UNCHANGED found

DiscoveryNext ==
  \/ PolicyChange /\ UNCHANGED found
  \/ \E r \in Requests :
       \/ Understand(r) \/ Search(r) \/ Propose(r) \/ ProposeNothing(r)
       \/ BindProposed(r)
       \/ (EstablishScope(r) \/ Admit(r) \/ Release(r)) /\ UNCHANGED found

DiscoverySpec == DiscoveryInit /\ [][DiscoveryNext]_dvars

-----------------------------------------------------------------------------
(* Properties.                                                               *)

\* Open to the principal at some time since the scope of the request.
EverOpen(r, x) ==
  \E e \in req[r].epoch..epoch : Allowed(policies[e][req[r].principal], "discover", x)

\* What the model is offered, and what is proposed in the end, was spelt out in the
\* question or was open for discovery since the scope was established: the providers
\* know the denies of the scope alone, the policy is asked once, and it may change
\* before, between and after (service.py:103-108, propose.py:3-6).
OffersWereOpen ==
  \A r \in Requests : found[r].pc \in {"offered", "proposed"} =>
    \A x \in (found[r].offered \cup found[r].proposal) \ found[r].exact : EverOpen(r, x)

\* inmemory.py:3-5: the in-memory provider "enforces exactly the same discovery
\* restriction semantics as the OpenSearch adapter".  For a request that is about to
\* search, and while the policy stays, the same cards come through either.
ProvidersAgree ==
  \A r \in Requests : found[r].pc = "understood" /\ req[r].epoch = epoch =>
    Found("inmemory", r) = Found("opensearch", r)
==============================================================================
