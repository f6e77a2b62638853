------------------------- MODULE AuthorizationProofs -------------------------
(***************************************************************************)
(* Denies prevail in any policy, the metric cache never lets a plan in that *)
(* the policy in force does not allow, and the model is offered only what   *)
(* was open, for any number of requests, principals and policies.           *)
(***************************************************************************)
EXTENDS Discovery, TLAPS

-----------------------------------------------------------------------------
(* Edits of one document.                                                    *)

LEMMA CascadeActions == \A a \in Actions : DenyCascade[a] \subseteq Actions
BY DEF Actions, DenyCascade

LEMMA MatchesMore ==
  ASSUME NEW P, NEW Q, NEW r, P \subseteq Q, Matches(P, r)
  PROVE  Matches(Q, r)
BY DEF Matches, Names

\* What is denied stays denied when denies are added only.
LEMMA DeniedMore ==
  ASSUME NEW old, NEW new, NEW a \in Actions, NEW r, MoreDenied(old, new)
  PROVE  /\ Denied(old, a, r) => Denied(new, a, r)
         /\ DeniedMoreBroadly(old, a, r) => DeniedMoreBroadly(new, a, r)
<1>1. \A b \in Actions : Denied(old, b, r) => Denied(new, b, r)
  BY MatchesMore DEF MoreDenied, Denied
<1>. QED BY <1>1, CascadeActions DEF DeniedMoreBroadly

LEMMA TightenedAllowsLess ==
  ASSUME NEW old, NEW new, NEW a \in Actions, NEW r,
         Tightened(old, new), Allowed(new, a, r)
  PROVE  Allowed(old, a, r)
<1>1. /\ ~Denied(old, a, r)
      /\ DeniedMoreBroadly(old, a, r) => DeniedMoreBroadly(new, a, r)
  BY DeniedMore DEF Tightened, Allowed
<1>2. \A b \in Actions : new.grants[b] \subseteq old.grants[b] BY DEF Tightened
<1>3. Names(new.grants[a], r) => Names(old.grants[a], r) BY <1>2 DEF Names
<1>4. Names(new.grants[a], r) => Granted(old, a, r)
  BY <1>3 DEF Names, Granted, Matches
<1>5. Granted(new, a, r) => Granted(old, a, r)
  <2>1. "read" \in Actions BY DEF Actions
  <2>. QED BY <1>2, <2>1, MatchesMore DEF Granted
<1>. QED BY <1>1, <1>3, <1>4, <1>5 DEF Allowed

LEMMA BroadenedReopensNothing ==
  ASSUME NEW old, NEW new, NEW a \in Actions, NEW r, Broadened(old, new),
         Allowed(new, a, r), ~Allowed(old, a, r)
  PROVE  ~Denied(old, a, r) /\ ~DeniedMoreBroadly(old, a, r)
<1>1. /\ ~Denied(old, a, r)
      /\ DeniedMoreBroadly(old, a, r) => DeniedMoreBroadly(new, a, r)
  BY DeniedMore DEF Broadened, Allowed
<1>2. Names(new.grants[a], r) => Names(old.grants[a], r)
  BY DEF Broadened, Names
<1>. QED BY <1>1, <1>2 DEF Allowed

\* Whatever the documents, an edit of one does what its author must expect.
LEMMA EditsHold ==
  ASSUME NEW old, NEW new
  PROVE  EditHolds(old, new)
BY TightenedAllowsLess, BroadenedReopensNothing DEF EditHolds

\* No policy that replaces another opens what a deny has closed.
THEOREM DeniesAlwaysPrevail == Spec => DeniesPrevail
<1>1. [Next]_vars =>
        [epoch' # epoch =>
           \A p \in Principals : EditHolds(policies[epoch][p], policies'[epoch'][p])]_vars
  BY EditsHold
<1>. QED BY <1>1, PTL DEF Spec, DeniesPrevail

-----------------------------------------------------------------------------
(* The inductive invariant.                                                  *)

\* A request has a scope once it is established.
Scoped == \A r \in Requests : req[r].pc # "asked" => req[r].epoch \in Nat \ {0}

\* An entry was checked under the policy of its scope or a later one.
CacheHonest ==
  \A p \in Principals, e \in Nat, m \in Metrics : <<p, e, m>> \in cache =>
    \E k \in e..epoch : ColumnsOpen(policies[k][p], m)

\* A plan bound under the policy in force is one that policy allows.
BoundHonest ==
  \A r \in Requests : req[r].pc = "bound" /\ req[r].epoch = epoch =>
    PlanOpen(Doc(req[r].principal), req[r].ask)

Inv == TypeOK /\ Scoped /\ CacheHonest /\ BoundHonest

LEMMA Numbers == MaxEpoch \in Nat \ {0} /\ Epochs = 1..MaxEpoch
BY AuthorizationAssumption DEF Epochs

LEMMA InvInit == Init => Inv
<1>. SUFFICES ASSUME Init PROVE Inv OBVIOUS
<1>1. TypeOK BY Numbers DEF Init, TypeOK
<1>2. Scoped BY DEF Init, Scoped
<1>3. CacheHonest BY DEF Init, CacheHonest
<1>4. BoundHonest BY DEF Init, BoundHonest
<1>. QED BY <1>1, <1>2, <1>3, <1>4 DEF Inv

LEMMA PolicyChangeKeeps == ASSUME Inv, PolicyChange PROVE Inv'
<1>. USE Numbers DEF PolicyChange
<1>0. epoch \in Nat /\ epoch' = epoch + 1 /\ \A r \in Requests : req[r].epoch \in 0..epoch
  BY DEF Inv, TypeOK
<1>1. TypeOK' BY <1>0 DEF Inv, TypeOK
<1>2. Scoped' BY DEF Inv, Scoped
<1>3. CacheHonest'
  <2>. SUFFICES ASSUME NEW p \in Principals, NEW e \in Nat, NEW m \in Metrics,
                       <<p, e, m>> \in cache
                PROVE  \E k \in e..epoch' : ColumnsOpen(policies[k][p], m)
    BY DEF CacheHonest, ColumnsOpen
  <2>1. PICK k \in e..epoch : ColumnsOpen(policies[k][p], m) BY DEF Inv, CacheHonest
  <2>. QED BY <1>0, <2>1
<1>4. BoundHonest' BY <1>0 DEF Inv, BoundHonest
<1>. QED BY <1>1, <1>2, <1>3, <1>4 DEF Inv

\* A step of a request that leaves the cache, and binds nothing.
LEMMA RequestGoes ==
  ASSUME Inv, NEW r \in Requests, NEW now,
         now \in [principal : Principals, front : {"pipeline", "graph"}, ask : Asks,
                  pc : {"planning", "admitted", "released", "refused"}, epoch : 1..epoch],
         req' = [req EXCEPT ![r] = now], UNCHANGED <<policies, epoch, cache>>
  PROVE  Inv'
<1>1. epoch \in Nat BY Numbers DEF Inv, TypeOK
<1>2. req' \in [Requests -> [principal : Principals, front : {"pipeline", "graph"},
                  ask : Asks, pc : {"asked", "planning", "bound", "admitted", "released",
                                    "refused"}, epoch : 0..epoch]]
  BY <1>1 DEF Inv, TypeOK
<1>3. \A q \in Requests : req'[q] = IF q = r THEN now ELSE req[q] BY DEF Inv, TypeOK
<1>4. TypeOK' BY <1>2 DEF Inv, TypeOK
<1>5. Scoped' BY <1>1, <1>3 DEF Inv, Scoped
<1>6. CacheHonest' BY DEF Inv, CacheHonest, ColumnsOpen
<1>7. BoundHonest' BY <1>3 DEF Inv, BoundHonest, Doc, PlanOpen
<1>. QED BY <1>4, <1>5, <1>6, <1>7 DEF Inv

LEMMA RequestState ==
  ASSUME Inv, NEW r \in Requests
  PROVE  /\ req \in [Requests -> [principal : Principals, front : {"pipeline", "graph"},
                  ask : Asks, pc : {"asked", "planning", "bound", "admitted", "released",
                                    "refused"}, epoch : 0..epoch]]
         /\ epoch \in Nat \ {0} /\ req[r].epoch \in Nat /\ req[r].epoch <= epoch
         /\ req[r].pc # "asked" => req[r].epoch \in 1..epoch
         /\ req[r].ask.metric \in Metrics
BY Numbers, AuthorizationAssumption DEF Inv, TypeOK, Scoped

LEMMA BindKeeps == ASSUME Inv, NEW r \in Requests, Bind(r) PROVE Inv'
<1>. DEFINE p == req[r].principal
            m == req[r].ask.metric
            key == <<p, req[r].epoch, m>>
<1>0. /\ req[r].pc = "planning" /\ UNCHANGED <<policies, epoch>>
      /\ cache' = IF Resolved(r) THEN cache \cup {key} ELSE cache
      /\ req' = [req EXCEPT ![r].pc =
                   IF /\ Resolved(r)
                      /\ \A d \in req[r].ask.dimensions : DimensionOpen(Doc(p), d)
                      /\ Swept(Doc(p), req[r].ask)
                     THEN "bound" ELSE "refused"]
  BY DEF Bind, Goes, CacheKey
<1>1. /\ p \in Principals /\ m \in Metrics /\ req[r].epoch \in 1..epoch /\ epoch \in Nat \ {0}
  BY <1>0, RequestState
<1>2. Resolved(r) => \E k \in req[r].epoch..epoch : ColumnsOpen(policies[k][p], m)
  <2>. SUFFICES ASSUME Resolved(r)
                PROVE  \E k \in req[r].epoch..epoch : ColumnsOpen(policies[k][p], m)
    OBVIOUS
  <2>1. CASE key \in cache BY <1>1, <2>1 DEF Inv, CacheHonest
  <2>2. CASE key \notin cache
    <3>1. ColumnsOpen(policies[epoch][p], m) BY <2>2 DEF Resolved, CacheKey, Doc
    <3>. QED BY <1>1, <3>1
  <2>. QED BY <2>1, <2>2
<1>3. TypeOK'
  <2>1. cache' \subseteq Principals \X (1..epoch) \X Metrics
    BY <1>0, <1>1 DEF Inv, TypeOK
  <2>2. req' \in [Requests -> [principal : Principals, front : {"pipeline", "graph"},
                  ask : Asks, pc : {"asked", "planning", "bound", "admitted", "released",
                                    "refused"}, epoch : 0..epoch]]
    BY <1>0, RequestState
  <2>. QED BY <1>0, <2>1, <2>2 DEF Inv, TypeOK
<1>4. Scoped'
  BY <1>0, <1>1, RequestState DEF Inv, Scoped
<1>5. CacheHonest'
  <2>. SUFFICES ASSUME NEW q \in Principals, NEW e \in Nat, NEW n \in Metrics,
                       <<q, e, n>> \in cache'
                PROVE  \E k \in e..epoch : ColumnsOpen(policies[k][q], n)
    BY <1>0 DEF CacheHonest, ColumnsOpen
  <2>1. CASE <<q, e, n>> \in cache BY <2>1 DEF Inv, CacheHonest
  <2>2. CASE <<q, e, n>> \notin cache
    <3>1. Resolved(r) /\ <<q, e, n>> = key BY <1>0, <2>2
    <3>2. q = p /\ e = req[r].epoch /\ n = m BY <3>1
    <3>. QED BY <1>2, <3>1, <3>2
  <2>. QED BY <2>1, <2>2
<1>6. BoundHonest'
  <2>. SUFFICES ASSUME NEW q \in Requests, req'[q].pc = "bound", req'[q].epoch = epoch
                PROVE  PlanOpen(policies[epoch][req'[q].principal], req'[q].ask)
    BY <1>0 DEF BoundHonest, Doc
  <2>1. CASE q # r
    <3>1. req'[q] = req[q] BY <1>0, <2>1, RequestState
    <3>. QED BY <3>1 DEF Inv, BoundHonest, Doc
  <2>2. CASE q = r
    <3>1. /\ req'[q].principal = p /\ req'[q].ask = req[r].ask
          /\ req[r].epoch = epoch
      BY <1>0, <2>2, RequestState
    <3>2. /\ Resolved(r) /\ \A d \in req[r].ask.dimensions : DimensionOpen(Doc(p), d)
          /\ Swept(Doc(p), req[r].ask)
      BY <1>0, <2>2, RequestState
    <3>3. ColumnsOpen(policies[epoch][p], m) BY <1>1, <1>2, <3>1, <3>2
    <3>4. Executable(policies[epoch][p], m) BY <3>2 DEF Resolved, Doc
    <3>. QED BY <3>1, <3>2, <3>3, <3>4 DEF PlanOpen, Doc
  <2>. QED BY <2>1, <2>2
<1>. QED BY <1>3, <1>4, <1>5, <1>6 DEF Inv

LEMMA InvNext == ASSUME Inv, [Next]_vars PROVE Inv'
<1>1. CASE UNCHANGED vars
  <2>. UNCHANGED <<policies, epoch, cache, req>> BY <1>1 DEF vars
  <2>1. TypeOK' BY DEF Inv, TypeOK
  <2>2. Scoped' BY DEF Inv, Scoped
  <2>3. CacheHonest' BY DEF Inv, CacheHonest, ColumnsOpen
  <2>4. BoundHonest' BY DEF Inv, BoundHonest, Doc
  <2>. QED BY <2>1, <2>2, <2>3, <2>4 DEF Inv
<1>2. CASE PolicyChange BY <1>2, PolicyChangeKeeps
<1>3. ASSUME NEW r \in Requests, EstablishScope(r) PROVE Inv'
  <2>. DEFINE now == [req[r] EXCEPT !.pc = "planning", !.epoch = epoch]
  <2>1. now \in [principal : Principals, front : {"pipeline", "graph"}, ask : Asks,
                 pc : {"planning", "admitted", "released", "refused"}, epoch : 1..epoch]
    <3>1. req[r] \in [principal : Principals, front : {"pipeline", "graph"}, ask : Asks,
                      pc : {"asked", "planning", "bound", "admitted", "released",
                            "refused"}, epoch : 0..epoch]
      BY RequestState
    <3>2. epoch \in 1..epoch BY RequestState
    <3>. QED BY <3>1, <3>2
  <2>2. req' = [req EXCEPT ![r] = now] BY <1>3, RequestState DEF EstablishScope
  <2>. QED BY <1>3, <2>1, <2>2, RequestGoes DEF EstablishScope
<1>4. ASSUME NEW r \in Requests, Bind(r) PROVE Inv' BY <1>4, BindKeeps
<1>5. ASSUME NEW r \in Requests, GivesUp(r) \/ Admit(r) \/ Release(r) PROVE Inv'
  <2>1. PICK pc \in {"admitted", "released", "refused"} :
          req[r].pc # "asked" /\ req' = [req EXCEPT ![r].pc = pc]
    BY <1>5 DEF GivesUp, Admit, Release, Goes
  <2>. DEFINE now == [req[r] EXCEPT !.pc = pc]
  <2>2. now \in [principal : Principals, front : {"pipeline", "graph"}, ask : Asks,
                 pc : {"planning", "admitted", "released", "refused"}, epoch : 1..epoch]
    BY <2>1, RequestState
  <2>3. req' = [req EXCEPT ![r] = now] BY <2>1, RequestState
  <2>. QED BY <1>5, <2>2, <2>3, RequestGoes DEF GivesUp, Admit, Release
<1>. QED BY <1>1, <1>2, <1>3, <1>4, <1>5 DEF Next

LEMMA Invariant == Spec => []Inv
BY InvInit, InvNext, PTL DEF Spec

\* Scopes and cache entries are of the epochs there have been.
THEOREM AuthorizationTypes == Spec => []TypeOK
BY Invariant, PTL DEF Inv

\* The pipeline admits only what the policy in force allows, cached or not.
THEOREM AdmissionChecked == Spec => AdmittedUnderPolicyInForce
<1>1. Inv /\ [Next]_vars =>
        [\A r \in Requests :
           req[r].front = "pipeline" /\ req[r].pc = "bound" /\ req'[r].pc = "admitted" =>
             PlanOpen(Doc(req[r].principal), req[r].ask)]_vars
  <2>. SUFFICES ASSUME Inv, Next, NEW r \in Requests,
                       req[r].front = "pipeline", req[r].pc = "bound",
                       req'[r].pc = "admitted"
                PROVE  PlanOpen(Doc(req[r].principal), req[r].ask)
    BY DEF vars
  <2>1. req[r].epoch = epoch
    <3>1. CASE PolicyChange BY <3>1 DEF PolicyChange
    <3>2. ASSUME NEW q \in Requests, EstablishScope(q) PROVE FALSE
      BY <3>2, RequestState DEF EstablishScope
    <3>3. ASSUME NEW q \in Requests, Bind(q) PROVE FALSE
      BY <3>3, RequestState DEF Bind, Goes
    <3>4. ASSUME NEW q \in Requests, GivesUp(q) \/ Release(q) PROVE FALSE
      BY <3>4, RequestState DEF GivesUp, Release, Goes
    <3>5. ASSUME NEW q \in Requests, Admit(q) PROVE req[r].epoch = epoch
      <4>1. q = r BY <3>5, RequestState DEF Admit, Goes
      <4>. QED BY <3>5, <4>1, RequestState DEF Admit, Goes
    <3>. QED BY <3>1, <3>2, <3>3, <3>4, <3>5 DEF Next
  <2>. QED BY <2>1 DEF Inv, BoundHonest
<1>. QED BY <1>1, Invariant, PTL DEF Spec, AdmittedUnderPolicyInForce

-----------------------------------------------------------------------------
(* Discovery.                                                                *)

LEMMA StepsOfRequests == ASSUME [DiscoveryNext]_dvars PROVE [Next]_vars
<1>1. CASE UNCHANGED dvars BY <1>1 DEF dvars, vars
<1>2. CASE PolicyChange BY <1>2 DEF Next
<1>3. ASSUME NEW r \in Requests, Understand(r) \/ Search(r) \/ Propose(r) \/ ProposeNothing(r)
      PROVE  [Next]_vars
  <2>1. UNCHANGED vars \/ GivesUp(r)
    BY <1>3 DEF Understand, Search, Propose, ProposeNothing
  <2>. QED BY <2>1 DEF Next
<1>4. ASSUME NEW r \in Requests,
             BindProposed(r) \/ EstablishScope(r) \/ Admit(r) \/ Release(r)
      PROVE  [Next]_vars
  BY <1>4 DEF BindProposed, Next
<1>. QED BY <1>1, <1>2, <1>3, <1>4 DEF DiscoveryNext

\* With discovery before it, a request goes the same way: what is proved above holds
\* of it too.
THEOREM DiscoveryIsPartOfIt == DiscoverySpec => Spec
<1>1. DiscoveryInit => Init BY DEF DiscoveryInit
<1>. QED BY <1>1, StepsOfRequests, PTL DEF DiscoverySpec, Spec

FoundTypeOK ==
  found \in [Requests -> [pc : {"none", "understood", "offered", "proposed"},
                         exact : SUBSET Offers, offered : SUBSET Offers,
                         proposal : SUBSET Offers]]

\* Nothing is looked for before there is a scope, and nothing proposed that is not offered.
InOrder ==
  \A r \in Requests :
    /\ found[r].pc # "none" => req[r].pc # "asked"
    /\ IF found[r].pc = "proposed" THEN found[r].proposal \subseteq found[r].offered
                                  ELSE found[r].proposal = {}

OfferInv == FoundTypeOK /\ InOrder /\ OffersWereOpen

\* What a step never changes of a request, and of the policies.
LEMMA RequestsKeep ==
  ASSUME Inv, [Next]_vars
  PROVE  /\ policies' = policies /\ epoch \in Nat /\ epoch' \in Nat /\ epoch <= epoch'
         /\ \A r \in Requests :
              /\ req'[r].principal = req[r].principal /\ req[r].epoch \in Nat
              /\ req[r].pc # "asked" =>
                   req'[r].pc # "asked" /\ req'[r].epoch = req[r].epoch
<1>0. epoch \in Nat /\ \A r \in Requests : req[r].epoch \in Nat
  BY RequestState, Numbers DEF Inv, TypeOK
<1>1. CASE UNCHANGED vars BY <1>0, <1>1 DEF vars
<1>2. CASE PolicyChange BY <1>0, <1>2 DEF PolicyChange
<1>3. ASSUME NEW q \in Requests, EstablishScope(q)
      PROVE  UNCHANGED <<policies, epoch>> /\ \A r \in Requests :
               /\ req'[r].principal = req[r].principal
               /\ req[r].pc # "asked" => req'[r] = req[r]
  BY <1>3, RequestState DEF EstablishScope
<1>4. ASSUME NEW q \in Requests, GivesUp(q) \/ Bind(q) \/ Admit(q) \/ Release(q)
      PROVE  UNCHANGED <<policies, epoch>> /\ \A r \in Requests :
               /\ req'[r].principal = req[r].principal
               /\ req[r].pc # "asked" =>
                    req'[r].pc # "asked" /\ req'[r].epoch = req[r].epoch
  <2>1. PICK pc \in {"bound", "admitted", "released", "refused"} :
          req' = [req EXCEPT ![q].pc = pc]
    BY <1>4 DEF GivesUp, Bind, Admit, Release, Goes
  <2>. QED BY <1>4, <2>1, RequestState DEF GivesUp, Bind, Admit, Release
<1>. QED BY <1>0, <1>1, <1>2, <1>3, <1>4 DEF Next

\* What was once open stays so in this sense, however the policy moves on.
LEMMA StillOpen ==
  ASSUME Inv, [Next]_vars, NEW r \in Requests, req[r].pc # "asked", NEW x, EverOpen(r, x)
  PROVE  EverOpen(r, x)'
<1>1. PICK e \in req[r].epoch..epoch : Allowed(policies[e][req[r].principal], "discover", x)
  BY DEF EverOpen
<1>2. e \in req'[r].epoch..epoch' BY RequestsKeep
<1>3. Allowed(policies'[e][req'[r].principal], "discover", x) BY <1>1, RequestsKeep
<1>. QED BY <1>2, <1>3 DEF EverOpen

\* A request whose discovery does not move keeps what was found out of it.
LEMMA Unmoved ==
  ASSUME Inv, OfferInv, [Next]_vars, NEW r \in Requests, found'[r] = found[r]
  PROVE  /\ found'[r].pc # "none" => req'[r].pc # "asked"
         /\ IF found'[r].pc = "proposed" THEN found'[r].proposal \subseteq found'[r].offered
                                         ELSE found'[r].proposal = {}
         /\ found'[r].pc \in {"offered", "proposed"} =>
              \A x \in (found'[r].offered \cup found'[r].proposal) \ found'[r].exact :
                EverOpen(r, x)'
BY RequestsKeep, StillOpen DEF OfferInv, InOrder, OffersWereOpen

LEMMA OffersInit == DiscoveryInit => OfferInv
<1>. SUFFICES ASSUME DiscoveryInit PROVE OfferInv OBVIOUS
<1>1. \A r \in Requests : found[r] = NotYet BY DEF DiscoveryInit
<1>2. FoundTypeOK BY DEF DiscoveryInit, FoundTypeOK, NotYet
<1>. QED BY <1>1, <1>2 DEF OfferInv, InOrder, OffersWereOpen, NotYet

\* What a provider finds is open under the policy in force, which the scope precedes.
LEMMA FoundIsOpen ==
  ASSUME Inv, NEW r \in Requests, NEW provider, NEW x \in Found(provider, r)
  PROVE  EverOpen(r, x)
<1>1. Allowed(policies[epoch][req[r].principal], "discover", x) BY DEF Found, Doc
<1>2. epoch \in req[r].epoch..epoch BY RequestState
<1>. QED BY <1>1, <1>2 DEF EverOpen

\* Discovery of one request does not touch that of another.
LEMMA OfferInvOf ==
  ASSUME Inv, OfferInv, [Next]_vars, NEW r \in Requests, NEW now,
         now \in [pc : {"none", "understood", "offered", "proposed"},
                  exact : SUBSET Offers, offered : SUBSET Offers, proposal : SUBSET Offers],
         req[r].pc # "asked", found' = [found EXCEPT ![r] = now],
         IF now.pc = "proposed" THEN now.proposal \subseteq now.offered ELSE now.proposal = {},
         now.pc \in {"offered", "proposed"} =>
           \A x \in now.offered \ now.exact : EverOpen(r, x)
  PROVE  OfferInv'
<1>1. FoundTypeOK' BY DEF OfferInv, FoundTypeOK
<1>2. found'[r] = now /\ \A q \in Requests \ {r} : found'[q] = found[q]
  BY DEF OfferInv, FoundTypeOK
<1>3. req'[r].pc # "asked" BY RequestsKeep
<1>4. InOrder' BY <1>2, <1>3, Unmoved DEF InOrder
<1>5. OffersWereOpen'
  <2>. SUFFICES ASSUME NEW q \in Requests, found'[q].pc \in {"offered", "proposed"},
                       NEW x \in (found'[q].offered \cup found'[q].proposal) \ found'[q].exact
                PROVE  EverOpen(q, x)'
    BY DEF OffersWereOpen
  <2>1. CASE q # r BY <1>2, <2>1, Unmoved
  <2>2. CASE q = r
    <3>1. x \in now.offered \ now.exact BY <1>2, <2>2
    <3>. QED BY <1>2, <2>2, <3>1, StillOpen
  <2>. QED BY <2>1, <2>2
<1>. QED BY <1>1, <1>4, <1>5 DEF OfferInv

LEMMA OffersNext == ASSUME Inv, OfferInv, [DiscoveryNext]_dvars, [Next]_vars PROVE OfferInv'
<1>1. CASE UNCHANGED found
  <2>1. FoundTypeOK' BY <1>1 DEF OfferInv, FoundTypeOK
  <2>2. InOrder' BY <1>1, Unmoved DEF InOrder
  <2>3. OffersWereOpen' BY <1>1, Unmoved DEF OffersWereOpen
  <2>. QED BY <2>1, <2>2, <2>3 DEF OfferInv
<1>2. ASSUME NEW r \in Requests, Understand(r), found' # found PROVE OfferInv'
  <2>1. PICK names \in Spelt :
          found' = [found EXCEPT ![r].pc = "understood", ![r].exact = names]
    BY <1>2 DEF Understand
  <2>. DEFINE now == [found[r] EXCEPT !.pc = "understood", !.exact = names]
  <2>2. found[r].pc = "none" /\ req[r].pc # "asked" BY <1>2 DEF Understand
  <2>3. names \subseteq Offers BY DiscoveryAssumption
  <2>4. now \in [pc : {"none", "understood", "offered", "proposed"},
                 exact : SUBSET Offers, offered : SUBSET Offers, proposal : SUBSET Offers]
    BY <2>3 DEF OfferInv, FoundTypeOK
  <2>5. found' = [found EXCEPT ![r] = now] BY <2>1 DEF OfferInv, FoundTypeOK
  <2>6. now.pc = "understood" /\ now.proposal = {}
    BY <2>2 DEF OfferInv, FoundTypeOK, InOrder
  <2>. QED BY <2>2, <2>4, <2>5, <2>6, OfferInvOf
<1>3. ASSUME NEW r \in Requests, Search(r) PROVE OfferInv'
  <2>0. PICK provider \in Providers : \E hits \in SUBSET (Found(provider, r) \cap Offers) :
          found' = [found EXCEPT ![r].pc = "offered", ![r].offered = found[r].exact \cup hits]
    BY <1>3 DEF Search
  <2>1. PICK hits \in SUBSET (Found(provider, r) \cap Offers) :
          found' = [found EXCEPT ![r].pc = "offered", ![r].offered = found[r].exact \cup hits]
    BY <2>0
  <2>. DEFINE now == [found[r] EXCEPT !.pc = "offered", !.offered = found[r].exact \cup hits]
  <2>2. found[r].pc = "understood" /\ req[r].pc # "asked" BY <1>3 DEF Search
  <2>3. now \in [pc : {"none", "understood", "offered", "proposed"},
                 exact : SUBSET Offers, offered : SUBSET Offers, proposal : SUBSET Offers]
    BY DEF OfferInv, FoundTypeOK
  <2>4. found' = [found EXCEPT ![r] = now] BY <2>1 DEF OfferInv, FoundTypeOK
  <2>5. now.pc = "offered" /\ now.proposal = {} /\ now.offered \ now.exact \subseteq hits
    BY <2>2 DEF OfferInv, FoundTypeOK, InOrder
  <2>6. \A x \in hits : EverOpen(r, x) BY FoundIsOpen
  <2>. QED BY <2>2, <2>3, <2>4, <2>5, <2>6, OfferInvOf
<1>4. ASSUME NEW r \in Requests, Propose(r) PROVE OfferInv'
  <2>1. PICK reply \in SUBSET Offers :
          found' = [found EXCEPT ![r].pc = "proposed",
                                 ![r].proposal = Kept(reply, found[r].offered)]
    BY <1>4 DEF Propose
  <2>. DEFINE now == [found[r] EXCEPT !.pc = "proposed",
                                      !.proposal = Kept(reply, found[r].offered)]
  <2>2. found[r].pc = "offered" /\ req[r].pc # "asked" BY <1>4 DEF Propose
  <2>3. now \in [pc : {"none", "understood", "offered", "proposed"},
                 exact : SUBSET Offers, offered : SUBSET Offers, proposal : SUBSET Offers]
    BY DEF OfferInv, FoundTypeOK, Kept
  <2>4. found' = [found EXCEPT ![r] = now] BY <2>1 DEF OfferInv, FoundTypeOK
  <2>5. /\ now.pc = "proposed" /\ now.proposal \subseteq now.offered
        /\ now.offered = found[r].offered /\ now.exact = found[r].exact
    BY DEF OfferInv, FoundTypeOK, Kept
  <2>6. \A x \in now.offered \ now.exact : EverOpen(r, x)
    BY <2>2, <2>5 DEF OfferInv, OffersWereOpen
  <2>. QED BY <2>2, <2>3, <2>4, <2>5, <2>6, OfferInvOf
<1>5. ASSUME NEW r \in Requests, ProposeNothing(r), found' # found PROVE OfferInv'
  <2>. DEFINE now == [found[r] EXCEPT !.pc = "understood"]
  <2>1. found[r].pc = "offered" /\ req[r].pc # "asked" BY <1>5 DEF ProposeNothing
  <2>2. now \in [pc : {"none", "understood", "offered", "proposed"},
                 exact : SUBSET Offers, offered : SUBSET Offers, proposal : SUBSET Offers]
    BY DEF OfferInv, FoundTypeOK
  <2>3. found' = [found EXCEPT ![r] = now]
    BY <1>5 DEF ProposeNothing, OfferInv, FoundTypeOK
  <2>4. now.pc = "understood" /\ now.proposal = {}
    BY <2>1 DEF OfferInv, FoundTypeOK, InOrder
  <2>. QED BY <2>1, <2>2, <2>3, <2>4, OfferInvOf
<1>. QED BY <1>1, <1>2, <1>3, <1>4, <1>5 DEF DiscoveryNext, dvars, BindProposed

\* The model is offered, and proposes, only what the question spelt out or what was
\* open since the scope was established, whatever the policies, providers and replies.
THEOREM OffersAlwaysWereOpen == DiscoverySpec => []OffersWereOpen
<1>1. [DiscoveryNext]_dvars => [Next]_vars BY StepsOfRequests
<1>2. OfferInv => OffersWereOpen BY DEF OfferInv
<1>. QED BY <1>1, <1>2, OffersInit, OffersNext, DiscoveryIsPartOfIt, Invariant, PTL
     DEF DiscoverySpec

-----------------------------------------------------------------------------
(* The providers.                                                            *)

\* While the policy stays, the scope was established with the document in force.
LEMMA ScopeInForce ==
  ASSUME Inv, NEW r \in Requests, req[r].epoch = epoch
  PROVE  /\ ScopeDoc(r) = Doc(req[r].principal) /\ ScopeDoc(r) \in Documents
         /\ InDomain[req[r].principal] \subseteq Resources
<1>1. policies[epoch][req[r].principal] \in Documents
  BY RequestState, AuthorizationAssumption DEF Inv, TypeOK
<1>2. req[r].principal \in Principals BY RequestState
<1>. QED BY <1>1, <1>2, DiscoveryAssumption DEF ScopeDoc, Doc

\* Whatever the query keeps back, the in-memory provider does.
LEMMA QueryHidesLess ==
  ASSUME NEW r, NEW x, HiddenByQuery(r, x)
  PROVE  HiddenInMemory(r, x)
BY DEF HiddenByQuery, HiddenInMemory

\* The root of a wildcard that denies reading.
ReadRoots(r) == {x \in Resources : [of |-> x, wild |-> TRUE] \in ScopeDoc(r).denies["read"]}

\* What the in-memory provider alone keeps back is the root of a wildcard, which denies
\* reading unless the policy denies the card itself.
LEMMA OnlyRootsHidden ==
  ASSUME Inv, NEW r \in Requests, req[r].epoch = epoch, NEW x \in Resources,
         HiddenInMemory(r, x), ~HiddenByQuery(r, x),
         Allowed(Doc(req[r].principal), "discover", x)
  PROVE  x \in ReadRoots(r)
<1>1. PICK p \in DeniedPatterns(r) : x = p.of \/ (p.wild /\ x \in Below[p.of])
  BY DEF HiddenInMemory
<1>2. x = p.of /\ p.wild BY <1>1 DEF HiddenByQuery
<1>3. p \notin ScopeDoc(r).denies["discover"]
  BY <1>2, ScopeInForce DEF Allowed, Denied, Matches
<1>4. p \in ScopeDoc(r).denies["read"] BY <1>3 DEF DeniedPatterns
<1>5. p \in Patterns BY <1>4, ScopeInForce DEF Documents, Actions
<1>6. p = [of |-> x, wild |-> TRUE] BY <1>2, <1>5 DEF Patterns
<1>. QED BY <1>4, <1>6 DEF ReadRoots

AgreeButForReadRoots ==
  \A r \in Requests : req[r].pc = "planning" /\ req[r].epoch = epoch =>
    Found("inmemory", r) = Found("opensearch", r) \ ReadRoots(r)

\* The two providers disagree where a wildcard denies reading, and nowhere else: its root,
\* if it may be discovered, comes through the query and not through the in-memory filter.
THEOREM ProvidersDifferAtReadRoots == DiscoverySpec => []AgreeButForReadRoots
<1>1. Inv => AgreeButForReadRoots
  <2>. SUFFICES ASSUME Inv, NEW r \in Requests, req[r].epoch = epoch
                PROVE  Found("inmemory", r) = Found("opensearch", r) \ ReadRoots(r)
    BY DEF AgreeButForReadRoots
  <2>1. ASSUME NEW x \in Found("inmemory", r)
        PROVE  x \in Found("opensearch", r) \ ReadRoots(r)
    <3>1. /\ x \in InDomain[req[r].principal] /\ ~HiddenInMemory(r, x)
          /\ Allowed(Doc(req[r].principal), "discover", x)
      BY <2>1 DEF Found, Permitted
    <3>2. ~HiddenByQuery(r, x) BY <3>1, QueryHidesLess
    <3>3. x \notin ReadRoots(r) BY <3>1 DEF ReadRoots, HiddenInMemory, DeniedPatterns
    <3>. QED BY <3>1, <3>2, <3>3 DEF Found, Permitted
  <2>2. ASSUME NEW x \in Found("opensearch", r), x \notin ReadRoots(r)
        PROVE  x \in Found("inmemory", r)
    <3>1. /\ x \in InDomain[req[r].principal] /\ ~HiddenByQuery(r, x)
          /\ Allowed(Doc(req[r].principal), "discover", x)
      BY <2>2 DEF Found, Permitted
    <3>2. ~HiddenInMemory(r, x) BY <2>2, <3>1, ScopeInForce, OnlyRootsHidden
    <3>. QED BY <3>1, <3>2 DEF Found, Permitted
  <2>. QED BY <2>1, <2>2
<1>. QED BY <1>1, DiscoveryIsPartOfIt, Invariant, PTL
==============================================================================
