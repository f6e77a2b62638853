-------------------------- MODULE QueryGraphProofs --------------------------
(***************************************************************************)
(* Theorems about QueryGraph, for every catalog, policy, set of proposals   *)
(* and budget that satisfies the module's assumptions: its types; the safety*)
(* properties of a dialogue and its results from one inductive invariant,   *)
(* the budget of an invocation from another; and the refinement of          *)
(* RequestLifecycle.                                                        *)
(***************************************************************************)
EXTENDS QueryGraph, TLAPS

\* What the nodes rely on when they dereference an optional channel: a question
\* and a request are there whenever clarify runs, a request whenever the binder,
\* the repair and the execution do, a context whenever any node does.
Shape ==
  /\ payload # None => pc = "clarify"
  /\ pc \in {"clarify", "suspended"} =>
       st.clarification # None /\ st.proposal # None
  /\ pc \in {"bind_compile", "repair", "execute"} => st.proposal # None
  /\ st.proposal # None => history.meant # None
  /\ pc \in Nodes => ctx \in Contexts

TypeInv == TypeOK /\ Shape

-----------------------------------------------------------------------------
(* Updates of the checkpointed state.                                        *)

LEMMA DecidedType ==
  ASSUME st \in GraphState, NEW d \in Decisions
  PROVE  /\ [st EXCEPT !.decision = d] \in GraphState
         /\ [st EXCEPT !.decision = d].decision = d
         /\ [st EXCEPT !.decision = d].proposal = st.proposal
<1>1. d \in Optional(Decisions) BY DEF Optional
<1>. QED BY <1>1 DEF GraphState

LEMMA AnsweredType ==
  ASSUME st \in GraphState, NEW d \in Decisions, NEW a \in Answers
  PROVE  [st EXCEPT !.decision = d, !.answer = a] \in GraphState
<1>1. d \in Optional(Decisions) /\ a \in Optional(Answers) BY DEF Optional
<1>. QED BY <1>1 DEF GraphState

LEMMA BlockedType ==
  ASSUME st \in GraphState, NEW codes \in SUBSET Codes
  PROVE  /\ Blocked(codes) \in GraphState
         /\ Blocked(codes).decision = "blocked"
         /\ Blocked(codes).proposal = st.proposal
<1>1. "blocked" \in Optional(Decisions) BY DEF Optional, Decisions
<1>. QED BY <1>1 DEF GraphState, Blocked

LEMMA FoundType ==
  ASSUME st \in GraphState, NEW cands \in SUBSET Metrics, NEW d \in Decisions
  PROVE  /\ Found(cands, d) \in GraphState
         /\ Found(cands, d).decision = d
         /\ Found(cands, d).proposal = st.proposal
<1>1. d \in Optional(Decisions) BY DEF Optional
<1>2. st.retrieval_rounds + 1 \in Nat BY DEF GraphState
<1>. QED BY <1>1, <1>2 DEF GraphState, Found

LEMMA ProposeWithType ==
  ASSUME st \in GraphState, NEW r \in Requests, NEW q \in Optional(Questions)
  PROVE  ProposeWith(r, q) \in GraphState
<1>. DEFINE d == IF q = None THEN "ready" ELSE "clarify"
<1>1. d \in Optional(Decisions) BY DEF Optional, Decisions
<1>2. r \in Optional(Requests) BY DEF Optional
<1>3. ProposeWith(r, q) = [st EXCEPT !.proposal = r, !.clarification = q, !.decision = d]
  BY DEF ProposeWith
<1>. HIDE DEF d
<1>. QED BY <1>1, <1>2, <1>3 DEF GraphState

LEMMA DetectType ==
  ASSUME NEW r \in Requests, NEW cands, NEW exact, NEW asked,
         NEW menu \in Shortlists(cands), policy \in Policies
  PROVE  Detect(r, cands, exact, asked, menu) \in Optional(Questions)
<1>1. menu \subseteq Metrics BY DEF Shortlists, Runnable, Policies
<1>2. Supports[r.first] \subseteq Grains BY CatalogAssumption DEF Requests
<1>3. [slot |-> "metric", options |-> menu] \in Questions
  BY <1>1 DEF Questions, Slots, Values, Choices
<1>4. [slot |-> "time_range", options |-> OfferedRanges] \in Questions
  BY CatalogAssumption DEF Questions, Slots, Values, Choices
<1>5. [slot |-> "time_grain", options |-> Supports[r.first]] \in Questions
  BY <1>2 DEF Questions, Slots, Values, Choices
<1>. QED BY <1>3, <1>4, <1>5 DEF Detect, Optional

LEMMA ApplyAnswerType ==
  ASSUME NEW r \in Requests, NEW slot \in Slots, NEW value \in Choices(slot)
  PROVE  ApplyAnswer(r, slot, value) \in Requests
<1>1. CASE slot = "metric"
  BY <1>1 DEF ApplyAnswer, Requests, Choices
<1>2. CASE slot = "time_range"
  BY <1>2 DEF ApplyAnswer, Requests, Choices
<1>3. CASE slot = "time_grain"
  BY <1>3 DEF ApplyAnswer, Requests, Choices
<1>. QED BY <1>1, <1>2, <1>3 DEF Slots

LEMMA CountedNat == ASSUME NEW n \in Nat PROVE Counted(n) \in Nat
BY DEF Counted

LEMMA ColumnsType ==
  ASSUME NEW r \in Requests
  PROVE  Columns(r) \in ColumnSets
<1>1. r.first \in Metrics /\ r.others \subseteq Metrics /\ (r.grain # None => r.grain \in Grains)
  BY DEF Requests
<1>. QED BY <1>1 DEF Columns, ColumnSets

LEMMA BindFailedType ==
  ASSUME st \in GraphState, st.proposal # None, NEW codes \in SUBSET Codes
  PROVE  BindFailed(codes) \in GraphState
<1>1. Verdict(codes) \in Optional(Decisions) BY DEF Optional, Decisions, Verdict
<1>2. Columns(st.proposal) \in ColumnSets BY ColumnsType DEF GraphState, Optional
<1>. QED BY <1>1, <1>2 DEF GraphState, BindFailed

LEMMA BindReadyType ==
  ASSUME st \in GraphState, st.proposal # None, NEW passed \in BOOLEAN
  PROVE  /\ BindReady(passed) \in GraphState
         /\ Compiled(st.proposal) \in Optional(Queries)
<1>1. "ready" \in Optional(Decisions) BY DEF Optional, Decisions
<1>2. Columns(st.proposal) \in ColumnSets BY ColumnsType DEF GraphState, Optional
<1>3. st.plan_revision \in Nat /\ st.proposal \in Requests
  BY DEF GraphState, Optional
<1>4. Compiled(st.proposal) \in Optional(Queries)
  BY <1>3 DEF Compiled, Queries, Optional
<1>5. passed \in Optional(BOOLEAN) BY DEF Optional
<1>. QED BY <1>1, <1>2, <1>4, <1>5 DEF GraphState, BindReady

-----------------------------------------------------------------------------
(* The type invariant, action by action.                                     *)

LEMMA InitType == Init => TypeInv
<1>. SUFFICES ASSUME Init PROVE TypeInv
  OBVIOUS
<1>1. [s \in Slots |-> 0] \in AskedCounts BY DEF AskedCounts
<1>2. {} \in ColumnSets BY DEF ColumnSets
<1>3. None \in Optional(Decisions) /\ None \in Optional(Routes)
      /\ None \in Optional(Requests) /\ None \in Optional(Questions)
      /\ None \in Optional(Payloads) /\ None \in Optional(Queries)
      /\ None \in Optional(BOOLEAN) /\ None \in Optional(Results)
      /\ None \in Optional(Answers) /\ None \in Optional(Values)
  BY DEF Optional
<1>4. st \in GraphState BY <1>1, <1>2, <1>3 DEF Init, GraphState
<1>5. history \in Histories
  BY <1>3 DEF Init, Histories, NothingChosen
<1>6. policy \in Policies BY DEF Init, Policies
<1>. QED BY <1>3, <1>4, <1>5, <1>6 DEF Init, TypeInv, TypeOK, Shape, Resting, Nodes

LEMMA CallerType ==
  ASSUME TypeInv, Ask \/ Resume \/ Raise \/ PolicyChange
  PROVE  TypeInv'
<1>1. policy.epoch \in Nat BY DEF TypeInv, TypeOK, Policies
<1>2. FreshContext \in Contexts BY <1>1 DEF FreshContext, Contexts
<1>3. CASE Ask
  BY <1>2, <1>3 DEF Ask, TypeInv, TypeOK, Shape, Nodes
<1>4. CASE Resume
  <2>1. payload' \in Optional(Payloads) BY <1>4 DEF Resume, Payloads, Optional
  <2>. QED BY <1>2, <1>4, <2>1 DEF Resume, TypeInv, TypeOK, Shape, Nodes
<1>5. CASE Raise
  BY <1>5 DEF Raise, TypeInv, TypeOK, Shape, Resting, Nodes, Optional
<1>6. CASE PolicyChange
  <2>1. policy' \in Policies BY <1>1, <1>6 DEF PolicyChange, Policies
  <2>. QED BY <1>6, <2>1 DEF PolicyChange, TypeInv, TypeOK, Shape
<1>. QED BY <1>3, <1>4, <1>5, <1>6

LEMMA AdmitType == ASSUME TypeInv, Admit PROVE TypeInv'
<1>1. CASE policy.known
  <2>1. st' = [st EXCEPT !.decision = "allowed"] BY <1>1 DEF Admit
  <2>2. st' \in GraphState BY <2>1, DecidedType DEF TypeInv, TypeOK, Decisions
  <2>. st'.decision = "allowed" BY <2>1 DEF TypeInv, TypeOK, GraphState
  <2>3. pc' = "understand" BY DEF Admit, Goto, Targets, Edges
  <2>. QED BY <2>2, <2>3, CountedNat DEF Admit, Node, Continue, TypeInv, TypeOK, Shape, Nodes
<1>2. CASE ~policy.known
  <2>. DEFINE b == Blocked({"NOT_AUTHORIZED"})
  <2>1. b \in GraphState BY BlockedType DEF TypeInv, TypeOK, Codes
  <2>2. st' = [b EXCEPT !.decision = "denied"]
    BY <1>2 DEF Admit, Blocked, TypeInv, TypeOK, GraphState
  <2>3. "denied" \in Optional(Decisions) BY DEF Optional, Decisions
  <2>4. st' \in GraphState BY <2>1, <2>2, <2>3 DEF GraphState
  <2>5. pc' = "stop" BY <1>2 DEF Admit, Goto, Targets, Edges, TypeInv, TypeOK, GraphState
  <2>. QED BY <2>4, <2>5, CountedNat DEF Admit, Node, Continue, TypeInv, TypeOK, Shape, Nodes
<1>. QED BY <1>1, <1>2

LEMMA UnderstandType == ASSUME TypeInv, Understand PROVE TypeInv'
<1>1. st' \in GraphState /\ st'.route \in Routes /\ st'.proposal = st.proposal
  <2>1. CASE \E route \in Routes, exact \in SUBSET Metrics :
               st' = [st EXCEPT !.route = route, !.exact_metric_refs = exact]
    <3>1. PICK route \in Routes, exact \in SUBSET Metrics :
             st' = [st EXCEPT !.route = route, !.exact_metric_refs = exact]
      BY <2>1
    <3>2. route \in Optional(Routes) BY DEF Optional
    <3>. QED BY <3>1, <3>2 DEF TypeInv, TypeOK, GraphState
  <2>2. CASE st' = [Blocked({"PROVIDER_UNAVAILABLE"}) EXCEPT !.route = "unsupported"]
    <3>1. /\ Blocked({"PROVIDER_UNAVAILABLE"}) \in GraphState
          /\ Blocked({"PROVIDER_UNAVAILABLE"}).proposal = st.proposal
      BY BlockedType DEF TypeInv, TypeOK, Codes
    <3>2. "unsupported" \in Optional(Routes) /\ "unsupported" \in Routes
      BY DEF Optional, Routes
    <3>. QED BY <2>2, <3>1, <3>2 DEF GraphState
  <2>. QED BY <2>1, <2>2 DEF Understand
<1>2. /\ Node("understand") /\ Continue /\ UNCHANGED history
      /\ Goto("understand", st'.route)
  BY DEF Understand
<1>3. pc' \in {"retrieve", "definition", "metadata", "stop"}
  BY <1>1, <1>2 DEF Goto, Targets, Edges, Routes
<1>. QED BY <1>1, <1>2, <1>3, CountedNat DEF Node, Continue, TypeInv, TypeOK, Shape, Nodes

LEMMA RetrieveType == ASSUME TypeInv, Retrieve PROVE TypeInv'
<1>1. st' \in GraphState /\ st'.proposal = st.proposal
  BY FoundType DEF Retrieve, TypeInv, TypeOK, Decisions
<1>2. pc' = "propose" BY DEF Retrieve, Goto, Targets, Edges
<1>. QED BY <1>1, <1>2, CountedNat DEF Retrieve, Node, Continue, TypeInv, TypeOK, Shape, Nodes

LEMMA ExpandType == ASSUME TypeInv, Expand PROVE TypeInv'
<1>1. st' \in GraphState /\ st'.proposal = st.proposal
  BY BlockedType, DecidedType DEF Expand, TypeInv, TypeOK, Decisions, Codes
<1>2. pc' \in {"retrieve", "stop"} BY DEF Expand, Goto, Targets, Edges
<1>. QED BY <1>1, <1>2, CountedNat DEF Expand, Node, Continue, TypeInv, TypeOK, Shape, Nodes

\* What Proposed(r) leaves behind: the request, and a question iff it asks.
LEMMA ProposedType ==
  ASSUME TypeInv, NEW r \in Requests, Proposed(r)
  PROVE  /\ st' \in GraphState
         /\ st'.proposal = r
         /\ \/ st'.decision = "ready"
            \/ st'.decision = "clarify" /\ st'.clarification # None
<1>1. PICK menu \in Shortlists(st.candidates) :
        st' = ProposeWith(r, Detect(r, st.candidates, st.exact_metric_refs, Asked, menu))
  BY DEF Proposed
<1>. DEFINE q == Detect(r, st.candidates, st.exact_metric_refs, Asked, menu)
<1>2. q \in Optional(Questions) BY DetectType DEF TypeInv, TypeOK
<1>3. st' = ProposeWith(r, q) BY <1>1
<1>. HIDE DEF q
<1>4. st' \in GraphState BY <1>3, <1>2, ProposeWithType DEF TypeInv, TypeOK
<1>. QED BY <1>3, <1>4 DEF ProposeWith, TypeInv, TypeOK, GraphState

LEMMA AfterPropose ==
  ASSUME TypeInv, NEW r \in Requests, Proposed(r), Node("propose"), Continue,
         Goto("propose", st'.decision), history' \in Histories,
         history'.meant # None
  PROVE  TypeInv'
<1>1. /\ st' \in GraphState /\ st'.proposal = r
      /\ \/ st'.decision = "ready"
         \/ st'.decision = "clarify" /\ st'.clarification # None
  BY ProposedType
<1>2. r # None BY RequestAssumption
<1>3. \/ pc' = "bind_compile"
      \/ pc' = "clarify" /\ st'.clarification # None
  BY <1>1 DEF Goto, Targets, Edges
<1>. QED BY <1>1, <1>2, <1>3, CountedNat DEF Node, Continue, TypeInv, TypeOK, Shape, Nodes

LEMMA ProposePlanType == ASSUME TypeInv, ProposePlan PROVE TypeInv'
<1>1. /\ Node("propose") /\ Continue /\ Goto("propose", st'.decision)
  BY DEF ProposePlan
<1>2. CASE Settled /\ Proposed(st.proposal) /\ UNCHANGED history
  <2>1. st.proposal \in Requests /\ history'.meant # None
    BY <1>2 DEF Settled, TypeInv, TypeOK, Shape, GraphState, Optional
  <2>. QED BY <1>1, <1>2, <2>1, AfterPropose DEF TypeInv, TypeOK
<1>3. CASE \E r \in Proposals :
             Proposed(r) /\ history' = [history EXCEPT !.meant = r]
  <2>1. PICK r \in Proposals :
          Proposed(r) /\ history' = [history EXCEPT !.meant = r]
    BY <1>3
  <2>2. r \in Requests /\ r # None BY RequestAssumption
  <2>3. history' \in Histories /\ history'.meant = r
    BY <2>1, <2>2 DEF TypeInv, TypeOK, Histories, Optional
  <2>. QED BY <1>1, <2>1, <2>2, <2>3, AfterPropose
<1>4. CASE UNCHANGED history /\ st' = [st EXCEPT !.decision = "expand"]
  <2>1. st' \in GraphState BY <1>4, DecidedType DEF TypeInv, TypeOK, Decisions
  <2>2. st'.decision = "expand" /\ st'.proposal = st.proposal
    BY <1>4 DEF TypeInv, TypeOK, GraphState
  <2>3. pc' = "expand" BY <1>1, <2>2 DEF Goto, Targets, Edges
  <2>. QED BY <1>1, <1>4, <2>1, <2>2, <2>3, CountedNat
       DEF Node, Continue, TypeInv, TypeOK, Shape, Nodes
<1>5. CASE UNCHANGED history /\ \E codes \in SUBSET Codes : st' = Blocked(codes)
  <2>1. st' \in GraphState /\ st'.decision = "blocked" /\ st'.proposal = st.proposal
    BY <1>5, BlockedType DEF Blocked, TypeInv, TypeOK, GraphState
  <2>2. pc' = "stop" BY <1>1, <2>1 DEF Goto, Targets, Edges
  <2>. QED BY <1>1, <1>5, <2>1, <2>2, CountedNat
       DEF Node, Continue, TypeInv, TypeOK, Shape, Nodes
<1>6. {"COVERAGE_INCOMPLETE"} \in SUBSET Codes /\ {"PROVIDER_UNAVAILABLE"} \in SUBSET Codes
  BY DEF Codes
<1>. QED BY <1>2, <1>3, <1>4, <1>5, <1>6 DEF ProposePlan

LEMMA ClarifyType ==
  ASSUME TypeInv, ClarifyInterrupt \/ ClarifyAnswer
  PROVE  TypeInv'
<1>1. CASE ClarifyInterrupt
  BY <1>1, CountedNat DEF ClarifyInterrupt, Node, TypeInv, TypeOK, Shape, Resting, Nodes
<1>2. CASE ClarifyAnswer /\ Offered(payload)
  <2>. DEFINE slot == payload.slot
              value == payload.value
              settled == ApplyAnswer(st.proposal, slot, value)
              intended == ApplyAnswer(history.meant, slot, value)
  <2>1. /\ st.clarification \in Questions /\ st.proposal \in Requests
        /\ history.meant \in Requests /\ payload \in Payloads
    BY <1>2 DEF ClarifyAnswer, Node, TypeInv, TypeOK, Shape, GraphState, Histories, Optional
  <2>2. slot \in Slots /\ value \in Choices(slot) /\ value \in Values
    BY <1>2, <2>1 DEF Offered, Questions, Payloads
  <2>3. settled \in Requests /\ intended \in Requests
    BY <2>1, <2>2, ApplyAnswerType
  <2>4. /\ st' = [st EXCEPT !.proposal = settled, !.clarification = None,
                            !.clarification_answer = payload,
                            !.clarified_slots[slot] = @ + 1,
                            !.decision = "resumed"]
        /\ history' = [history EXCEPT !.chosen[slot] = value,
                                      !.meant = intended]
        /\ Node("clarify") /\ payload' = None /\ UNCHANGED ctx
        /\ Goto("clarify", st'.decision)
    BY <1>2 DEF ClarifyAnswer
  <2>. HIDE DEF slot, value, settled, intended
  <2>5. [st.clarified_slots EXCEPT ![slot] = st.clarified_slots[slot] + 1] \in AskedCounts
    BY <2>2 DEF TypeInv, TypeOK, GraphState, AskedCounts
  <2>6. /\ settled \in Optional(Requests) /\ None \in Optional(Questions)
        /\ payload \in Optional(Payloads) /\ "resumed" \in Optional(Decisions)
    BY <2>1, <2>3 DEF Optional, Decisions
  <2>7. st' \in GraphState BY <2>4, <2>5, <2>6 DEF TypeInv, TypeOK, GraphState
  <2>8. history' \in Histories /\ history'.meant = intended
    BY <2>2, <2>3, <2>4 DEF TypeInv, TypeOK, Histories, Optional
  <2>9. st'.decision = "resumed" BY <2>4 DEF TypeInv, TypeOK, GraphState
  <2>10. pc' = "admit" BY <2>4, <2>9 DEF Goto, Targets, Edges
  <2>11. intended # None BY <2>3, RequestAssumption
  <2>. QED BY <2>4, <2>7, <2>8, <2>10, <2>11, CountedNat
       DEF Node, TypeInv, TypeOK, Shape, Nodes, Optional
<1>3. CASE ClarifyAnswer /\ ~Offered(payload)
  <2>1. \E codes \in SUBSET Codes : st' = Blocked(codes)
    BY <1>3 DEF ClarifyAnswer, Codes
  <2>2. st' \in GraphState /\ st'.decision = "blocked" /\ st'.proposal = st.proposal
    BY <2>1, BlockedType DEF Blocked, TypeInv, TypeOK, GraphState
  <2>3. /\ Node("clarify") /\ payload' = None /\ UNCHANGED <<ctx, history>>
        /\ Goto("clarify", st'.decision)
    BY <1>3 DEF ClarifyAnswer
  <2>4. pc' = "stop" BY <2>2, <2>3 DEF Goto, Targets, Edges
  <2>. QED BY <2>2, <2>3, <2>4, CountedNat DEF Node, TypeInv, TypeOK, Shape, Nodes, Optional
<1>. QED BY <1>1, <1>2, <1>3

\* A node that refuses goes to stop and keeps the proposal.
LEMMA BlockedLeaves ==
  ASSUME TypeInv, NEW n \in Nodes, n \notin {"admit", "understand", "retrieve", "stop"},
         NEW codes \in SUBSET Codes, st' = Blocked(codes), Node(n),
         Goto(n, st'.decision), UNCHANGED <<ctx, payload, history>>, payload = None
  PROVE  TypeInv'
<1>1. st' \in GraphState /\ st'.decision = "blocked" /\ st'.proposal = st.proposal
  BY BlockedType DEF TypeInv, TypeOK
<1>2. pc' = "stop" BY <1>1 DEF Goto, Targets, Edges
<1>. QED BY <1>1, <1>2, CountedNat DEF Node, TypeInv, TypeOK, Shape, Nodes

LEMMA RepairType == ASSUME TypeInv, Repair PROVE TypeInv'
<1>1. /\ Node("repair") /\ Goto("repair", st'.decision) /\ payload = None
      /\ UNCHANGED <<ctx, payload, history>>
      /\ st.proposal \in Requests
  BY DEF Repair, Continue, Node, TypeInv, TypeOK, Shape, GraphState, Optional
<1>2. CASE st' = Blocked({"BUDGET_EXHAUSTED"})
  BY <1>1, <1>2, BlockedLeaves DEF Nodes, Codes
<1>3. CASE st' = [st EXCEPT !.decision = "blocked"]
  <2>1. st' \in GraphState /\ st'.decision = "blocked" /\ st'.proposal = st.proposal
    BY <1>3, DecidedType DEF TypeInv, TypeOK, Decisions
  <2>2. pc' = "stop" BY <1>1, <2>1 DEF Goto, Targets, Edges
  <2>. QED BY <1>1, <2>1, <2>2, CountedNat DEF Node, TypeInv, TypeOK, Shape, Nodes
<1>4. CASE st' = [st EXCEPT
                  !.proposal = Repaired(@), !.columns = {}, !.sql = None,
                  !.passed = None, !.result = None, !.answer = None,
                  !.plan_revision = @ + 1, !.repair_attempts = @ + 1,
                  !.reason_codes = {}, !.decision = "ready"]
  <2>. DEFINE r == Repaired(st.proposal)
  <2>1. r \in Requests BY <1>1 DEF Repaired, Requests
  <2>2. r # None /\ r \in Optional(Requests) BY <2>1, RequestAssumption DEF Optional
  <2>3. st.plan_revision + 1 \in Nat /\ st.repair_attempts + 1 \in Nat
    BY DEF TypeInv, TypeOK, GraphState
  <2>4. /\ {} \in ColumnSets /\ None \in Optional(Queries)
        /\ None \in Optional(BOOLEAN) /\ None \in Optional(Results)
        /\ None \in Optional(Answers) /\ {} \in SUBSET Codes
        /\ "ready" \in Optional(Decisions)
    BY DEF Optional, ColumnSets, Decisions
  <2>. HIDE DEF r
  <2>5. st' = [st EXCEPT
                  !.proposal = r, !.columns = {}, !.sql = None,
                  !.passed = None, !.result = None, !.answer = None,
                  !.plan_revision = st.plan_revision + 1,
                  !.repair_attempts = st.repair_attempts + 1,
                  !.reason_codes = {}, !.decision = "ready"]
    BY <1>4 DEF r, TypeInv, TypeOK, GraphState
  <2>6. st' \in GraphState /\ st'.proposal = r /\ st'.decision = "ready"
    BY <2>2, <2>3, <2>4, <2>5 DEF TypeInv, TypeOK, GraphState
  <2>7. pc' = "bind_compile" BY <1>1, <2>6 DEF Goto, Targets, Edges
  <2>. QED BY <1>1, <2>2, <2>6, <2>7, CountedNat DEF Node, TypeInv, TypeOK, Shape, Nodes
<1>. QED BY <1>2, <1>3, <1>4 DEF Repair

LEMMA BindCompileType == ASSUME TypeInv, BindCompile PROVE TypeInv'
<1>1. /\ Node("bind_compile") /\ Goto("bind_compile", st'.decision) /\ payload = None
      /\ UNCHANGED <<payload, history>>
      /\ st.proposal \in Requests /\ st.proposal # None
  BY DEF BindCompile, Node, TypeInv, TypeOK, Shape, GraphState, Optional
<1>2. CASE BindRaises
  <2>1. RaisedCodes(st.proposal) \subseteq Codes
    BY DEF RaisedCodes, BindFinding, Codes, RepairableCodes
  <2>2. PICK code \in RaisedCodes(st.proposal) : st' = BindFailed({code})
    BY <1>2 DEF BindRaises
  <2>3. {code} \in SUBSET Codes BY <2>1
  <2>4. st' \in GraphState BY <1>1, <2>2, <2>3, BindFailedType DEF TypeInv, TypeOK
  <2>5. st'.proposal = st.proposal /\ st'.decision = Verdict({code})
    BY <2>2 DEF BindFailed, TypeInv, TypeOK, GraphState
  <2>6. pc' \in {"repair", "stop"}
    BY <1>1, <2>5 DEF Verdict, Goto, Targets, Edges
  <2>. QED BY <1>1, <1>2, <2>4, <2>5, <2>6, CountedNat
       DEF BindRaises, Node, TypeInv, TypeOK, Shape, Nodes
<1>3. CASE ValidationFails
  <2>1. PICK codes \in ReportedCodes :
          st' = [BindFailed(codes) EXCEPT !.sql = Compiled(st.proposal),
                                          !.passed = FALSE]
    BY <1>3 DEF ValidationFails
  <2>2. codes \in SUBSET Codes BY DEF ReportedCodes, Codes
  <2>3. BindFailed(codes) \in GraphState BY <1>1, <2>2, BindFailedType DEF TypeInv, TypeOK
  <2>4. Compiled(st.proposal) \in Optional(Queries) /\ FALSE \in Optional(BOOLEAN)
    BY <1>1, BindReadyType DEF TypeInv, TypeOK, Optional
  <2>5. st' \in GraphState BY <2>1, <2>3, <2>4 DEF GraphState
  <2>6. st'.proposal = st.proposal /\ st'.decision = Verdict(codes)
    BY <2>1 DEF BindFailed, TypeInv, TypeOK, GraphState
  <2>7. pc' \in {"repair", "stop"}
    BY <1>1, <2>6 DEF Verdict, Goto, Targets, Edges
  <2>. QED BY <1>1, <1>3, <2>5, <2>6, <2>7, CountedNat
       DEF ValidationFails, Node, TypeInv, TypeOK, Shape, Nodes
<1>4. CASE ValidationPasses
  <2>1. st' = BindReady(TRUE) /\ ctx' = Stored BY <1>4 DEF ValidationPasses
  <2>2. st' \in GraphState BY <1>1, <2>1, BindReadyType DEF TypeInv, TypeOK
  <2>3. st'.proposal = st.proposal /\ st'.decision = "ready"
    BY <2>1 DEF BindReady, TypeInv, TypeOK, GraphState
  <2>4. pc' = "execute" BY <1>1, <2>3 DEF Goto, Targets, Edges
  <2>5. ctx' \in Contexts
    <3>1. ctx \in Contexts BY <1>1 DEF Node, Nodes, TypeInv, Shape
    <3>. QED BY <1>1, <2>1, <3>1 DEF Stored, Contexts, Artifacts, TypeInv, TypeOK, GraphState
  <2>. QED BY <1>1, <2>2, <2>3, <2>4, <2>5, CountedNat DEF Node, TypeInv, TypeOK, Shape, Nodes
<1>. QED BY <1>2, <1>3, <1>4 DEF BindCompile

LEMMA LeavingType ==
  ASSUME TypeInv, NEW n \in {"execute", "definition", "metadata", "stop"},
         Node(n), st' \in GraphState, st'.proposal = st.proposal,
         pc' \in {"end", "stop"}, Leave, UNCHANGED history
  PROVE  TypeInv'
BY CountedNat DEF Node, Leave, TypeInv, TypeOK, Shape, Nodes, Resting

LEMMA ExecuteType == ASSUME TypeInv, Execute PROVE TypeInv'
<1>1. /\ Node("execute") /\ Leave /\ UNCHANGED history
      /\ Goto("execute", st'.decision)
  BY DEF Execute
<1>2. CASE ExecutionFails
  <2>1. \E codes \in SUBSET Codes : st' = Blocked(codes)
    BY <1>2 DEF ExecutionFails, Codes, RepairableCodes
  <2>2. st' \in GraphState /\ st'.decision = "blocked" /\ st'.proposal = st.proposal
    BY <2>1, BlockedType DEF TypeInv, TypeOK
  <2>3. pc' = "stop" BY <1>1, <2>2 DEF Goto, Targets, Edges
  <2>. QED BY <1>1, <2>2, <2>3, LeavingType
<1>3. CASE ExecutionAnswers
  <2>1. PICK a \in ctx.artifacts :
          st' = [st EXCEPT !.decision = "answered", !.answer = "answered",
                           !.result = Result(a)]
    BY <1>3 DEF ExecutionAnswers
  <2>2. a \in Artifacts
    BY <1>1 DEF Node, Nodes, TypeInv, Shape, Contexts
  <2>3. Result(a) \in Optional(Results)
    BY <2>2 DEF Result, Results, Artifacts, Optional, TypeInv, TypeOK, Policies
  <2>4. "answered" \in Optional(Decisions) /\ "answered" \in Optional(Answers)
    BY DEF Optional, Decisions, Answers
  <2>5. st' \in GraphState /\ st'.decision = "answered" /\ st'.proposal = st.proposal
    BY <2>1, <2>3, <2>4 DEF TypeInv, TypeOK, GraphState
  <2>6. pc' = "end" BY <1>1, <2>5 DEF Goto, Targets, Edges
  <2>. QED BY <1>1, <2>5, <2>6, LeavingType
<1>. QED BY <1>2, <1>3 DEF Execute

LEMMA CatalogAnswerType ==
  ASSUME TypeInv, DefinitionAnswer \/ MetadataAnswer
  PROVE  TypeInv'
<1>1. PICK n \in {"definition", "metadata"} :
        /\ Node(n) /\ Leave /\ UNCHANGED history /\ Goto(n, st'.decision)
        /\ \/ st' = [st EXCEPT !.decision = "answered", !.answer = "answered"]
           \/ \E codes \in SUBSET Codes : st' = Blocked(codes)
  BY DEF DefinitionAnswer, MetadataAnswer, Codes
<1>2. CASE st' = [st EXCEPT !.decision = "answered", !.answer = "answered"]
  <2>1. st' \in GraphState /\ st'.decision = "answered" /\ st'.proposal = st.proposal
    BY <1>2, AnsweredType DEF TypeInv, TypeOK, Decisions, Answers
  <2>2. pc' = "end" BY <1>1, <2>1 DEF Goto, Targets, Edges
  <2>. QED BY <1>1, <2>1, <2>2, LeavingType
<1>3. CASE \E codes \in SUBSET Codes : st' = Blocked(codes)
  <2>1. st' \in GraphState /\ st'.decision = "blocked" /\ st'.proposal = st.proposal
    BY <1>3, BlockedType DEF TypeInv, TypeOK
  <2>2. pc' = "stop" BY <1>1, <2>1 DEF Goto, Targets, Edges
  <2>. QED BY <1>1, <2>1, <2>2, LeavingType
<1>. QED BY <1>1, <1>2, <1>3

LEMMA StopType == ASSUME TypeInv, Stop PROVE TypeInv'
<1>. DEFINE a == IF st.decision = "denied" THEN "denied"
                 ELSE IF st.route \in {"unsupported", "clarify"} THEN st.route
                 ELSE "unavailable"
<1>1. a \in Optional(Answers) BY DEF Answers, Optional
<1>2. st' = [st EXCEPT !.answer = a] BY DEF Stop
<1>. HIDE DEF a
<1>3. st' \in GraphState /\ st'.proposal = st.proposal
  BY <1>1, <1>2 DEF TypeInv, TypeOK, GraphState
<1>. QED BY <1>3, LeavingType DEF Stop

\* Every step keeps the type invariant.
LEMMA StepType == TypeInv /\ [Next]_vars => TypeInv'
<1>1. TypeInv /\ UNCHANGED vars => TypeInv'
  BY DEF vars, TypeInv, TypeOK, Shape
<1>2. TypeInv /\ NodeStep => TypeInv'
  BY AdmitType, UnderstandType, RetrieveType, ExpandType, ProposePlanType,
     ClarifyType, RepairType, BindCompileType, ExecuteType, CatalogAnswerType,
     StopType
  DEF NodeStep
<1>. QED BY <1>1, <1>2, CallerType DEF Next

\* Whatever the proposer, the index, the policy and the user answer, the channels
\* of GraphState hold what state.py declares, and no node reads a channel that
\* is still empty.
THEOREM TypeCorrect == Spec => []TypeOK
<1>1. Spec => []TypeInv BY InitType, StepType, PTL DEF Spec
<1>2. TypeInv => TypeOK BY DEF TypeInv
<1>. QED BY <1>1, <1>2, PTL

-----------------------------------------------------------------------------
(* The dialogue and its results.                                             *)

\* No slot is counted twice, and the slot in question is not counted yet.
AskedOnce ==
  /\ \A s \in Slots : st.clarified_slots[s] <= 1
  /\ pc \in {"clarify", "suspended"} =>
       st.clarified_slots[st.clarification.slot] = 0

\* The proposal in hand is the one the user and the proposer meant, and once the
\* user has chosen anything it is settled: propose never replaces it.
ProposalFaithful ==
  /\ st.proposal # None =>
       SameMeaning(st.proposal, history.meant) /\ Honours(st.proposal, history.chosen)
  /\ history.chosen # NothingChosen =>
       st.clarification_answer # None /\ st.proposal # None

\* What execute is handed, and what it leaves behind.
ReadyToRun ==
  pc = "execute" =>
    /\ st.passed = TRUE /\ st.sql = Compiled(st.proposal)
    /\ \A a \in ctx.artifacts : Current(a) => a.request = st.proposal

ResultFaithful ==
  st.result # None =>
    /\ pc = "end" /\ st.answer = "answered" /\ st.passed = TRUE
    /\ st.result.request = st.proposal /\ st.result.revision = st.plan_revision
    /\ st.sql = Compiled(st.proposal)

Inv == TypeInv /\ AskedOnce /\ ProposalFaithful /\ ReadyToRun /\ ResultFaithful

-----------------------------------------------------------------------------
(* Steps that decide something and leave the dialogue alone.                 *)

\* The channels the invariant speaks of.
Kept ==
  /\ st'.proposal = st.proposal /\ st'.clarification = st.clarification
  /\ st'.clarification_answer = st.clarification_answer
  /\ st'.clarified_slots = st.clarified_slots /\ st'.result = st.result
  /\ UNCHANGED history

LEMMA QuietStep ==
  ASSUME Inv, TypeInv', pc \in Nodes, Kept,
         pc' \notin {"clarify", "suspended", "execute"}
  PROVE  Inv'
<1>1. AskedOnce' BY DEF Inv, AskedOnce, Kept
<1>2. ProposalFaithful' BY DEF Inv, ProposalFaithful, Kept
<1>3. ReadyToRun' BY DEF ReadyToRun
<1>4. st.result = None BY DEF Inv, ResultFaithful, Nodes
<1>5. ResultFaithful' BY <1>4 DEF ResultFaithful, Kept
<1>. QED BY <1>1, <1>2, <1>3, <1>5 DEF Inv

LEMMA UpdateKeeps ==
  ASSUME st \in GraphState, UNCHANGED history,
         \/ \E codes : st' = Blocked(codes)
         \/ \E d : st' = [st EXCEPT !.decision = d]
         \/ \E d, a : st' = [st EXCEPT !.decision = d, !.answer = a]
         \/ \E codes : st' = [Blocked(codes) EXCEPT !.decision = "denied"]
         \/ \E codes : st' = [Blocked(codes) EXCEPT !.route = "unsupported"]
         \/ \E r, e : st' = [st EXCEPT !.route = r, !.exact_metric_refs = e]
         \/ \E c, d : st' = Found(c, d)
         \/ \E codes : st' = BindFailed(codes)
         \/ \E codes, q : st' = [BindFailed(codes) EXCEPT !.sql = q, !.passed = FALSE]
         \/ \E a : st' = [st EXCEPT !.answer = a]
  PROVE  Kept
BY DEF Kept, GraphState, Blocked, Found, BindFailed

LEMMA QuietNodes ==
  ASSUME Inv, TypeInv',
         \/ Admit \/ Understand \/ Retrieve \/ Expand
         \/ DefinitionAnswer \/ MetadataAnswer \/ Stop
  PROVE  Inv'
<1>. st \in GraphState BY DEF Inv, TypeInv, TypeOK
<1>1. CASE Admit
  <2>. /\ UNCHANGED history
       /\ \/ st' = [st EXCEPT !.decision = "allowed"]
          \/ st' = [Blocked({"NOT_AUTHORIZED"}) EXCEPT !.decision = "denied"]
    BY <1>1 DEF Admit, Blocked, GraphState
  <2>1. Kept BY UpdateKeeps
  <2>2. pc' \notin {"clarify", "suspended", "execute"}
    BY <1>1 DEF Admit, Goto, Targets, Edges
  <2>. QED BY <1>1, <2>1, <2>2, QuietStep DEF Admit, Node, Nodes
<1>2. CASE Understand
  <2>1. Kept BY <1>2, UpdateKeeps DEF Understand
  <2>. Goto("understand", st'.route) BY <1>2 DEF Understand
  <2>2. pc' \notin {"clarify", "suspended", "execute"}
    BY DEF Goto, Targets, Edges
  <2>. QED BY <1>2, <2>1, <2>2, QuietStep DEF Understand, Node, Nodes
<1>3. CASE Retrieve
  <2>1. Kept BY <1>3, UpdateKeeps DEF Retrieve
  <2>2. pc' \notin {"clarify", "suspended", "execute"}
    BY <1>3 DEF Retrieve, Goto, Targets, Edges
  <2>. QED BY <1>3, <2>1, <2>2, QuietStep DEF Retrieve, Node, Nodes
<1>4. CASE Expand
  <2>1. Kept BY <1>4, UpdateKeeps DEF Expand
  <2>2. pc' \notin {"clarify", "suspended", "execute"}
    BY <1>4 DEF Expand, Goto, Targets, Edges
  <2>. QED BY <1>4, <2>1, <2>2, QuietStep DEF Expand, Node, Nodes
<1>5. CASE DefinitionAnswer
  <2>1. Kept BY <1>5, UpdateKeeps DEF DefinitionAnswer
  <2>2. pc' \notin {"clarify", "suspended", "execute"}
    BY <1>5 DEF DefinitionAnswer, Goto, Targets, Edges
  <2>. QED BY <1>5, <2>1, <2>2, QuietStep DEF DefinitionAnswer, Node, Nodes
<1>6. CASE MetadataAnswer
  <2>1. Kept BY <1>6, UpdateKeeps DEF MetadataAnswer
  <2>2. pc' \notin {"clarify", "suspended", "execute"}
    BY <1>6 DEF MetadataAnswer, Goto, Targets, Edges
  <2>. QED BY <1>6, <2>1, <2>2, QuietStep DEF MetadataAnswer, Node, Nodes
<1>7. CASE Stop
  <2>1. Kept BY <1>7, UpdateKeeps DEF Stop
  <2>. QED BY <1>7, <2>1, QuietStep DEF Stop, Node, Nodes
<1>. QED BY <1>1, <1>2, <1>3, <1>4, <1>5, <1>6, <1>7

-----------------------------------------------------------------------------
(* The dialogue.                                                             *)

LEMMA CallerSafe ==
  ASSUME Inv, TypeInv', Ask \/ Resume \/ Raise \/ PolicyChange
  PROVE  Inv'
<1>1. CASE Ask
  BY <1>1 DEF Ask, Inv, AskedOnce, ProposalFaithful, ReadyToRun, ResultFaithful, Compiled
<1>2. CASE Resume
  BY <1>2 DEF Resume, Inv, AskedOnce, ProposalFaithful, ReadyToRun, ResultFaithful, Compiled
<1>3. CASE Raise
  BY <1>3
       DEF Raise, Inv, AskedOnce, ProposalFaithful, ReadyToRun, ResultFaithful, Compiled, Nodes
<1>4. CASE PolicyChange
  BY <1>4 DEF PolicyChange, Inv, AskedOnce, ProposalFaithful, ReadyToRun, ResultFaithful,
     Compiled, Current
<1>. QED BY <1>1, <1>2, <1>3, <1>4

\* A question detected for a slot is for one the user has not answered.
LEMMA DetectFresh ==
  ASSUME NEW r, NEW cands, NEW exact, NEW asked, NEW menu,
         Detect(r, cands, exact, asked, menu) # None
  PROVE  /\ Detect(r, cands, exact, asked, menu).slot \notin asked
         /\ Detect(r, cands, exact, asked, menu).slot \in Slots
BY DEF Detect, Slots

LEMMA ProposePlanSafe == ASSUME Inv, TypeInv', ProposePlan PROVE Inv'
<1>. st \in GraphState BY DEF Inv, TypeInv, TypeOK
<1>1. /\ Node("propose") /\ Continue /\ Goto("propose", st'.decision)
      /\ st.result = None
  BY DEF ProposePlan, Inv, ResultFaithful, Node
<1>2. ASSUME NEW r \in Requests, Proposed(r),
             history'.chosen = history.chosen,
             SameMeaning(r, history'.meant), Honours(r, history.chosen),
             history.chosen # NothingChosen => st.clarification_answer # None
      PROVE  Inv'
  <2>1. PICK menu \in Shortlists(st.candidates) :
          st' = ProposeWith(r, Detect(r, st.candidates, st.exact_metric_refs, Asked, menu))
    BY <1>2 DEF Proposed
  <2>. DEFINE q == Detect(r, st.candidates, st.exact_metric_refs, Asked, menu)
  <2>2. q # None => q.slot \in Slots /\ q.slot \notin Asked BY DetectFresh
  <2>3. st' = ProposeWith(r, q) BY <2>1
  <2>. HIDE DEF q
  <2>4. /\ st'.proposal = r /\ st'.clarification = q
        /\ st'.clarified_slots = st.clarified_slots
        /\ st'.clarification_answer = st.clarification_answer
        /\ st'.result = None
        /\ st'.decision = IF q = None THEN "ready" ELSE "clarify"
    BY <1>1, <2>3 DEF ProposeWith, GraphState
  <2>5. \/ pc' = "clarify" /\ q # None
        \/ pc' = "bind_compile"
    BY <1>1, <2>4 DEF Goto, Targets, Edges
  <2>6. AskedOnce'
    <3>1. st.clarified_slots \in [Slots -> Nat] BY DEF GraphState, AskedCounts
    <3>2. q # None => st.clarified_slots[q.slot] = 0
      BY <2>2, <3>1 DEF Asked
    <3>. QED BY <2>4, <2>5, <3>2 DEF Inv, AskedOnce
  <2>7. r # None BY <1>2, RequestAssumption
  <2>8. ProposalFaithful' BY <1>2, <2>4, <2>7 DEF ProposalFaithful
  <2>9. ReadyToRun' BY <2>5 DEF ReadyToRun
  <2>10. ResultFaithful' BY <2>4 DEF ResultFaithful
  <2>. QED BY <2>6, <2>8, <2>9, <2>10 DEF Inv
<1>3. CASE Settled /\ Proposed(st.proposal) /\ UNCHANGED history
  <2>1. st.proposal # None /\ st.clarification_answer # None /\ st.proposal \in Requests
    BY <1>3 DEF Settled, GraphState, Optional
  <2>. QED BY <1>2, <1>3, <2>1 DEF Inv, ProposalFaithful
<1>4. CASE ~Settled /\ \E r \in Proposals :
             Proposed(r) /\ history' = [history EXCEPT !.meant = r]
  <2>1. PICK r \in Proposals :
          Proposed(r) /\ history' = [history EXCEPT !.meant = r]
    BY <1>4
  <2>2. r \in Requests BY RequestAssumption
  <2>3. history.chosen = NothingChosen BY <1>4 DEF Settled, Inv, ProposalFaithful
  <2>4. history'.chosen = history.chosen /\ history'.meant = r
    BY <2>1 DEF Inv, TypeInv, TypeOK, Histories
  <2>5. Honours(r, history.chosen) BY <2>3 DEF Honours, NothingChosen, Slots
  <2>6. SameMeaning(r, history'.meant) BY <2>4 DEF SameMeaning
  <2>. QED BY <1>2, <2>1, <2>2, <2>3, <2>4, <2>5, <2>6
<1>5. CASE /\ UNCHANGED history
           /\ \/ st' = [st EXCEPT !.decision = "expand"]
              \/ \E codes : st' = Blocked(codes)
  <2>1. Kept BY <1>5, UpdateKeeps
  <2>2. st'.decision \in {"expand", "blocked"} BY <1>5 DEF GraphState, Blocked
  <2>3. pc' \notin {"clarify", "suspended", "execute"}
    BY <1>1, <2>2 DEF Goto, Targets, Edges
  <2>. QED BY <1>1, <2>1, <2>3, QuietStep DEF Node, Nodes
<1>. QED BY <1>3, <1>4, <1>5 DEF ProposePlan

LEMMA ClarifySafe ==
  ASSUME Inv, TypeInv', ClarifyInterrupt \/ ClarifyAnswer
  PROVE  Inv'
<1>. st \in GraphState BY DEF Inv, TypeInv, TypeOK
<1>1. CASE ClarifyInterrupt
  BY <1>1 DEF ClarifyInterrupt, Node, Inv, AskedOnce, ProposalFaithful, ReadyToRun,
     ResultFaithful
<1>2. CASE ClarifyAnswer /\ Offered(payload)
  <2>. DEFINE slot == payload.slot
              value == payload.value
              settled == ApplyAnswer(st.proposal, slot, value)
              intended == ApplyAnswer(history.meant, slot, value)
  <2>1. /\ st.proposal \in Requests /\ st.proposal # None
        /\ history.meant \in Requests /\ payload \in Payloads /\ payload # None
        /\ st.result = None
    BY <1>2, RequestAssumption DEF ClarifyAnswer, Node, Inv, ResultFaithful, TypeInv, TypeOK,
       Shape, GraphState, Histories, Optional
  <2>2. slot \in Slots /\ slot = st.clarification.slot
    BY <1>2, <2>1 DEF Offered, Payloads
  <2>3. /\ st' = [st EXCEPT !.proposal = settled, !.clarification = None,
                            !.clarification_answer = payload,
                            !.clarified_slots[slot] = @ + 1, !.decision = "resumed"]
        /\ history' = [history EXCEPT !.chosen[slot] = value, !.meant = intended]
        /\ Node("clarify") /\ Goto("clarify", st'.decision)
    BY <1>2 DEF ClarifyAnswer
  <2>4. /\ SameMeaning(st.proposal, history.meant)
        /\ Honours(st.proposal, history.chosen)
    BY <2>1 DEF Inv, ProposalFaithful
  <2>5. SameMeaning(settled, intended)
    BY <2>1, <2>2, <2>4 DEF SameMeaning, ApplyAnswer, Slots, Requests
  <2>6. history.chosen \in [Slots -> Optional(Values)]
    BY DEF Inv, TypeInv, TypeOK, Histories
  <2>7. Honours(settled, [history.chosen EXCEPT ![slot] = value])
    BY <2>1, <2>2, <2>4, <2>6 DEF Honours, ApplyAnswer, Slots, Requests
  <2>8. settled \in Requests
    <3>1. st.clarification \in Questions
      BY <1>2, <2>1 DEF ClarifyAnswer, Node, Inv, TypeInv, Shape, GraphState, Optional
    <3>2. value \in Choices(slot) BY <1>2, <2>2, <3>1 DEF Offered, Questions
    <3>. QED BY <2>1, <2>2, <3>2, ApplyAnswerType
  <2>9. settled # None BY <2>8, RequestAssumption
  <2>. HIDE DEF slot, value, settled, intended
  <2>10. /\ st'.proposal = settled /\ st'.clarification_answer = payload
         /\ st'.clarified_slots = [st.clarified_slots EXCEPT ![slot] = @ + 1]
         /\ st'.result = None /\ st'.decision = "resumed"
         /\ history'.chosen = [history.chosen EXCEPT ![slot] = value]
         /\ history'.meant = intended
    BY <2>1, <2>3 DEF GraphState, Inv, TypeInv, TypeOK, Histories
  <2>11. pc' = "admit" BY <2>3, <2>10 DEF Goto, Targets, Edges
  <2>12. AskedOnce'
    <3>1. st.clarified_slots \in [Slots -> Nat] BY DEF GraphState, AskedCounts
    <3>2. st.clarified_slots[slot] = 0 BY <2>2, <2>3 DEF Inv, AskedOnce, Node
    <3>3. \A s \in Slots : st'.clarified_slots[s] <= 1
      BY <2>10, <3>1, <3>2 DEF Inv, AskedOnce
    <3>. QED BY <2>11, <3>3 DEF AskedOnce
  <2>13. ProposalFaithful'
    BY <2>1, <2>5, <2>7, <2>9, <2>10 DEF ProposalFaithful
  <2>. QED BY <2>10, <2>11, <2>12, <2>13 DEF Inv, ReadyToRun, ResultFaithful
<1>3. CASE ClarifyAnswer /\ ~Offered(payload)
  <2>1. /\ UNCHANGED history /\ \E codes : st' = Blocked(codes)
        /\ Node("clarify") /\ Goto("clarify", st'.decision)
    BY <1>3 DEF ClarifyAnswer
  <2>2. Kept BY <2>1, UpdateKeeps
  <2>3. st'.decision = "blocked" BY <2>1 DEF GraphState, Blocked
  <2>4. pc' = "stop" BY <2>1, <2>3 DEF Goto, Targets, Edges
  <2>. QED BY <2>1, <2>2, <2>4, QuietStep DEF Node, Nodes
<1>. QED BY <1>1, <1>2, <1>3

-----------------------------------------------------------------------------
(* From the binder to the result.                                            *)

LEMMA RepairSafe == ASSUME Inv, TypeInv', Repair PROVE Inv'
<1>. st \in GraphState BY DEF Inv, TypeInv, TypeOK
<1>1. /\ Node("repair") /\ Goto("repair", st'.decision) /\ UNCHANGED history
      /\ st.proposal # None
  BY DEF Repair, Node, Inv, TypeInv, Shape
<1>2. pc' \in {"bind_compile", "stop"} BY <1>1 DEF Goto, Targets, Edges
<1>3. CASE \/ st' = Blocked({"BUDGET_EXHAUSTED"})
           \/ st' = [st EXCEPT !.decision = "blocked"]
  <2>1. Kept BY <1>1, <1>3, UpdateKeeps
  <2>. QED BY <1>1, <1>2, <2>1, QuietStep DEF Node, Nodes
<1>4. CASE st' = [st EXCEPT
                  !.proposal = Repaired(@), !.columns = {}, !.sql = None,
                  !.passed = None, !.result = None, !.answer = None,
                  !.plan_revision = @ + 1, !.repair_attempts = @ + 1,
                  !.reason_codes = {}, !.decision = "ready"]
  <2>1. /\ st'.proposal = Repaired(st.proposal) /\ st'.result = None
        /\ st'.clarified_slots = st.clarified_slots
        /\ st'.clarification_answer = st.clarification_answer
    BY <1>4 DEF GraphState
  <2>2. st'.proposal # None BY <1>2, <1>1, <2>1, RequestAssumption
    DEF Repaired, Requests, Inv, TypeInv, TypeOK, GraphState, Optional
  <2>3. /\ SameMeaning(st.proposal, history.meant) /\ Honours(st.proposal, history.chosen)
        /\ st.proposal \in Requests
    BY <1>1 DEF Inv, ProposalFaithful, TypeInv, TypeOK, GraphState, Optional
  <2>4. /\ SameMeaning(st'.proposal, history.meant)
        /\ Honours(st'.proposal, history.chosen)
    BY <2>1, <2>3 DEF SameMeaning, Honours, Repaired, Requests
  <2>5. ProposalFaithful' BY <1>1, <2>1, <2>2, <2>4 DEF Inv, ProposalFaithful
  <2>6. AskedOnce' BY <1>2, <2>1 DEF Inv, AskedOnce
  <2>. QED BY <1>2, <2>1, <2>5, <2>6 DEF Inv, ReadyToRun, ResultFaithful
<1>. QED BY <1>3, <1>4 DEF Repair

LEMMA BindCompileSafe == ASSUME Inv, TypeInv', BindCompile PROVE Inv'
<1>. st \in GraphState /\ ctx \in Contexts
  BY DEF Inv, TypeInv, TypeOK, Shape, BindCompile, Node, Nodes
<1>1. /\ Node("bind_compile") /\ Goto("bind_compile", st'.decision)
      /\ UNCHANGED history /\ st.result = None
  BY DEF BindCompile, Node, Inv, ResultFaithful
<1>2. CASE BindRaises \/ ValidationFails
  <2>1. Kept BY <1>1, <1>2, UpdateKeeps DEF BindRaises, ValidationFails
  <2>2. PICK codes : \/ st' = BindFailed(codes)
                     \/ st' = [BindFailed(codes) EXCEPT
                                  !.sql = Compiled(st.proposal), !.passed = FALSE]
    BY <1>2 DEF BindRaises, ValidationFails
  <2>. st'.decision = Verdict(codes) BY <2>2 DEF BindFailed, GraphState
  <2>3. pc' \in {"repair", "stop"} BY <1>1 DEF Verdict, Goto, Targets, Edges
  <2>. QED BY <1>1, <2>1, <2>3, QuietStep DEF Node, Nodes
<1>3. CASE ValidationPasses
  <2>1. st' = BindReady(TRUE) /\ ctx' = Stored BY <1>3 DEF ValidationPasses
  <2>2. /\ Kept /\ st'.passed = TRUE /\ st'.sql = Compiled(st.proposal)
        /\ st'.decision = "ready" /\ st'.plan_revision = st.plan_revision
    BY <1>1, <2>1 DEF BindReady, Kept, GraphState
  <2>3. pc' = "execute" BY <1>1, <2>2 DEF Goto, Targets, Edges
  <2>4. \A a \in ctx'.artifacts :
           a.revision = st.plan_revision => a.request = st.proposal
    BY <2>1 DEF Stored, Contexts, Artifacts, GraphState
  <2>5. ReadyToRun' BY <2>2, <2>4 DEF ReadyToRun, Kept, Current, Compiled
  <2>6. AskedOnce' BY <2>2, <2>3 DEF Inv, AskedOnce, Kept
  <2>7. ProposalFaithful' BY <2>2 DEF Inv, ProposalFaithful, Kept
  <2>8. ResultFaithful' BY <1>1, <2>2 DEF ResultFaithful, Kept
  <2>. QED BY <2>5, <2>6, <2>7, <2>8 DEF Inv
<1>. QED BY <1>2, <1>3 DEF BindCompile

LEMMA ExecuteSafe == ASSUME Inv, TypeInv', Execute PROVE Inv'
<1>. st \in GraphState BY DEF Inv, TypeInv, TypeOK
<1>1. /\ Node("execute") /\ UNCHANGED history /\ Goto("execute", st'.decision)
      /\ pc' \in {"end", "stop"}
  BY DEF Execute, Goto, Targets, Edges
<1>2. CASE ExecutionFails
  <2>1. Kept BY <1>1, <1>2, UpdateKeeps DEF ExecutionFails
  <2>. QED BY <1>1, <2>1, QuietStep DEF Node, Nodes
<1>3. CASE ExecutionAnswers
  <2>1. PICK a \in ctx.artifacts :
          /\ Current(a)
          /\ st' = [st EXCEPT !.decision = "answered", !.answer = "answered",
                              !.result = Result(a)]
    BY <1>3 DEF ExecutionAnswers
  <2>2. /\ st'.proposal = st.proposal /\ st'.clarified_slots = st.clarified_slots
        /\ st'.clarification_answer = st.clarification_answer
        /\ st'.sql = st.sql /\ st'.passed = st.passed
        /\ st'.plan_revision = st.plan_revision
        /\ st'.answer = "answered" /\ st'.decision = "answered" /\ st'.result = Result(a)
    BY <2>1 DEF GraphState
  <2>3. pc' = "end" BY <1>1, <2>2 DEF Goto, Targets, Edges
  <2>4. /\ a.request = st.proposal /\ a.revision = st.plan_revision
        /\ st.passed = TRUE /\ st.sql = Compiled(st.proposal)
    BY <1>1, <2>1 DEF Inv, ReadyToRun, Node, Current
  <2>5. ResultFaithful'
    BY <2>2, <2>3, <2>4 DEF ResultFaithful, Result, Compiled
  <2>6. AskedOnce' BY <2>2, <2>3 DEF Inv, AskedOnce
  <2>7. ProposalFaithful' BY <1>1, <2>2 DEF Inv, ProposalFaithful
  <2>8. ReadyToRun' BY <2>3 DEF ReadyToRun
  <2>. QED BY <2>5, <2>6, <2>7, <2>8 DEF Inv
<1>. QED BY <1>2, <1>3 DEF Execute

-----------------------------------------------------------------------------
LEMMA InvInit == Init => Inv
<1>. SUFFICES ASSUME Init PROVE Inv
  OBVIOUS
<1>1. TypeInv BY InitType
<1>2. AskedOnce BY DEF Init, AskedOnce
<1>. QED BY <1>1, <1>2 DEF Init, Inv, ProposalFaithful, ReadyToRun, ResultFaithful

LEMMA InvStep == Inv /\ [Next]_vars => Inv'
<1>. SUFFICES ASSUME Inv, [Next]_vars PROVE Inv'
  OBVIOUS
<1>1. TypeInv' BY StepType DEF Inv
<1>2. CASE UNCHANGED vars
  BY <1>1, <1>2 DEF vars, Inv, AskedOnce, ProposalFaithful, ReadyToRun, ResultFaithful,
     Compiled, Current
<1>3. CASE NodeStep
  BY <1>1, <1>3, QuietNodes, ProposePlanSafe, ClarifySafe, RepairSafe, BindCompileSafe,
     ExecuteSafe
  DEF NodeStep
<1>. QED BY <1>1, <1>2, <1>3, CallerSafe DEF Next

LEMMA InvAlways == Spec => []Inv
BY InvInit, InvStep, PTL DEF Spec

\* Whatever understanding and retrieval answer after a resume, no slot is asked
\* about twice in one dialogue.
THEOREM AskedTwiceNever == Spec => []NoSlotAskedTwice
<1>1. Inv => NoSlotAskedTwice BY DEF Inv, AskedOnce, NoSlotAskedTwice
<1>. QED BY <1>1, InvAlways, PTL

\* A result answers the clarified question: every slot is what the user chose.
THEOREM ChoicesHonoured == Spec => []SettledSlotsHonoured
<1>1. Inv => SettledSlotsHonoured
  BY RequestAssumption DEF Inv, TypeInv, TypeOK, Results, GraphState, Optional,
     ResultFaithful, ProposalFaithful, SettledSlotsHonoured
<1>. QED BY <1>1, InvAlways, PTL

\* A result measures what was proposed and clarified, sort keys aside.
THEOREM MeaningKept == Spec => []MeaningPreserved
<1>1. Inv => MeaningPreserved
  BY RequestAssumption DEF Inv, TypeInv, TypeOK, Shape, Results, GraphState, Optional,
     ResultFaithful, ProposalFaithful, MeaningPreserved
<1>. QED BY <1>1, InvAlways, PTL

\* Only the validated artifact of the current revision releases rows.
THEOREM OnlyValidatedReleased == Spec => []ReleasedWasValidated
<1>1. Inv => ReleasedWasValidated
  BY DEF Inv, ResultFaithful, ReleasedWasValidated, Compiled
<1>. QED BY <1>1, InvAlways, PTL

\* A refusal, and a suspended thread, carry no rows.
THEOREM RefusalsEmpty == Spec => []RefusalReleasesNothing
<1>1. Inv => RefusalReleasesNothing
  BY DEF Inv, ResultFaithful, RefusalReleasesNothing
<1>. QED BY <1>1, InvAlways, PTL

-----------------------------------------------------------------------------
(***************************************************************************)
(* Every invocation of the workflow is short, for every value of the two    *)
(* budgets: a bound on the steps left, which every node decreases.          *)
(***************************************************************************)
RepairsLeft ==
  IF st.repair_attempts < MaxRepairAttempts
    THEN MaxRepairAttempts - st.repair_attempts ELSE 0

\* Retrievals that may still be followed by an expansion.
RoundsLeft ==
  IF st.retrieval_rounds < MaxRetrievalRounds + 1
    THEN MaxRetrievalRounds + 1 - st.retrieval_rounds ELSE 0

\* The longest way from a node to the end of the invocation.
StepsLeft ==
  IF pc = "clarify" THEN IF payload = None THEN 1 ELSE InvocationBound
  ELSE IF pc = "admit" THEN InvocationBound - 1
  ELSE IF pc = "understand" THEN InvocationBound - 2
  ELSE IF pc = "retrieve" THEN
    5 + 2 * RepairsLeft + (IF RoundsLeft = 0 THEN 0 ELSE 3 * (RoundsLeft - 1))
  ELSE IF pc = "propose" THEN 4 + 2 * RepairsLeft + 3 * RoundsLeft
  ELSE IF pc = "expand" THEN 3 + 2 * RepairsLeft + 3 * RoundsLeft
  ELSE IF pc = "bind_compile" THEN 3 + 2 * RepairsLeft
  ELSE IF pc = "repair" THEN 2 + 2 * RepairsLeft
  ELSE IF pc \in {"execute", "definition", "metadata"} THEN 2
  ELSE IF pc = "stop" THEN 1
  ELSE 0

Bounded ==
  /\ TypeInv
  /\ steps + StepsLeft <= InvocationBound
  /\ pc = "idle" => steps = 0

LEMMA CountersNat ==
  ASSUME TypeInv
  PROVE  /\ RepairsLeft \in Nat /\ RoundsLeft \in Nat
         /\ RepairsLeft <= MaxRepairAttempts /\ RoundsLeft <= MaxRetrievalRounds + 1
         /\ InvocationBound \in Nat
         /\ InvocationBound = 8 + 3 * MaxRetrievalRounds + 2 * MaxRepairAttempts
         /\ steps \in Nat
BY BudgetAssumption DEF TypeInv, TypeOK, GraphState, RepairsLeft, RoundsLeft, InvocationBound

\* Both counters as they were.
Uncounted ==
  /\ st'.retrieval_rounds = st.retrieval_rounds
  /\ st'.repair_attempts = st.repair_attempts

LEMMA SameCounters ==
  ASSUME Uncounted
  PROVE  RepairsLeft' = RepairsLeft /\ RoundsLeft' = RoundsLeft
BY DEF Uncounted, RepairsLeft, RoundsLeft

LEMMA UpdateUncounted ==
  ASSUME st \in GraphState,
         \/ \E codes : st' = Blocked(codes)
         \/ \E d : st' = [st EXCEPT !.decision = d]
         \/ \E r, q : st' = ProposeWith(r, q)
         \/ \E codes : st' = BindFailed(codes)
         \/ \E codes, q : st' = [BindFailed(codes) EXCEPT !.sql = q, !.passed = FALSE]
         \/ \E p : st' = BindReady(p)
  PROVE  Uncounted
BY DEF Uncounted, GraphState, Blocked, ProposeWith, BindFailed, BindReady

-----------------------------------------------------------------------------
(* Every node takes one step and leaves fewer.                               *)

LEMMA CallerBounded ==
  ASSUME Bounded, TypeInv', Ask \/ Resume \/ Raise \/ PolicyChange
  PROVE  Bounded'
<1>. TypeInv /\ InvocationBound' = InvocationBound BY DEF Bounded, InvocationBound
<1>1. CASE Ask
  BY <1>1, CountersNat DEF Ask, Bounded, StepsLeft, InvocationBound
<1>2. CASE Resume
  <2>1. pc' = "clarify" /\ steps' = 0 BY <1>2 DEF Resume
  <2>2. steps' + StepsLeft' <= InvocationBound
    BY <2>1, BudgetAssumption DEF StepsLeft, InvocationBound
  <2>. QED BY <2>1, <2>2 DEF Bounded
<1>3. CASE Raise
  <2>1. StepsLeft \in Nat
    BY CountersNat, BudgetAssumption DEF Bounded, StepsLeft, InvocationBound
  <2>2. StepsLeft' = 0 /\ pc' # "idle" BY <1>3 DEF Raise, StepsLeft
  <2>. QED BY <1>3, <2>1, <2>2, CountersNat DEF Raise, Bounded, InvocationBound
<1>4. CASE PolicyChange
  BY <1>4 DEF PolicyChange, Bounded, StepsLeft, InvocationBound, RepairsLeft, RoundsLeft
<1>. QED BY <1>1, <1>2, <1>3, <1>4

\* Within the bound every node run is counted.
LEMMA NodeCounted ==
  ASSUME Bounded, NEW n, Node(n)
  PROVE  steps' = steps + 1
<1>1. StepsLeft \in Nat
  BY CountersNat, BudgetAssumption DEF Bounded, StepsLeft, InvocationBound
<1>2. ~(steps > InvocationBound)
  BY <1>1, CountersNat DEF Bounded
<1>. QED BY <1>2 DEF Node, Counted

LEMMA FirstNodesBounded ==
  ASSUME Bounded, TypeInv', Admit \/ Understand
  PROVE  Bounded'
<1>. TypeInv BY DEF Bounded
<1>1. CASE Admit
  <2>1. Node("admit") /\ pc' \in {"understand", "stop"}
    BY <1>1 DEF Admit, Goto, Targets, Edges
  <2>. QED BY <2>1, CountersNat, NodeCounted, BudgetAssumption
       DEF Node, Bounded, StepsLeft, InvocationBound
<1>2. CASE Understand
  <2>1. Node("understand") /\ Goto("understand", st'.route) BY <1>2 DEF Understand
  <2>2. pc' \in {"retrieve", "definition", "metadata", "stop"}
    BY <2>1 DEF Goto, Targets, Edges
  <2>3. InvocationBound' = InvocationBound BY DEF InvocationBound
  <2>4. steps + (InvocationBound - 2) <= InvocationBound /\ steps' = steps + 1
    BY <2>1, NodeCounted DEF Node, Bounded, StepsLeft
  <2>5. StepsLeft' \in Nat /\ StepsLeft' <= 5 + 2 * MaxRepairAttempts + 3 * MaxRetrievalRounds
    <3>1. st'.retrieval_rounds \in Nat /\ st'.repair_attempts \in Nat
      BY DEF TypeInv, TypeOK, GraphState
    <3>. QED BY <2>2, <3>1, BudgetAssumption DEF StepsLeft, RepairsLeft, RoundsLeft
  <2>6. steps' + StepsLeft' <= InvocationBound
    BY <2>4, <2>5, CountersNat, BudgetAssumption
  <2>. QED BY <2>2, <2>3, <2>6 DEF Bounded
<1>. QED BY <1>1, <1>2

LEMMA RetrieveBounded == ASSUME Bounded, TypeInv', Retrieve PROVE Bounded'
<1>. st \in GraphState BY DEF Bounded, TypeInv, TypeOK
<1>1. PICK c, d : st' = Found(c, d) BY DEF Retrieve
<1>2. st'.retrieval_rounds = st.retrieval_rounds + 1 /\ st'.repair_attempts = st.repair_attempts
  BY <1>1 DEF Found, GraphState
<1>3. Node("retrieve") /\ pc' = "propose" BY DEF Retrieve, Goto, Targets, Edges
<1>4. /\ RepairsLeft' = RepairsLeft
      /\ RoundsLeft' = IF RoundsLeft = 0 THEN 0 ELSE RoundsLeft - 1
  BY <1>2, BudgetAssumption DEF RepairsLeft, RoundsLeft, GraphState
<1>. QED BY <1>3, <1>4, CountersNat, NodeCounted DEF Node, Bounded, StepsLeft, InvocationBound

LEMMA ProposeBounded ==
  ASSUME Bounded, TypeInv', Expand \/ ProposePlan
  PROVE  Bounded'
<1>. st \in GraphState /\ TypeInv BY DEF Bounded, TypeInv, TypeOK
<1>1. CASE Expand
  <2>1. Uncounted BY <1>1, UpdateUncounted DEF Expand
  <2>2. \/ st.retrieval_rounds < MaxRetrievalRounds + 1
        \/ st'.decision = "blocked"
    BY <1>1, BudgetAssumption DEF Expand, Blocked, GraphState
  <2>3. Node("expand") /\ Goto("expand", st'.decision) BY <1>1 DEF Expand
  <2>4. \/ pc' = "retrieve" /\ RoundsLeft # 0
        \/ pc' = "stop"
    BY <2>2, <2>3, BudgetAssumption DEF Goto, Targets, Edges, RoundsLeft, GraphState
  <2>. QED BY <2>1, <2>3, <2>4, SameCounters, CountersNat, NodeCounted
       DEF Node, Bounded, StepsLeft, InvocationBound
<1>2. CASE ProposePlan
  <2>1. Uncounted BY <1>2, UpdateUncounted DEF ProposePlan, Proposed
  <2>2. Node("propose") /\ Continue /\ pc' \in {"bind_compile", "expand", "clarify", "stop"}
    BY <1>2 DEF ProposePlan, Goto, Targets, Edges
  <2>3. payload' = None BY <2>2 DEF Node, Continue, TypeInv, Shape
  <2>. QED BY <2>1, <2>2, <2>3, SameCounters, CountersNat, NodeCounted
       DEF Node, Bounded, StepsLeft, InvocationBound
<1>. QED BY <1>1, <1>2

LEMMA ClarifyBounded ==
  ASSUME Bounded, TypeInv', ClarifyInterrupt \/ ClarifyAnswer
  PROVE  Bounded'
<1>. TypeInv BY DEF Bounded
<1>1. CASE ClarifyInterrupt
  BY <1>1, CountersNat, NodeCounted
       DEF ClarifyInterrupt, Node, Bounded, StepsLeft, InvocationBound
<1>2. CASE ClarifyAnswer
  <2>1. Node("clarify") /\ payload # None /\ pc' \in {"admit", "stop"}
    BY <1>2 DEF ClarifyAnswer, Goto, Targets, Edges
  <2>2. StepsLeft = InvocationBound /\ InvocationBound' = InvocationBound
    BY <2>1 DEF Node, StepsLeft, InvocationBound
  <2>3. StepsLeft' \in {1, InvocationBound - 1}
    BY <2>1, <2>2 DEF StepsLeft
  <2>4. InvocationBound - 1 \in Nat /\ 1 <= InvocationBound - 1
    BY CountersNat, BudgetAssumption
  <2>5. steps' + StepsLeft' <= InvocationBound
    BY <2>1, <2>2, <2>3, <2>4, CountersNat, NodeCounted DEF Node, Bounded
  <2>. QED BY <2>1, <2>2, <2>5 DEF Bounded
<1>. QED BY <1>1, <1>2

LEMMA RepairBounded == ASSUME Bounded, TypeInv', Repair PROVE Bounded'
<1>. st \in GraphState /\ TypeInv BY DEF Bounded, TypeInv, TypeOK
<1>1. Node("repair") /\ Goto("repair", st'.decision) /\ pc' \in {"bind_compile", "stop"}
  BY DEF Repair, Goto, Targets, Edges
<1>2. CASE st.repair_attempts >= MaxRepairAttempts \/ st'.decision = "blocked"
  <2>1. st'.decision = "blocked" BY <1>2, BudgetAssumption DEF Repair, Blocked, GraphState
  <2>2. pc' = "stop" BY <1>1, <2>1 DEF Goto, Targets, Edges
  <2>. QED BY <1>1, <2>2, CountersNat, NodeCounted DEF Node, Bounded, StepsLeft, InvocationBound
<1>3. CASE ~(st.repair_attempts >= MaxRepairAttempts) /\ st'.decision # "blocked"
  <2>1. /\ st'.repair_attempts = st.repair_attempts + 1
    BY <1>3 DEF Repair, GraphState
  <2>2. RepairsLeft' = RepairsLeft - 1
    BY <1>3, <2>1, BudgetAssumption DEF RepairsLeft, GraphState
  <2>3. RepairsLeft' \in Nat
    BY <1>3, <2>1, BudgetAssumption DEF RepairsLeft, GraphState
  <2>. QED BY <1>1, <2>2, <2>3, CountersNat, NodeCounted
       DEF Node, Bounded, StepsLeft, InvocationBound
<1>. QED BY <1>2, <1>3

LEMMA LastNodesBounded ==
  ASSUME Bounded, TypeInv',
         BindCompile \/ Execute \/ DefinitionAnswer \/ MetadataAnswer \/ Stop
  PROVE  Bounded'
<1>. st \in GraphState /\ TypeInv BY DEF Bounded, TypeInv, TypeOK
<1>1. CASE BindCompile
  <2>1. Uncounted
    BY <1>1, UpdateUncounted DEF BindCompile, BindRaises, ValidationFails, ValidationPasses
  <2>2. Node("bind_compile") /\ pc' \in {"execute", "repair", "stop"}
    BY <1>1 DEF BindCompile, Goto, Targets, Edges
  <2>. QED BY <2>1, <2>2, SameCounters, CountersNat, NodeCounted
       DEF Node, Bounded, StepsLeft, InvocationBound
<1>2. CASE Execute
  <2>1. Node("execute") /\ pc' \in {"end", "stop"}
    BY <1>2 DEF Execute, Goto, Targets, Edges
  <2>. QED BY <2>1, CountersNat, NodeCounted DEF Node, Bounded, StepsLeft, InvocationBound
<1>3. CASE DefinitionAnswer
  <2>1. Node("definition") /\ pc' \in {"end", "stop"}
    BY <1>3 DEF DefinitionAnswer, Goto, Targets, Edges
  <2>. QED BY <2>1, CountersNat, NodeCounted DEF Node, Bounded, StepsLeft, InvocationBound
<1>4. CASE MetadataAnswer
  <2>1. Node("metadata") /\ pc' \in {"end", "stop"}
    BY <1>4 DEF MetadataAnswer, Goto, Targets, Edges
  <2>. QED BY <2>1, CountersNat, NodeCounted DEF Node, Bounded, StepsLeft, InvocationBound
<1>5. CASE Stop
  BY <1>5, CountersNat, NodeCounted DEF Stop, Node, Bounded, StepsLeft, InvocationBound
<1>. QED BY <1>1, <1>2, <1>3, <1>4, <1>5

LEMMA BoundedInit == Init => Bounded
<1>. SUFFICES ASSUME Init PROVE Bounded
  OBVIOUS
<1>1. TypeInv BY InitType
<1>. QED BY <1>1, CountersNat DEF Init, Bounded, StepsLeft

LEMMA BoundedStep == Bounded /\ [Next]_vars => Bounded'
<1>. SUFFICES ASSUME Bounded, [Next]_vars PROVE Bounded'
  OBVIOUS
<1>1. TypeInv' BY StepType DEF Bounded
<1>2. CASE UNCHANGED vars
  BY <1>1, <1>2 DEF vars, Bounded, StepsLeft, InvocationBound, RepairsLeft, RoundsLeft
<1>3. CASE NodeStep
  BY <1>1, <1>3, FirstNodesBounded, RetrieveBounded, ProposeBounded, ClarifyBounded,
     RepairBounded, LastNodesBounded
  DEF NodeStep
<1>. QED BY <1>1, <1>2, <1>3, CallerBounded DEF Next

\* However often retrieval is widened and the request repaired, and however many
\* times the thread was resumed before, one invocation runs at most
\* InvocationBound nodes: 18 with the budgets of state.py, against a recursion
\* limit of 40.
THEOREM InvocationsAreShort == Spec => []StepsWithinBudget
<1>1. Bounded => StepsWithinBudget
  <2>. SUFFICES ASSUME Bounded PROVE StepsWithinBudget
    OBVIOUS
  <2>. TypeInv BY DEF Bounded
  <2>1. StepsLeft \in Nat
    BY CountersNat, BudgetAssumption DEF StepsLeft
  <2>. QED BY <2>1, CountersNat DEF Bounded, StepsWithinBudget
<1>. QED BY <1>1, BoundedInit, BoundedStep, PTL DEF Spec

-----------------------------------------------------------------------------
(* The workflow implements RequestLifecycle.                                 *)

Asking == IF LifecycleStatus = "waiting" THEN st.clarification.slot ELSE None

Outcome == IF st.result = None THEN None ELSE Measured(st.result.request)

\* A slot the user has settled is counted.
SettledCounted ==
  \A s \in Slots : st.clarified_slots[s] = 0 => history.chosen[s] = None

\* A step that neither settles a slot nor releases a result.
Undecided ==
  /\ st'.clarified_slots = st.clarified_slots /\ st'.result = st.result
  /\ history'.chosen = history.chosen

\* A step the caller does not see.
Unseen ==
  /\ LifecycleStatus' = LifecycleStatus /\ Asking' = Asking
  /\ history'.chosen = history.chosen /\ Outcome' = Outcome

LEMMA UnseenStutters == Unseen => UNCHANGED Lifecycle!vars
BY DEF Unseen, Asking, Outcome, Lifecycle!vars

LEMMA InnerNodes ==
  ASSUME Inv,
         \/ Admit \/ Understand \/ Retrieve \/ Expand \/ ProposePlan
         \/ Repair \/ BindCompile
  PROVE  Undecided /\ Unseen
<1>. st \in GraphState /\ history \in Histories BY DEF Inv, TypeInv, TypeOK
<1>1. /\ pc \in Nodes /\ pc # "clarify" /\ st.result = None
      /\ payload = None /\ payload' = None
  BY DEF Admit, Understand, Retrieve, Expand, ProposePlan, Repair, BindCompile, Node, Nodes,
     Continue, Inv, TypeInv, Shape, ResultFaithful
<1>2. pc' \in Nodes
  <2>1. CASE Admit BY <2>1 DEF Admit, Goto, Targets, Edges, Nodes
  <2>2. CASE Understand
    <3>. Goto("understand", st'.route) BY <2>2 DEF Understand
    <3>. QED BY DEF Goto, Targets, Edges, Nodes
  <2>3. CASE Retrieve BY <2>3 DEF Retrieve, Goto, Targets, Edges, Nodes
  <2>4. CASE Expand BY <2>4 DEF Expand, Goto, Targets, Edges, Nodes
  <2>5. CASE ProposePlan BY <2>5 DEF ProposePlan, Goto, Targets, Edges, Nodes
  <2>6. CASE Repair BY <2>6 DEF Repair, Goto, Targets, Edges, Nodes
  <2>7. CASE BindCompile BY <2>7 DEF BindCompile, Goto, Targets, Edges, Nodes
  <2>. QED BY <2>1, <2>2, <2>3, <2>4, <2>5, <2>6, <2>7
<1>3. Undecided
  <2>1. CASE Admit
    <3>. /\ UNCHANGED history
         /\ \/ st' = [st EXCEPT !.decision = "allowed"]
            \/ st' = [Blocked({"NOT_AUTHORIZED"}) EXCEPT !.decision = "denied"]
      BY <2>1 DEF Admit, Blocked, GraphState
    <3>. QED BY UpdateKeeps DEF Kept, Undecided
  <2>2. CASE Understand BY <2>2, UpdateKeeps DEF Understand, Kept, Undecided
  <2>3. CASE Retrieve BY <2>3, UpdateKeeps DEF Retrieve, Kept, Undecided
  <2>4. CASE Expand BY <2>4, UpdateKeeps DEF Expand, Kept, Undecided
  <2>5. CASE ProposePlan
    <3>1. history'.chosen = history.chosen BY <2>5 DEF ProposePlan, Histories
    <3>2. CASE \E r : Proposed(r)
      BY <3>1, <3>2 DEF Proposed, ProposeWith, GraphState, Undecided
    <3>3. CASE \/ st' = [st EXCEPT !.decision = "expand"]
               \/ \E codes : st' = Blocked(codes)
      BY <3>1, <3>3 DEF Blocked, GraphState, Undecided
    <3>. QED BY <2>5, <3>2, <3>3 DEF ProposePlan
  <2>6. CASE Repair BY <1>1, <2>6 DEF Repair, Blocked, GraphState, Undecided
  <2>7. CASE BindCompile
    BY <2>7 DEF BindCompile, BindRaises, ValidationFails, ValidationPasses, BindFailed,
       BindReady, GraphState, Undecided
  <2>. QED BY <2>1, <2>2, <2>3, <2>4, <2>5, <2>6, <2>7
<1>. QED BY <1>1, <1>2, <1>3 DEF Undecided, Unseen, LifecycleStatus, Asking, Outcome, Nodes

LEMMA CallerLifecycle ==
  ASSUME Inv, Ask \/ Resume \/ Raise \/ PolicyChange
  PROVE  Undecided /\ (Unseen \/ Lifecycle!Next)
<1>1. CASE Ask
  <2>1. payload = None BY <1>1 DEF Ask, Inv, TypeInv, Shape
  <2>2. Lifecycle!Ask BY <1>1, <2>1 DEF Ask, Lifecycle!Ask, LifecycleStatus
  <2>. QED BY <1>1, <2>2 DEF Ask, Undecided, Lifecycle!Next
<1>2. CASE Resume
  <2>1. CASE payload' = None
    <3>1. Lifecycle!Reply BY <1>2, <2>1 DEF Resume, Lifecycle!Reply, LifecycleStatus
    <3>. QED BY <1>2, <3>1 DEF Resume, Undecided, Lifecycle!Next
  <2>2. CASE payload' # None
    BY <1>2, <2>2 DEF Resume, Undecided, Unseen, LifecycleStatus, Asking, Outcome
  <2>. QED BY <2>1, <2>2
<1>3. CASE Raise
  <2>1. Lifecycle!Fail BY <1>3 DEF Raise, Lifecycle!Fail, LifecycleStatus, Nodes
  <2>. QED BY <1>3, <2>1 DEF Raise, Undecided, Lifecycle!Next
<1>4. CASE PolicyChange
  BY <1>4 DEF PolicyChange, Undecided, Unseen, LifecycleStatus, Asking, Outcome
<1>. QED BY <1>1, <1>2, <1>3, <1>4

\* The question posed is about a slot that is not settled.
LEMMA InterruptPoses ==
  ASSUME Inv, SettledCounted, ClarifyInterrupt
  PROVE  Undecided /\ Lifecycle!Pose
<1>1. /\ pc = "clarify" /\ payload = None /\ payload' = None /\ pc' = "suspended"
      /\ UNCHANGED <<st, history>>
  BY DEF ClarifyInterrupt, Node
<1>2. st.clarification \in Questions
  BY <1>1 DEF Inv, TypeInv, TypeOK, Shape, GraphState, Optional
<1>3. /\ st.clarification.slot \in Slots
      /\ history.chosen[st.clarification.slot] = None
  BY <1>1, <1>2 DEF Questions, Inv, AskedOnce, SettledCounted
<1>. QED BY <1>1, <1>3 DEF Undecided, Lifecycle!Pose, LifecycleStatus

LEMMA AnswerReplies ==
  ASSUME Inv, SettledCounted, ClarifyAnswer
  PROVE  SettledCounted' /\ Lifecycle!Reply
<1>. st \in GraphState /\ history \in Histories BY DEF Inv, TypeInv, TypeOK
<1>1. /\ Node("clarify") /\ Goto("clarify", st'.decision)
      /\ payload # None /\ payload' = None /\ payload \in Payloads
      /\ st.result = None
  BY DEF ClarifyAnswer, Node, Inv, TypeInv, TypeOK, Optional, ResultFaithful
<1>2. pc' \in {"admit", "stop"} BY <1>1 DEF Goto, Targets, Edges
<1>3. CASE Offered(payload)
  <2>. DEFINE slot == payload.slot
              value == payload.value
  <2>1. slot \in Slots /\ value \in Values /\ slot = st.clarification.slot
    BY <1>1, <1>3 DEF Offered, Payloads
  <2>2. /\ st'.clarified_slots = [st.clarified_slots EXCEPT ![slot] = @ + 1]
        /\ st'.result = st.result
        /\ history'.chosen = [history.chosen EXCEPT ![slot] = value]
    BY <1>3 DEF ClarifyAnswer, GraphState, Histories
  <2>3. SettledCounted'
    <3>1. /\ st.clarified_slots \in [Slots -> Nat]
          /\ history.chosen \in [Slots -> Optional(Values)]
      BY DEF GraphState, AskedCounts, Histories
    <3>. HIDE DEF slot, value
    <3>. QED BY <2>1, <2>2, <3>1 DEF SettledCounted
  <2>4. Lifecycle!Reply
    BY <1>1, <1>2, <2>1, <2>2 DEF Lifecycle!Reply, LifecycleStatus, Node
  <2>. QED BY <2>3, <2>4
<1>4. CASE ~Offered(payload)
  <2>1. /\ st'.clarified_slots = st.clarified_slots /\ st'.result = st.result
        /\ UNCHANGED history
    BY <1>4 DEF ClarifyAnswer, Blocked, GraphState
  <2>. QED BY <1>1, <1>2, <2>1
       DEF SettledCounted, Lifecycle!Reply, LifecycleStatus, Node
<1>. QED BY <1>3, <1>4

\* What a released result measures honours every slot the user settled.
LEMMA ExecuteComputes ==
  ASSUME Inv, Inv', ExecutionAnswers, Node("execute"), pc' = "end",
         UNCHANGED <<payload, history>>
  PROVE  Lifecycle!Next
<1>. st \in GraphState BY DEF Inv, TypeInv, TypeOK
<1>1. PICK a \in ctx.artifacts : Current(a) /\ st'.result = Result(a)
  BY DEF ExecutionAnswers, GraphState
<1>2. /\ payload = None /\ payload' = None /\ st.result = None
      /\ st'.answer = "answered"
  BY DEF ExecutionAnswers, GraphState, Node, Inv, TypeInv, Shape, ResultFaithful
<1>3. LifecycleStatus = "working" /\ LifecycleStatus' = "answered"
  BY <1>2 DEF LifecycleStatus, Node
<1>4. CASE st'.result = None
  <2>1. Lifecycle!Conclude BY <1>2, <1>3, <1>4 DEF Lifecycle!Conclude
  <2>. QED BY <2>1 DEF Lifecycle!Next
<1>5. CASE st'.result # None
  <2>. DEFINE r == st'.result.request
  <2>1. /\ r = a.request /\ a.request = st.proposal
        /\ st.proposal \in Requests /\ st.proposal # None
    BY <1>1 DEF Result, Inv, ReadyToRun, Node, TypeInv, TypeOK, Shape, GraphState, Optional
  <2>2. Honours(r, history.chosen) BY <2>1 DEF Inv, ProposalFaithful
  <2>3. Measured(r) \in [Slots -> Values \cup {None}]
    BY <2>1 DEF Measured, Requests, Values
  <2>4. \A s \in Slots :
          history.chosen[s] # None => Measured(r)[s] = history.chosen[s]
    BY <2>2 DEF Measured, Honours, Slots
  <2>5. Lifecycle!Compute
    BY <1>2, <1>3, <1>5, <2>3, <2>4 DEF Lifecycle!Compute
  <2>. QED BY <2>5 DEF Lifecycle!Next
<1>. QED BY <1>4, <1>5

LEMMA LastNodesLifecycle ==
  ASSUME Inv, Inv', Execute \/ DefinitionAnswer \/ MetadataAnswer \/ Stop
  PROVE  /\ st'.clarified_slots = st.clarified_slots
         /\ history'.chosen = history.chosen
         /\ Unseen \/ Lifecycle!Next
<1>. st \in GraphState BY DEF Inv, TypeInv, TypeOK
<1>1. /\ pc \in Nodes /\ pc # "clarify" /\ payload = None /\ payload' = None
      /\ st.result = None /\ UNCHANGED <<payload, history>>
  BY DEF Execute, DefinitionAnswer, MetadataAnswer, Stop, Leave, Node, Nodes, Inv, TypeInv,
     Shape, ResultFaithful
<1>2. ASSUME Undecided, pc' = "stop" \/ pc' = "end"
      PROVE  Unseen \/ Lifecycle!Next
  <2>1. CASE pc' = "stop"
    BY <1>1, <1>2, <2>1 DEF Undecided, Unseen, LifecycleStatus, Asking, Outcome, Nodes
  <2>2. CASE pc' = "end"
    <3>1. Lifecycle!Conclude
      BY <1>1, <1>2, <2>2 DEF Undecided, Lifecycle!Conclude, LifecycleStatus, Nodes
    <3>. QED BY <3>1 DEF Lifecycle!Next
  <2>. QED BY <1>2, <2>1, <2>2
<1>3. CASE Execute /\ ExecutionFails
  <2>1. Undecided
    BY <1>1, <1>3, UpdateKeeps DEF ExecutionFails, Kept, Undecided
  <2>2. pc' = "stop" \/ pc' = "end" BY <1>3 DEF Execute, Goto, Targets, Edges
  <2>. QED BY <1>2, <2>1, <2>2 DEF Undecided
<1>4. CASE Execute /\ ExecutionAnswers
  <2>1. st'.clarified_slots = st.clarified_slots /\ st'.decision = "answered"
    BY <1>4 DEF ExecutionAnswers, GraphState
  <2>2. Node("execute") /\ pc' = "end"
    BY <1>4, <2>1 DEF Execute, Goto, Targets, Edges
  <2>. QED BY <1>1, <1>4, <2>1, <2>2, ExecuteComputes
<1>5. CASE DefinitionAnswer
  <2>1. Undecided BY <1>1, <1>5, UpdateKeeps DEF DefinitionAnswer, Kept, Undecided
  <2>2. pc' = "stop" \/ pc' = "end" BY <1>5 DEF DefinitionAnswer, Goto, Targets, Edges
  <2>. QED BY <1>2, <2>1, <2>2 DEF Undecided
<1>6. CASE MetadataAnswer
  <2>1. Undecided BY <1>1, <1>6, UpdateKeeps DEF MetadataAnswer, Kept, Undecided
  <2>2. pc' = "stop" \/ pc' = "end" BY <1>6 DEF MetadataAnswer, Goto, Targets, Edges
  <2>. QED BY <1>2, <2>1, <2>2 DEF Undecided
<1>7. CASE Stop
  <2>1. Undecided BY <1>1, <1>7, UpdateKeeps DEF Stop, Kept, Undecided
  <2>. QED BY <1>2, <1>7, <2>1 DEF Undecided, Stop
<1>. QED BY <1>3, <1>4, <1>5, <1>6, <1>7 DEF Execute

LEMMA LifecycleInit == Init => SettledCounted /\ Lifecycle!Init
BY DEF Init, SettledCounted, NothingChosen, Lifecycle!Init, Lifecycle!Unsettled, LifecycleStatus

LEMMA LifecycleStep ==
  ASSUME Inv, Inv', SettledCounted, [Next]_vars
  PROVE  SettledCounted' /\ [Lifecycle!Next]_(Lifecycle!vars)
<1>1. ASSUME Undecided PROVE SettledCounted'
  BY <1>1 DEF Undecided, SettledCounted
<1>2. CASE UNCHANGED vars
  <2>1. Undecided /\ Unseen
    BY <1>2 DEF vars, Undecided, Unseen, LifecycleStatus, Asking, Outcome
  <2>. QED BY <1>1, <2>1, UnseenStutters
<1>3. CASE Ask \/ Resume \/ Raise \/ PolicyChange
  BY <1>1, <1>3, CallerLifecycle, UnseenStutters
<1>4. CASE \/ Admit \/ Understand \/ Retrieve \/ Expand \/ ProposePlan
           \/ Repair \/ BindCompile
  BY <1>1, <1>4, InnerNodes, UnseenStutters
<1>5. CASE ClarifyInterrupt
  BY <1>1, <1>5, InterruptPoses DEF Lifecycle!Next
<1>6. CASE ClarifyAnswer
  BY <1>6, AnswerReplies DEF Lifecycle!Next
<1>7. CASE Execute \/ DefinitionAnswer \/ MetadataAnswer \/ Stop
  BY <1>7, LastNodesLifecycle, UnseenStutters DEF SettledCounted
<1>. QED BY <1>2, <1>3, <1>4, <1>5, <1>6, <1>7 DEF Next, NodeStep

\* The graph does what RequestLifecycle promises the person who asks: a question
\* is posed about a slot nobody has settled, a computed answer honours every slot
\* that was settled, and an ended request stays ended.
THEOREM LifecycleImplemented == Spec => RefinesLifecycle
<1>1. Init => SettledCounted /\ Lifecycle!Init BY LifecycleInit
<1>2. Inv /\ Inv' /\ SettledCounted /\ [Next]_vars
        => SettledCounted' /\ [Lifecycle!Next]_(Lifecycle!vars)
  BY LifecycleStep
<1>. QED BY <1>1, <1>2, InvAlways, PTL DEF Spec, RefinesLifecycle, Lifecycle!Spec

=============================================================================
