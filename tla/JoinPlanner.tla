----------------------------- MODULE JoinPlanner -----------------------------
(***************************************************************************)
(* app/relationships/planner.py: JoinPlanner.plan.  A bounded breadth-first *)
(* enumeration of the trees of approved relationships that connect a fact   *)
(* table to the tables a plan needs, and the choice among them.             *)
(*                                                                          *)
(* One action is one iteration of the enumeration, or the choice.           *)
(***************************************************************************)
EXTENDS CatalogGraph, SequencesExt

CONSTANTS
  MaxHops,        \* MAX_HOPS
  MaxCandidates   \* MAX_CANDIDATES

ASSUME PlannerAssumption == MaxHops \in Nat /\ MaxCandidates \in Nat \ {0}

VARIABLES
  wanted,  \* base table, terminals and required relationships of the call
  queue,   \* partial plans: the joins made so far
  found,   \* plans that reach every terminal
  plan,    \* the joins chosen
  joins    \* idle, searching, planned, or an error code

joinVars == <<wanted, queue, found, plan, joins>>

Joins == [rel : Relationships, from : Tables, to : Tables]

\* Variant: the cardinality is read from left to right whatever the direction.
PreservesUnflipped(rel, from) ==
  graph[rel].cardinality \in {"one_to_one", "many_to_one"}

\* Following rel from this table keeps the multiplicity of its rows.
Preserves(rel, from) ==
  graph[rel].cardinality \in
    {"one_to_one", IF from = graph[rel].left THEN "many_to_one" ELSE "one_to_many"}

Permitted(rel) == Ends(rel) \subseteq may /\ Keys(rel) \subseteq may

\* The binder forbids multiplying joins, and with them prohibited usages.
Followed(rel, from) ==
  Permitted(rel) /\ Preserves(rel, from) /\ ~graph[rel].prohibited

Visited(p) == {wanted.base} \cup {p[i].to : i \in DOMAIN p}

Complete(p) == wanted.terminals \subseteq Visited(p)

Refs(p) == {p[i].rel : i \in DOMAIN p}

\* The joins that lead out of a partial plan.
Crossings(p) ==
  {j \in Joins : /\ {j.from, j.to} = Ends(j.rel)
                 /\ j.from \in Visited(p) /\ j.to \notin Visited(p)
                 /\ Followed(j.rel, j.from)}

\* Frontier tables in sorted order, the relationships of each in theirs.
First(i, j) == i.from < j.from \/ (i.from = j.from /\ i.rel < j.rel)

Place(j, edges) == 1 + Cardinality({i \in edges : First(i, j)})

Extensions(p) ==
  [k \in 1..Cardinality(Crossings(p)) |->
    Append(p, CHOOSE j \in Crossings(p) : Place(j, Crossings(p)) = k)]

-----------------------------------------------------------------------------
\* plan() is called.  Without a terminal there is nothing to join.
OpenJoins(base, tables, required) ==
  /\ joins = "idle"
  /\ wanted' = [base |-> base, terminals |-> tables \ {base}, required |-> required]
  /\ IF tables \subseteq {base}
       THEN joins' = "planned" /\ UNCHANGED queue
       ELSE joins' = "searching" /\ queue' = << <<>> >>
  /\ UNCHANGED <<found, plan>>

Enumerating == queue # <<>> /\ Len(found) < MaxCandidates

\* Variant: the last hop is given away.
HopsLeftShort(p) == Len(p) + 1 < MaxHops

HopsLeft(p) == Len(p) < MaxHops

\* One partial plan is found complete, is extended, or is too long.
Search ==
  /\ joins = "searching" /\ Enumerating
  /\ LET p == Head(queue)
     IN  IF Complete(p)
           THEN found' = Append(found, p) /\ queue' = Tail(queue)
           ELSE /\ queue' = Tail(queue) \o (IF HopsLeft(p) THEN Extensions(p) ELSE <<>>)
                /\ UNCHANGED found
  /\ UNCHANGED <<wanted, plan, joins>>

\* Variant: the tie-break on references comes before the number of hops.
BeforeByReference(p, q) ==
  \E i \in DOMAIN p \cap DOMAIN q :
    /\ p[i].rel < q[i].rel
    /\ \A k \in 1..(i - 1) : p[k].rel = q[k].rel

\* _rank_key of plans that multiply nothing: tables and hops, which go together
\* in a tree, then the references in order.
Before(p, q) ==
  \/ Len(p) < Len(q)
  \/ /\ Len(p) = Len(q)
     /\ \E i \in DOMAIN p :
          /\ p[i].rel < q[i].rel
          /\ \A k \in 1..(i - 1) : p[k].rel = q[k].rel

Eligible == {p \in ToSet(found) : wanted.required \subseteq Refs(p)}

\* Two plans of one rank on different relationships.  The rank ends with the
\* references, so there never are.
Ambiguous ==
  \E p, q \in Eligible : ~Before(p, q) /\ ~Before(q, p) /\ Refs(p) # Refs(q)

Choose ==
  /\ joins = "searching" /\ ~Enumerating
  /\ IF Eligible = {} THEN joins' = "NO_APPROVED_PATH" /\ UNCHANGED plan
     ELSE IF Ambiguous THEN joins' = "AMBIGUOUS_PATH" /\ UNCHANGED plan
     ELSE /\ plan' \in {p \in Eligible : \A q \in Eligible : ~Before(q, p)}
          /\ joins' = "planned"
  /\ UNCHANGED <<wanted, queue, found>>

JoinStep == Search \/ Choose

-----------------------------------------------------------------------------
(* Properties.                                                               *)

JoinTypeOK ==
  /\ wanted \in [base : Tables, terminals : SUBSET Tables,
                 required : SUBSET Relationships]
  /\ queue \in Seq(Seq(Joins)) /\ found \in Seq(Seq(Joins)) /\ plan \in Seq(Joins)
  /\ Len(found) <= MaxCandidates /\ Len(plan) <= MaxHops
  /\ joins \in {"idle", "searching", "planned", "NO_APPROVED_PATH", "AMBIGUOUS_PATH"}

\* The ends of a relationship that hold at most one row for each of the other.
OneSide(rel) ==
  (IF graph[rel].cardinality \in {"one_to_one", "many_to_one"}
     THEN {graph[rel].right} ELSE {}) \cup
  (IF graph[rel].cardinality \in {"one_to_one", "one_to_many"}
     THEN {graph[rel].left} ELSE {})

\* The relationships in T lead from the base to all of these tables, entering
\* each on a side of one.
Reaches(T, tables) ==
  \A S \in SUBSET tables :
    /\ wanted.base \in S
    /\ \A rel \in T :
         Ends(rel) \cap S # {} /\ Ends(rel) \ S \subseteq OneSide(rel)
           => Ends(rel) \subseteq S
    => S = tables

Spans(T) == {wanted.base} \cup UNION {Ends(rel) : rel \in T}

\* T is an answer: a tree of permitted relationships out of the base, through
\* every terminal, over which no row of the base is counted twice.
Connects(T) ==
  /\ wanted.terminals \subseteq Spans(T)
  /\ Cardinality(Spans(T)) = Cardinality(T) + 1
  /\ Reaches(T, Spans(T))
  /\ \A rel \in T : Permitted(rel) /\ ~graph[rel].prohibited

Answers ==
  {T \in SUBSET Relationships :
    Cardinality(T) <= MaxHops /\ wanted.required \subseteq T /\ Connects(T)}

\* A plan is a connection, through the edges that were mandated ...
PlanConnects ==
  joins = "planned" /\ wanted.terminals # {} => Refs(plan) \in Answers

\* ... and none is shorter.
PlanIsShortest ==
  joins = "planned" /\ wanted.terminals # {} =>
    \A T \in Answers : Len(plan) <= Cardinality(T)

\* A path is reported missing when the catalog, the policy and the hop limit
\* leave none.  Callers ask for the tables of the edges they mandate.
RefusedWithoutPathOnly ==
  joins = "NO_APPROVED_PATH" => Answers = {}

=============================================================================
