----------------------------- MODULE RuleClosure -----------------------------
(***************************************************************************)
(* app/semantics/rules.py: RuleEngine.close.  What a question uses activates*)
(* rules; a mandatory rule adds tables, columns and a relationship, which   *)
(* may activate more rules, round after round until nothing changes.        *)
(*                                                                          *)
(* One action is one rule applied, or the start or the end of a round.      *)
(***************************************************************************)
EXTENDS CatalogGraph

CONSTANTS
  Rules,             \* rule refs, numbered in their order of precedence
  Slots, Values,     \* slots a rule may default, and the values it may give
  MaxClosureRounds   \* MAX_CLOSURE_ROUNDS

ASSUME RuleAssumption ==
  /\ Rules \subseteq Nat /\ MaxClosureRounds \in Nat /\ None \notin Slots \cup Values

VARIABLES
  book,          \* the snapshot's rules
  seed,          \* ClosureInput: what the question already uses
  state,         \* the tables, columns, relationships and slots closed so far
  before,        \* the state a round started from
  todo,          \* candidates of the round that are left to apply
  rounds,
  obligations,   \* the rules that bind the plan
  applied,       \* applied_rule_refs
  requirements,  \* semantic_requirements
  closure        \* idle, between rounds, in a round, closed, or an error code

closureVars ==
  <<book, seed, state, before, todo, rounds, obligations, applied,
    requirements, closure>>

States ==
  [tables : SUBSET Tables, columns : SUBSET Columns,
   rels : SUBSET Relationships, slots : [Slots -> Values \cup {None}]]

\* An activation by the metric or its entity is settled by the question, as
\* "always" is; a tag names the tables that carry it.
Activations ==
  [op : {"always"}, on : {{}}] \cup [op : {"uses"}, on : SUBSET Objects] \cup
  [op : {"slot_unset"}, on : SUBSET Slots]

\* prefer_relationship is recorded and nothing else, so it is left out.
Effects ==
  [op : {"require"}, columns : SUBSET Columns, tables : SUBSET Tables,
   rel : Relationships \cup {None}] \cup
  [op : {"set_slot"}, slot : Slots, value : Values] \cup
  [op : {"require_semijoin_or_allocation"}]

RuleRecords == [when : Activations, effect : Effects]

Activates(rule, s) ==
  \/ rule.when.op = "always"
  \/ rule.when.op = "uses" /\ rule.when.on \cap (s.tables \cup s.columns) # {}
  \/ rule.when.op = "slot_unset" /\ \E slot \in rule.when.on : s.slots[slot] = None

Candidates(s) == {r \in Rules : Activates(book[r], s)}

\* What a mandatory effect needs: its predicate's columns and their tables, the
\* tables it names, and its relationship with both tables and the join keys.
NeededRels(e) == {e.rel} \ {None}

NeededColumns(e) == e.columns \cup UNION {Keys(rel) : rel \in NeededRels(e)}

NeededTables(e) ==
  e.tables \cup {TableOf[c] : c \in e.columns} \cup
  UNION {Ends(rel) : rel \in NeededRels(e)}

\* Variant: a table that is pulled in brings all of its columns.
WidenedByTables(s, e) ==
  [s EXCEPT !.tables = @ \cup NeededTables(e),
            !.columns = @ \cup {c \in Columns : TableOf[c] \in NeededTables(e)},
            !.rels = @ \cup NeededRels(e)]

Widened(s, e) ==
  [s EXCEPT !.tables = @ \cup NeededTables(e),
            !.columns = @ \cup NeededColumns(e),
            !.rels = @ \cup NeededRels(e)]

\* Every addition is reauthorized, and both tables of a relationship.
Authorized(s, e) ==
  /\ NeededColumns(e) \ s.columns \subseteq may
  /\ NeededTables(e) \ s.tables \subseteq may
  /\ \A rel \in NeededRels(e) : Ends(rel) \subseteq may

-----------------------------------------------------------------------------
\* close() is called.
OpenClosure(s) ==
  /\ closure = "idle"
  /\ closure' = "between"
  /\ seed' = s /\ state' = s
  /\ UNCHANGED <<book, before, todo, rounds, obligations, applied, requirements>>

\* Variant: one round too many.
RoundsLeftLong == rounds <= MaxClosureRounds

\* Variant: one round too few.
RoundsLeftShort == rounds + 1 < MaxClosureRounds

RoundsLeft == rounds < MaxClosureRounds

\* The candidates are listed once, from the state the round starts in.
StartRound ==
  /\ closure = "between"
  /\ IF RoundsLeft
       THEN /\ rounds' = rounds + 1
            /\ before' = state
            /\ todo' = Candidates(state)
            /\ closure' = "round"
       ELSE /\ closure' = "RULE_CLOSURE_NOT_CONVERGED"
            /\ UNCHANGED <<rounds, before, todo>>
  /\ UNCHANGED <<book, seed, state, obligations, applied, requirements>>

\* A default fills a slot that is unset, and overwrites none.
ApplyDefault(r, e) ==
  /\ e.op = "set_slot"
  /\ IF state.slots[e.slot] = None
       THEN /\ state' = [state EXCEPT !.slots[e.slot] = e.value]
            /\ applied' = applied \cup {r}
       ELSE UNCHANGED <<state, applied>>
  /\ UNCHANGED <<obligations, requirements, closure>>

ApplyRequirement(r, e) ==
  /\ e.op = "require_semijoin_or_allocation"
  /\ requirements' = requirements \cup {r}
  /\ applied' = applied \cup {r}
  /\ UNCHANGED <<state, obligations, closure>>

ApplyMandatory(r, e) ==
  /\ e.op = "require"
  /\ IF Authorized(state, e)
       THEN /\ state' = Widened(state, e)
            /\ obligations' = obligations \cup {r}
            /\ applied' = applied \cup {r}
            /\ UNCHANGED closure
       ELSE /\ closure' = "NOT_AUTHORIZED"
            /\ UNCHANGED <<state, obligations, applied>>
  /\ UNCHANGED requirements

\* The candidate of the highest precedence that is left.
ApplyRule ==
  /\ closure = "round"
  /\ \E r \in todo :
       /\ \A q \in todo : r <= q
       /\ todo' = todo \ {r}
       /\ LET e == book[r].effect
          IN  ApplyDefault(r, e) \/ ApplyRequirement(r, e) \/ ApplyMandatory(r, e)
  /\ UNCHANGED <<book, seed, before, rounds>>

\* Variant: only the tables are compared.
UnchangedTables == state.tables = before.tables

Unchanged == state = before

\* _detect_conflicts: two applied rules that give one slot different values.
Conflicting ==
  \E r, q \in applied :
    LET e == book[r].effect  f == book[q].effect
    IN  /\ e.op = "set_slot" /\ f.op = "set_slot"
        /\ e.slot = f.slot /\ e.value # f.value

EndRound ==
  /\ closure = "round" /\ todo = {}
  /\ closure' = IF ~Unchanged THEN "between"
                ELSE IF Conflicting THEN "RULE_CONFLICT" ELSE "closed"
  /\ UNCHANGED <<book, seed, state, before, todo, rounds, obligations, applied,
                 requirements>>

ClosureStep == StartRound \/ ApplyRule \/ EndRound

-----------------------------------------------------------------------------
(* Properties.                                                               *)

ClosureTypeOK ==
  /\ seed \in States /\ state \in States /\ before \in States
  /\ todo \subseteq Rules /\ obligations \subseteq applied
  /\ applied \subseteq Rules /\ requirements \subseteq Rules
  /\ rounds \in 0..MaxClosureRounds
  /\ closure \in {"idle", "between", "round", "closed", "NOT_AUTHORIZED",
                  "RULE_CONFLICT", "RULE_CLOSURE_NOT_CONVERGED"}

Mandatory == {r \in Rules : book[r].effect.op = "require"}

\* A closed state is a fixed point: whatever it activates has been applied, in
\* whichever order and round the rules came up.
EveryActiveRuleApplied ==
  closure = "closed" => Mandatory \cap Candidates(state) \subseteq obligations

\* What the question and the rules in S use, with the slots the question left.
Using(S) ==
  [seed EXCEPT
     !.tables = @ \cup UNION {NeededTables(book[r].effect) : r \in S},
     !.columns = @ \cup UNION {NeededColumns(book[r].effect) : r \in S}]

\* It is the least one: no rule binds the plan, or is denied on its behalf, but
\* for what the question uses and the rules it brings in.
NoRuleUncalledFor ==
  \A S \in SUBSET Mandatory :
    Mandatory \cap Candidates(Using(S)) \subseteq S => obligations \subseteq S

\* The closure gives up on chains of rules that really are as long as the limit.
GivesUpOnLongChainsOnly ==
  closure = "RULE_CLOSURE_NOT_CONVERGED" => Cardinality(applied) >= MaxClosureRounds

=============================================================================
