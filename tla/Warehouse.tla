------------------------------ MODULE Warehouse ------------------------------
(***************************************************************************)
(* What the warehouse answers: the meaning of predicates and aggregates, and*)
(* of the texts the compiler writes.  The engine is not part of the source;  *)
(* this is the SQL the compiler relies on, with integers for all values.     *)
(***************************************************************************)
EXTENDS SqlCompiler

CONSTANTS
  Values  \* Values[x]: the value of a parameter or literal

Null == -1

Compared(op, a, b) ==
  /\ a # Null /\ b # Null
  /\ CASE op = "eq" -> a = b [] op = "ne" -> a # b
       [] op = "gte" -> a >= b [] op = "gt" -> a > b
       [] op = "lte" -> a <= b [] op = "lt" -> a < b

\* Whether a predicate holds of the values of its operands.
Satisfied(op, vs) ==
  CASE op = "is_null" -> vs[1] = Null
    [] op = "not_null" -> vs[1] # Null
    [] op = "lt_or_null" -> Compared("lt", vs[1], vs[2]) \/ vs[2] = Null
    [] op = "in" -> \E i \in 2..Len(vs) : Compared("eq", vs[1], vs[i])
    [] OTHER -> Compared(op, vs[1], vs[2])

\* What is aggregated, val[x] being the arguments at x: how often each tuple of them occurs.
Collected(S, val) == [v \in {val[x] : x \in S} |-> Cardinality({x \in S : val[x] = v})]

\* An aggregate over a bag of arguments.
Aggregated(op, bag) ==
  LET Known(i) == {v \in DOMAIN bag : v[i] # Null}
      Size(V) == MapThenSumSet(LAMBDA v : bag[v], V)
      Total(i) == MapThenSumSet(LAMBDA v : v[i] * bag[v], Known(i))
      Distinct == {v[1] : v \in Known(1)}
  IN CASE op = "sum" -> <<Total(1)>>
       [] op = "count_rows" -> <<Size(DOMAIN bag)>>
       [] op = "count" -> <<Size(Known(1))>>
       [] op = "count_distinct" -> <<Cardinality(Distinct)>>
       [] op = "sum_distinct" -> <<MapThenSumSet(LAMBDA v : v, Distinct)>>
       [] op = "avg" -> <<Total(1), Size(Known(1))>>
       [] op = "min" -> <<IF Distinct = {} THEN Null ELSE Min(Distinct)>>
       [] op = "max" -> <<IF Distinct = {} THEN Null ELSE Max(Distinct)>>
       [] op = "ratio" -> <<Total(1), Size(Known(2))>>

-----------------------------------------------------------------------------
(* A text over its values.  An environment maps aliases to rows.             *)

\* How many placeholders come before the j-th argument of the i-th predicate.
Before(es, i, j) ==
  Len(Placeholders(SubSeq(es, 1, i - 1)))
    + Len(Among(SubSeq(es[i].args, 1, j - 1), {Placeholder}))

\* The predicates of a text with the values in the place of the placeholders.
Filled(es, values) ==
  [i \in DOMAIN es |->
     Predicate(es[i].op,
       [j \in DOMAIN es[i].args |->
          IF es[i].args[j] = Placeholder
            THEN [alias |-> -1, value |-> Values[values[Before(es, i, j) + 1]]]
            ELSE es[i].args[j]])]

ValueOf(x, env) == IF x.alias = -1 THEN x.value ELSE env[x.alias][x.name]

Satisfies(env, e) == Satisfied(e.op, [i \in DOMAIN e.args |-> ValueOf(e.args[i], env)])

SatisfiesAll(env, es) == \A e \in Range(es) : Satisfies(env, e)

NullRow(t) == [n \in {c[2] : c \in {d \in Columns : TableOf(d) = t}} |-> Null]

\* A further row in an environment, or in a reading.
With(m, x, row) == [y \in DOMAIN m \cup {x} |-> IF y = x THEN row ELSE m[y]]

\* Each environment with each row that matches, or with none where the join is a left one.
JoinedWith(envs, alias, rel, on, w) ==
  UNION {LET matches == {row \in w[rel.table] : SatisfiesAll(With(env, alias, row), on)}
             rows == IF matches = {} /\ rel.type = "left" THEN {NullRow(rel.table)} ELSE matches
         IN {With(env, alias, row) : row \in rows} : env \in envs}

\* The ON clauses of the relations with their values: they come first in the text.
OnFilled(text, filled) ==
  LET upto(k) == Len(FlattenSeq([i \in 1..k |-> text.relations[i].on]))
  IN [k \in DOMAIN text.relations |-> SubSeq(filled, upto(k - 1) + 1, upto(k))]

FromClause(text, filled, w) ==
  LET on == OnFilled(text, filled)
      from[k \in 0..Len(text.relations)] ==
        IF k = 0 THEN {<<>>} ELSE JoinedWith(from[k - 1], k - 1, text.relations[k], on[k], w)
  IN from[Len(text.relations)]

WhereFrom(text) == Len(FlattenSeq([i \in DOMAIN text.relations |-> text.relations[i].on]))

\* The combinations of rows that a text counts.
Counted(text, values, w) ==
  LET filled == Filled(TextClauses(text), values)
      kept == SubSeq(filled, WhereFrom(text) + 1, WhereFrom(text) + Len(text.where))
  IN {env \in FromClause(text, filled, w) : SatisfiesAll(env, kept)}

\* The calendar period of an instant: two instants make one.
Period(v) == IF v = Null THEN Null ELSE v \div 2

KeyOf(item, v) == IF item.op = "date_trunc" THEN Period(v) ELSE v

\* The rows of the answer, each the values of its groups followed by the measure.
Answer(text, values, w) ==
  LET filled == Filled(TextClauses(text), values)
      having == SubSeq(filled, WhereFrom(text) + Len(text.where) + 1, Len(filled))
      envs == Counted(text, values, w)
      Key(env) == [i \in DOMAIN text.group |->
                     KeyOf(text.group[i], ValueOf(text.group[i].args[1], env))]
      keys == IF text.group = <<>> THEN {<<>>} ELSE {Key(env) : env \in envs}
      measure == text.items[Len(text.items)]
      val == [env \in envs |->
                [i \in DOMAIN measure.args |-> ValueOf(measure.args[i], env)]]
  IN {Append(k, Aggregated(measure.op, Collected({env \in envs : Key(env) = k}, val))) :
        k \in {k \in keys : \A env \in envs : Key(env) = k => SatisfiesAll(env, having)}}
==============================================================================
