----------------------------- MODULE SqlCompiler -----------------------------
(***************************************************************************)
(* app/sql/compiler.py: a logical plan becomes the text of a query and the  *)
(* values bound to its placeholders, which are matched by position alone.   *)
(* A text is kept as what parsing it yields: the relations with their ON     *)
(* conjuncts, the projected items, and the conjuncts of WHERE and HAVING.    *)
(***************************************************************************)
EXTENDS Lowering

\* A term of the text: a column by the alias of its relation, or a bound value.
Ref(alias, name) == [alias |-> alias, name |-> name]
Placeholder == Ref(-1, "?")
Inline == Ref(-2, "'literal'")

Term(lp, x) == IF x \in Columns THEN Ref(lp.alias[TableOf(x)], x[2]) ELSE Placeholder

Written(lp, e) == Predicate(e.op, [i \in DOMAIN e.args |-> Term(lp, e.args[i])])

AllWritten(lp, es) == [i \in DOMAIN es |-> Written(lp, es[i])]

\* The order in which _Ctx.operand meets the operands of a predicate: the members of a
\* list come before what is looked up in it.
Emitted(e) == IF e.op = "in" THEN Tail(e.args) \o <<Head(e.args)>> ELSE e.args

Bound(es) ==
  FlattenSeq([i \in DOMAIN es |-> Among(Emitted(es[i]), Bindings)])

\* Variant: HAVING is compiled before WHERE.
ClausesHavingFirst(lp) ==
  FlattenSeq([i \in DOMAIN lp.joins |-> lp.joins[i].predicates]) \o lp.having \o lp.where

\* The predicates in the order they are compiled.
Clauses(lp) ==
  FlattenSeq([i \in DOMAIN lp.joins |-> lp.joins[i].predicates]) \o lp.where \o lp.having

\* _Ctx.referenced_columns.
Referenced(lp) ==
  ColumnsIn(lp.measure) \cup AllColumnsIn(lp.group) \cup AllColumnsIn(Clauses(lp))

Text(lp) ==
  [statements |-> 1,
   items |-> AllWritten(lp, Append(lp.group, lp.measure)),
   relations |->
     <<[table |-> lp.base, type |-> "from", on |-> <<>>]>> \o
     [i \in DOMAIN lp.joins |-> [table |-> lp.joins[i].to, type |-> lp.joins[i].type,
                                 on |-> AllWritten(lp, lp.joins[i].predicates)]],
   where |-> AllWritten(lp, lp.where),
   group |-> AllWritten(lp, lp.group),
   having |-> AllWritten(lp, lp.having)]

\* The predicates of a text, in the order they are read.
TextClauses(text) ==
  FlattenSeq([i \in DOMAIN text.relations |-> text.relations[i].on])
    \o text.where \o text.having

Placeholders(es) == FlattenSeq([i \in DOMAIN es |-> Among(es[i].args, {Placeholder})])

-----------------------------------------------------------------------------
\* SqlCompiler.compile raises on a column of a table that is not scanned, on an unbound
\* parameter, and when the placeholders do not count up to the values.
Compiles(lp, supplied) ==
  /\ \A c \in Referenced(lp) : TableOf(c) \in DOMAIN lp.alias
  /\ \A v \in Range(Bound(Clauses(lp))) : v[1] = "parameter" => v[2] \in supplied
  /\ Len(Placeholders(TextClauses(Text(lp)))) = Len(Bound(Clauses(lp)))

\* _and_all reads the first of the parts it is given, so that a join without predicates
\* leaves the compiler with an IndexError, which is no CompilationError.
Conditioned(lp) == \A j \in Range(lp.joins) : j.predicates # <<>>

\* Only what the validators read again.
Compile(lp) ==
  [text |-> Text(lp),
   values |-> Bound(Clauses(lp)),
   columns |-> Referenced(lp),
   tables |-> {TableOf(c) : c \in Referenced(lp)} \cup DOMAIN lp.alias]
==============================================================================
