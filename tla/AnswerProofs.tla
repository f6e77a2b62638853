----------------------------- MODULE AnswerProofs -----------------------------
(***************************************************************************)
(* What a text answers, for any catalog, any plans the binder makes and any  *)
(* contents of the warehouse.  As it was compiled: the environments it       *)
(* counts are the readings of its plan, an attestation proves what it        *)
(* should, and so each fact counts once, in its group.  With a defect that   *)
(* the gates let pass: what is counted is governed all the same.             *)
(***************************************************************************)
EXTENDS CompilationProofs

-----------------------------------------------------------------------------
(* What the plan restricts the base to.                                       *)

\* What the attestation restricts the facts by.
LEMMA FactsRestricted ==
  ASSUME NEW lp, Compiled(lp)
  PROVE  /\ FactOnly(lp) \in Seq(Expressions)
         /\ Range(FactOnly(lp)) = {p \in Range(Where(plan)) : OnlyBase(p)}
<1>. DEFINE X == {p \in Range(Where(plan)) : OnlyBase(p)}
<1>1. AsBound(plan) /\ KeysFound /\ lp.where = Where(plan) /\ lp.base = plan.base
  BY ColumnsScanned DEF Compiled, Lower
<1>2. Where(plan) \in Seq(Expressions)
  BY <1>1, WhereParts
<1>3. FactOnly(lp) \in Seq(Expressions) /\ Range(FactOnly(lp)) = X
  <2>1. FactOnly(lp) = Among(Where(plan), X)
    BY <1>1 DEF FactOnly, OnlyOn, OnlyBase
  <2>2. Range(Where(plan)) \cap X = X
    OBVIOUS
  <2>. DEFINE s == Where(plan)
              E == Expressions
  <2>3. s \in Seq(E)
    BY <1>2
  <2>. HIDE DEF X, s, E
  <2>4. Among(s, X) \in Seq(E) /\ Range(Among(s, X)) = Range(s) \cap X
    BY ONLY <2>3, AmongRange
  <2>. QED BY <2>1, <2>2, <2>4 DEF s, E
<1>. QED BY <1>3

\* What the attestation restricts the facts by is what puts them in question.
LEMMA FactsInQuestion ==
  ASSUME NEW lp, Compiled(lp), NEW w \in Warehouses, NEW fact \in w[plan.base]
  PROVE  HoldAll(FactOnly(lp), Alone(fact)) <=> InQuestion(fact)
<1>. DEFINE m == Alone(fact)
            X == {p \in Range(Where(plan)) : OnlyBase(p)}
<1>1. AsBound(plan) /\ lp = Lower(plan) /\ KeysFound /\ lp.where = Where(plan) /\ lp.base = plan.base
  BY ColumnsScanned DEF Compiled, Lower
<1>2. /\ Where(plan) \in Seq(Expressions)
      /\ Range(Where(plan)) =
           Range(TenantPredicates(plan)) \cup Range(TimePredicates(plan))
             \cup Range(plan.population \o plan.filters) \cup PlacedAt("before_aggregation")
  BY <1>1, WhereParts
<1>3. FactOnly(lp) \in Seq(Expressions) /\ Range(FactOnly(lp)) = X
  BY FactsRestricted
<1>4. DOMAIN m = {plan.base} /\ m[plan.base] = fact /\ plan.base \in Range(Scanned(plan))
  <2>1. Scanned(plan)[1] = plan.base /\ 1 \in DOMAIN Scanned(plan)
    BY <1>1, ScansNumbered, PlanTyped
  <2>. QED BY <2>1 DEF Alone, Range
<1>5. (\A p \in Range(TenantPredicates(plan)) : p \in X => Holds(p, m)) <=> OfTenant(m)
  <2>1. ASSUME NEW t \in Range(TenantTables(plan)) PROVE TenantPredicate(t) \in X <=> t = plan.base
    <3>1. Catalog[t].tenant_key \in Columns /\ TableOf(Catalog[t].tenant_key) = t
      BY <1>1, KeysOfTables
    <3>2. ColumnsIn(TenantPredicate(t)) = {Catalog[t].tenant_key}
      <4>1. "eq" \in Operators
        BY DEF Operators, Comparisons
      <4>. QED BY <3>1, <4>1, OneColumn DEF TenantPredicate
    <3>3. TenantPredicate(t) \in Range(TenantPredicates(plan))
      <4>1. TenantPredicates(plan) = [i \in DOMAIN TenantTables(plan) |-> TenantPredicate(TenantTables(plan)[i])]
        BY DEF TenantPredicates, TenantPredicate
      <4>. QED BY <4>1 DEF Range
    <3>4. OnlyBase(TenantPredicate(t)) <=> t = plan.base
      BY <3>1, <3>2 DEF OnlyBase
    <3>. QED BY <1>2, <3>3, <3>4
  <2>. HIDE DEF m, X
  <2>2. OfTenant(m) <=> \A t \in Range(TenantTables(plan)) : t \in DOMAIN m =>
                          m[t][Catalog[t].tenant_key[2]] = Values[<<"parameter", "p_tenant">>]
    BY <1>1, <1>4, OfTenantMeans
  <2>3. (\A p \in Range(TenantPredicates(plan)) : p \in X => Holds(p, m)) <=>
          \A t \in Range(TenantTables(plan)) : TenantPredicate(t) \in X =>
            m[t][Catalog[t].tenant_key[2]] = Values[<<"parameter", "p_tenant">>]
    BY <1>1, TenantMeans
  <2>. QED BY <1>4, <2>1, <2>2, <2>3
<1>6. (\A p \in Range(TimePredicates(plan)) : p \in X => Holds(p, m)) <=>
        ((\A t \in Range(plan.time) : TableOf(t.column) = plan.base) => InTime(m))
  <2>1. CASE plan.time = <<>>
    <3>1. TimePredicates(plan) = <<>> /\ Range(<<>>) = {}
      BY <2>1 DEF TimePredicates, Range
    <3>. QED BY <2>1, <3>1 DEF InTime
  <2>2. CASE plan.time # <<>>
    <3>. DEFINE c == plan.time[1].column
    <3>0. c \in Columns /\ Range(plan.time) = {plan.time[1]}
      <4>1. PICK x \in Columns, b \in BOOLEAN : plan.time = <<[column |-> x, bucket |-> b]>>
        <5>1. plan.time \in {<<[column |-> x, bucket |-> b]>> : x \in Columns, b \in BOOLEAN}
          BY <1>1, <2>2 DEF AsBound
        <5>. QED BY <5>1
      <4>. QED BY <4>1 DEF Range
    <3>1. CASE TableOf(c) = plan.base
      <4>1. Meaning(c, m) \in Int
        <5>1. w[plan.base] \subseteq [{x[2] : x \in {d \in Columns : TableOf(d) = plan.base}} -> Int]
          BY <1>1, PlanTyped, WarehouseAssumption
        <5>2. c[2] \in {x[2] : x \in {d \in Columns : TableOf(d) = plan.base}}
          BY <3>0, <3>1
        <5>3. fact[c[2]] \in Int
          BY <5>1, <5>2
        <5>. QED BY <1>4, <3>0, <3>1, <5>3 DEF Meaning
      <4>2. /\ \A p \in Range(TimePredicates(plan)) : ColumnsIn(p) = {c}
            /\ (\A p \in Range(TimePredicates(plan)) : Holds(p, m)) <=> InTime(m)
        BY <1>1, <2>2, <4>1, TimeMeans
      <4>3. \A p \in Range(TimePredicates(plan)) : p \in X
        BY <1>2, <3>1, <4>2 DEF OnlyBase
      <4>. QED BY <3>0, <3>1, <4>2, <4>3
    <3>2. CASE TableOf(c) # plan.base
      <4>1. \A p \in Range(TimePredicates(plan)) : ColumnsIn(p) = {c}
        <5>. DEFINE p == Predicate("gte", <<c, <<"parameter", "p_time_start">>>>)
                    q == Predicate("lt", <<c, <<"parameter", "p_time_end">>>>)
        <5>1. TimePredicates(plan) = <<p, q>>
          BY <2>2 DEF TimePredicates
        <5>2. ColumnsIn(p) = {c} /\ ColumnsIn(q) = {c}
          <6>1. "gte" \in Operators /\ "lt" \in Operators
            BY DEF Operators, Comparisons
          <6>. HIDE DEF c
          <6>. QED BY <3>0, <6>1, OneColumn
        <5>. HIDE DEF p, q
        <5>3. Range(<<p, q>>) = {p, q}
          BY DEF Range
        <5>. QED BY <5>1, <5>2, <5>3
      <4>2. \A p \in Range(TimePredicates(plan)) : p \notin X
        BY <3>2, <4>1 DEF OnlyBase
      <4>. QED BY <3>0, <3>2, <4>2
    <3>. QED BY <3>1, <3>2
  <2>. QED BY <2>1, <2>2
<1>7. (\A p \in Range(plan.population \o plan.filters) : p \in X => Holds(p, m)) <=>
        \A p \in OnBase(plan.population \o plan.filters) : Holds(p, m)
  BY <1>2 DEF OnBase, OnlyBase
<1>8. (\A p \in PlacedAt("before_aggregation") : p \in X => Holds(p, m)) <=>
        \A o \in Range(plan.obligations) :
          o.placement = "before_aggregation" => \A p \in OnBase(o.predicate) : Holds(p, m)
  <2>. DEFINE D == PlacedAt("before_aggregation")
              O == {u \in Range(plan.obligations) : u.placement = "before_aggregation"}
              H(p) == Holds(p, m)
              W == Range(Where(plan))
  <2>1. D \subseteq W
    BY <1>2
  <2>2. D = UNION {Range(o.predicate) : o \in O}
    BY DEF PlacedAt
  <2>3. X = {p \in W : OnlyBase(p)}
    OBVIOUS
  <2>4. \A o \in O : OnBase(o.predicate) = {p \in Range(o.predicate) : OnlyBase(p)}
    BY DEF OnBase, OnlyBase
  <2>5. (\A o \in O : \A p \in OnBase(o.predicate) : H(p)) <=>
          \A o \in Range(plan.obligations) :
            o.placement = "before_aggregation" => \A p \in OnBase(o.predicate) : H(p)
    OBVIOUS
  <2>. HIDE DEF m, D, O, H, W, X
  <2>6. (\A p \in D : p \in X => H(p)) <=> \A o \in O : \A p \in OnBase(o.predicate) : H(p)
    <3>1. ASSUME \A p \in D : p \in X => H(p), NEW o \in O, NEW p \in OnBase(o.predicate)
          PROVE  H(p)
      <4>1. p \in Range(o.predicate) /\ OnlyBase(p)
        BY <2>4, <3>1
      <4>2. p \in D
        BY <2>2, <4>1
      <4>. QED BY <2>1, <2>3, <3>1, <4>1, <4>2
    <3>2. ASSUME \A o \in O : \A p \in OnBase(o.predicate) : H(p), NEW p \in D, p \in X
          PROVE  H(p)
      <4>1. PICK o \in O : p \in Range(o.predicate)
        BY <2>2
      <4>. QED BY <2>3, <2>4, <3>2, <4>1
    <3>. QED BY <3>1, <3>2
  <2>. QED BY <2>5, <2>6 DEF D, H
<1>9. InQuestion(fact) <=>
        /\ OfTenant(m)
        /\ (\A t \in Range(plan.time) : TableOf(t.column) = plan.base) => InTime(m)
        /\ \A p \in OnBase(plan.population \o plan.filters) : Holds(p, m)
        /\ \A o \in Range(plan.obligations) :
             o.placement = "before_aggregation" => \A p \in OnBase(o.predicate) : Holds(p, m)
  BY DEF InQuestion
<1>10. HoldAll(FactOnly(lp), m) <=> \A p \in X : Holds(p, m)
  <2>. HIDE DEF m, X
  <2>. QED BY <1>3 DEF HoldAll
<1>11. X \subseteq Range(TenantPredicates(plan)) \cup Range(TimePredicates(plan))
                     \cup Range(plan.population \o plan.filters) \cup PlacedAt("before_aggregation")
  BY <1>2
<1>12. (\A p \in X : Holds(p, m)) <=>
         /\ \A p \in Range(TenantPredicates(plan)) : p \in X => Holds(p, m)
         /\ \A p \in Range(TimePredicates(plan)) : p \in X => Holds(p, m)
         /\ \A p \in Range(plan.population \o plan.filters) : p \in X => Holds(p, m)
         /\ \A p \in PlacedAt("before_aggregation") : p \in X => Holds(p, m)
  <2>. HIDE DEF m, X
  <2>. QED BY <1>11
<1>. QED BY <1>5, <1>6, <1>7, <1>8, <1>9, <1>10, <1>12

-----------------------------------------------------------------------------
(* What the attestations count.                                               *)

\* The numbers of the base and of a joined table.
LEMMA TablesNumbered ==
  ASSUME AsBound(plan), NEW i \in 1..Len(plan.joins)
  PROVE  /\ Alias(plan, plan.base) = 0 /\ Alias(plan, plan.joins[i].to) = i
         /\ plan.joins[i].to # plan.base
         /\ {plan.base, plan.joins[i].to} \subseteq Range(Scanned(plan))
<1>. DEFINE s == Scanned(plan)
            n == Len(plan.joins)
            t == plan.joins[i].to
            b == plan.base
<1>1. /\ n \in Nat /\ DOMAIN s = 1..n + 1 /\ s[1] = b /\ s[i + 1] = t
      /\ \A u \in Range(s) : /\ Alias(plan, u) \in Nat /\ Alias(plan, u) + 1 \in DOMAIN s
                             /\ s[Alias(plan, u) + 1] = u
  BY PlanTyped, ScansNumbered
<1>2. \A k, m \in DOMAIN s : s[k] = s[m] => k = m
  BY DEF AsBound
<1>. HIDE DEF s, n, t, b
<1>3. i \in 1..n
  BY DEF n
<1>4. 1 \in DOMAIN s /\ i + 1 \in DOMAIN s /\ i + 1 # 1
  BY <1>1, <1>3
<1>5. b \in Range(s) /\ t \in Range(s)
  BY <1>1, <1>4 DEF Range
<1>6. b # t
  BY <1>1, <1>2, <1>4
<1>7. Alias(plan, b) + 1 = 1 /\ Alias(plan, t) + 1 = i + 1
  BY <1>1, <1>2, <1>4, <1>5
<1>8. Alias(plan, b) = 0 /\ Alias(plan, t) = i
  BY <1>1, <1>3, <1>5, <1>7
<1>. QED BY <1>5, <1>6, <1>8 DEF s, t, b

\* What the attestation of a join reads can be written.
LEMMA AttestationWritable ==
  ASSUME NEW lp, Compiled(lp), LooksUp(Clauses(lp)), NEW i \in 1..Len(plan.joins)
  PROVE  /\ lp.joins[i].predicates \in Seq(Expressions)
         /\ lp.joins[i].predicates = Relationships[plan.joins[i].rel].predicates
         /\ \A e \in Range(lp.joins[i].predicates) \cup Range(Where(plan)) : Writable(lp, e)
<1>1. AsBound(plan) /\ lp = Lower(plan) /\ KeysFound
  BY ColumnsScanned DEF Compiled
<1>2. /\ lp.joins[i].predicates = Relationships[plan.joins[i].rel].predicates
      /\ lp.joins[i].predicates \in Seq(Expressions) /\ plan.joins[i] \in Range(plan.joins)
  <2>1. i \in DOMAIN plan.joins
    BY <1>1, PlanTyped
  <2>. QED BY <1>1, <2>1, PlanTyped, JoinsLowered DEF Range
<1>3. Range(Clauses(lp)) = Conditions \cup Range(Where(plan)) \cup PlacedAt("after_aggregation")
  BY <1>1, ClausesTouched
<1>4. Range(lp.joins[i].predicates) \subseteq Conditions
  BY <1>2 DEF Conditions
<1>5. \A e \in Range(Clauses(lp)) : Writable(lp, e)
  BY ClausesWritable
<1>. QED BY <1>2, <1>3, <1>4, <1>5

\* The query of an attestation says what the join and the facts in question say.
LEMMA AttestationSays ==
  ASSUME NEW lp, Compiled(lp), LooksUp(Clauses(lp)), NEW i \in 1..Len(plan.joins)
  PROVE  /\ Attested(lp, lp.joins[i]).on = GivenSeq(lp, lp.joins[i].predicates)
         /\ Attested(lp, lp.joins[i]).where = GivenSeq(lp, FactOnly(lp))
<1>. DEFINE a == lp.joins[i].predicates
            b == FactOnly(lp)
            E == Expressions
<1>1. /\ a \in Seq(E) /\ \A e \in Range(a) : Writable(lp, e)
      /\ b \in Seq(E) /\ \A e \in Range(b) : Writable(lp, e)
  BY AttestationWritable, FactsRestricted
<1>. DEFINE g == Filled(AllWritten(lp, a \o b), Bound(a \o b))
<1>2. Attested(lp, lp.joins[i]) =
        [on |-> SubSeq(g, 1, Len(a)), where |-> SubSeq(g, Len(a) + 1, Len(g))]
  BY DEF Attested
<1>. HIDE DEF a, b
<1>3. a \o b \in Seq(E) /\ Range(a \o b) = Range(a) \cup Range(b)
  <2>. HIDE DEF E
  <2>. QED BY <1>1, RangeOfConcat
<1>4. Len(g) = Len(a \o b) /\ g = GivenSeq(lp, a \o b)
  <2>1. \A e \in Range(a \o b) : Writable(lp, e)
    BY <1>1, <1>3
  <2>. DEFINE es == a \o b
  <2>2. es \in Seq(Expressions) /\ \A e \in Range(es) : Writable(lp, e)
    BY <1>3, <2>1
  <2>. HIDE DEF es
  <2>3. /\ Len(Filled(AllWritten(lp, es), Bound(es))) = Len(es)
        /\ Filled(AllWritten(lp, es), Bound(es)) = GivenSeq(lp, es)
    BY <2>2, ValuesMeet DEF GivenSeq
  <2>. QED BY <2>3 DEF es
<1>. HIDE DEF g, E
<1>5. /\ Len(a \o b) = Len(a) + Len(b) /\ Len(a) \in Nat /\ Len(b) \in Nat
      /\ \A j \in 1..Len(a) : (a \o b)[j] = a[j]
      /\ \A j \in 1..Len(b) : (a \o b)[Len(a) + j] = b[j]
  BY <1>1, ConcatAt
<1>6. Slice(a \o b, 0, a) /\ Slice(a \o b, Len(a), b)
  <2>1. \A j \in 1..Len(a) : 0 + j = j /\ j \in 1..Len(a \o b)
    BY <1>5
  <2>2. \A j \in 1..Len(b) : Len(a) + j \in 1..Len(a \o b)
    BY <1>5
  <2>. QED BY <1>5, <2>1, <2>2 DEF Slice
<1>7. SubSeq(g, 0 + 1, 0 + Len(a)) = GivenSeq(lp, a)
  BY <1>1, <1>3, <1>4, <1>6, SliceGiven DEF E
<1>8. SubSeq(g, Len(a) + 1, Len(a) + Len(b)) = GivenSeq(lp, b)
  BY <1>1, <1>3, <1>4, <1>5, <1>6, SliceGiven DEF E
<1>9. 0 + 1 = 1 /\ 0 + Len(a) = Len(a)
  BY <1>5
<1>10. Len(g) = Len(a) + Len(b)
  BY <1>4, <1>5
<1>11. SubSeq(g, 1, Len(a)) = GivenSeq(lp, a) /\ SubSeq(g, Len(a) + 1, Len(g)) = GivenSeq(lp, b)
  BY ONLY <1>7, <1>8, <1>9, <1>10
<1>12. /\ Attested(lp, lp.joins[i]).on = SubSeq(g, 1, Len(a))
       /\ Attested(lp, lp.joins[i]).where = SubSeq(g, Len(a) + 1, Len(g))
  BY ONLY <1>2
<1>13. /\ Attested(lp, lp.joins[i]).on = GivenSeq(lp, a)
       /\ Attested(lp, lp.joins[i]).where = GivenSeq(lp, b)
  BY ONLY <1>11, <1>12
<1>. QED BY <1>13 DEF a, b

\* A fact with each of the rows it is joined to.
Paired(j, fact, on) == {fact} \X LeftJoined(j, on)

\* The probe counts the rows that a fact meets, and not the row that stands for none.
LEMMA PairsCounted ==
  ASSUME NEW j, j.to \in Tables, Probes(j) # <<>>, NEW w \in Warehouses, NEW fact,
         NEW on, on \subseteq w[j.to]
  PROVE  CountedMatches(j, Paired(j, fact, on)) = 1 <=> \E row \in on : on = {row}
<1>. DEFINE t == j.to
            c == Probes(j)[1]
            P == {p \in {fact} \X LeftJoined(j, on) : p[2][c[2]] # Null}
<1>1. c \in Range(Catalog[t].grain) /\ c \in Catalog[t].nonnull /\ c \in Columns /\ TableOf(c) = t
  <2>. DEFINE S == {d \in Columns : TableOf(d) = t}
              g == Catalog[t].grain
              X == Catalog[t].nonnull
  <2>1. g \in Seq(S)
    BY CatalogAssumption
  <2>2. Probes(j) = Among(g, X)
    BY DEF Probes
  <2>. HIDE DEF S, g, X, t
  <2>3. Among(g, X) \in Seq(S) /\ Range(Among(g, X)) = Range(g) \cap X
    BY ONLY <2>1, AmongRange
  <2>4. 1 \in DOMAIN Probes(j) /\ c \in S
    BY <2>2, <2>3
  <2>5. c \in Range(Probes(j))
    BY <2>4 DEF Range
  <2>. QED BY <2>2, <2>3, <2>4, <2>5 DEF S, g, X, t
<1>2. \A row \in on : row[c[2]] # Null
  BY <1>1, WarehouseAssumption
<1>3. NullRow(t)[c[2]] = Null
  <2>1. c[2] \in {d[2] : d \in {x \in Columns : TableOf(x) = t}}
    BY <1>1
  <2>. QED BY <2>1 DEF NullRow
<1>4. IsFiniteSet(on)
  <2>1. IsFiniteSet(w[t]) /\ on \in SUBSET w[t]
    BY WarehouseAssumption
  <2>. QED BY <2>1, FS_Subset
<1>. HIDE DEF c
<1>5. CountedMatches(j, Paired(j, fact, on)) = Cardinality(P)
  BY DEF CountedMatches, Paired, c
<1>6. CASE on = {}
  <2>1. LeftJoined(j, on) = {NullRow(t)}
    BY <1>6 DEF LeftJoined
  <2>2. P = {}
    BY <1>3, <2>1
  <2>3. Cardinality(P) = 0
    BY <2>2, FS_EmptySet
  <2>. QED BY <1>5, <1>6, <2>3
<1>7. CASE on # {}
  <2>1. P = {fact} \X on
    BY <1>2, <1>7 DEF LeftJoined
  <2>. HIDE DEF P
  <2>2. ExistsBijection(on, P)
    <3>. DEFINE h == [row \in on |-> <<fact, row>>]
    <3>1. h \in [on -> P] /\ \A a, b \in on : h[a] = h[b] => a = b
      BY <2>1
    <3>2. \A p \in P : \E row \in on : h[row] = p
      BY <2>1
    <3>. HIDE DEF h
    <3>3. h \in Bijection(on, P)
      BY <3>1, <3>2 DEF Bijection, Injection, Surjection, IsInjective
    <3>. QED BY <3>3 DEF ExistsBijection
  <2>3. Cardinality(P) = Cardinality(on)
    BY <1>4, <2>2, FS_Bijection
  <2>4. Cardinality(on) = 1 <=> \E row : on = {row}
    BY <1>4, FS_Singleton
  <2>. QED BY <1>5, <2>3, <2>4
<1>. QED BY <1>6, <1>7

\* The rows that a fact meets across a join.
Met(fact, j, w) ==
  {row \in w[j.to] : HoldAll(Relationships[j.rel].predicates, With(Alone(fact), j.to, row))}

LEMMA OneMet ==
  ASSUME NEW fact, NEW j, NEW w
  PROVE  MeetsOne(fact, j, w) <=> \E row \in Met(fact, j, w) : Met(fact, j, w) = {row}
BY DEF MeetsOne, Met

\* What the conditions of a join say where the attestation looks at them.
LEMMA MetSays ==
  ASSUME NEW lp, Compiled(lp), LooksUp(Clauses(lp)), NEW i \in 1..Len(plan.joins),
         Attestable(lp, lp.joins[i]), NEW fact, NEW row
  PROVE  SatisfiesAll(With([a \in {0} |-> fact], lp.alias[lp.joins[i].to], row),
                      GivenSeq(lp, lp.joins[i].predicates))
           <=> HoldAll(lp.joins[i].predicates, With(Alone(fact), lp.joins[i].to, row))
<1>. DEFINE t == plan.joins[i].to
            es == lp.joins[i].predicates
            env == With([a \in {0} |-> fact], i, row)
            m == With(Alone(fact), t, row)
            T == {plan.base, t}
<1>1. /\ AsBound(plan) /\ lp = Lower(plan) /\ lp.base = plan.base /\ lp.joins[i].to = t
      /\ i \in Nat /\ i # 0
  <2>1. AsBound(plan) /\ lp = Lower(plan)
    BY DEF Compiled
  <2>2. lp.joins[i].to = t
    BY <2>1, JoinsLowered
  <2>3. Len(plan.joins) \in Nat
    BY <2>1, PlanTyped
  <2>4. lp.base = plan.base
    BY <2>1 DEF Lower
  <2>. QED BY <2>1, <2>2, <2>3, <2>4
<1>2. Alias(plan, plan.base) = 0 /\ Alias(plan, t) = i /\ t # plan.base /\ T \subseteq Range(Scanned(plan))
  BY <1>1, TablesNumbered
<1>3. lp.alias[lp.joins[i].to] = i
  BY <1>1, <1>2 DEF Lower
<1>4. Agree(env, m, T)
  <2>1. env[0] = fact /\ env[i] = row
    BY <1>1 DEF With
  <2>2. m[plan.base] = fact /\ m[t] = row
    BY <1>2 DEF With, Alone
  <2>. HIDE DEF env, m
  <2>. QED BY <1>2, <2>1, <2>2 DEF Agree
<1>5. Sayable(lp, es, T)
  <2>1. es \in Seq(Expressions) /\ \A e \in Range(es) : Writable(lp, e)
    BY AttestationWritable
  <2>2. \A e \in Range(es) : \A c \in ColumnsIn(e) : TableOf(c) \in T
    BY <1>1 DEF Attestable, AllColumnsIn
  <2>. QED BY <1>2, <2>1, <2>2 DEF Sayable
<1>. HIDE DEF env, m, T, es
<1>6. SatisfiesAll(env, GivenSeq(lp, es)) <=> HoldAll(es, m)
  BY <1>4, <1>5, AllGivenHold
<1>. QED BY <1>1, <1>3, <1>6 DEF env, m, es

\* What WHERE says of a fact is whether it is in question.
LEMMA FactSays ==
  ASSUME NEW lp, Compiled(lp), LooksUp(Clauses(lp)), 1 \in 1..Len(plan.joins),
         NEW w \in Warehouses, NEW fact \in w[plan.base]
  PROVE  SatisfiesAll([a \in {0} |-> fact], GivenSeq(lp, FactOnly(lp))) <=> InQuestion(fact)
<1>. DEFINE es == FactOnly(lp)
            env == [a \in {0} |-> fact]
            m == Alone(fact)
            T == {plan.base}
<1>1. AsBound(plan)
  BY DEF Compiled
<1>2. Alias(plan, plan.base) = 0 /\ T \subseteq Range(Scanned(plan))
  BY <1>1, TablesNumbered
<1>3. Agree(env, m, T)
  BY <1>2 DEF Agree, Alone
<1>4. Sayable(lp, es, T)
  <2>1. /\ es \in Seq(Expressions)
        /\ \A e \in Range(es) : Writable(lp, e) /\ OnlyBase(e)
    BY AttestationWritable, FactsRestricted
  <2>2. \A e \in Range(es) : \A c \in ColumnsIn(e) : TableOf(c) \in T
    BY <2>1 DEF OnlyBase
  <2>. QED BY <1>2, <2>1, <2>2 DEF Sayable
<1>5. HoldAll(es, m) <=> InQuestion(fact)
  BY FactsInQuestion
<1>. HIDE DEF env, m, T, es
<1>6. SatisfiesAll(env, GivenSeq(lp, es)) <=> HoldAll(es, m)
  BY <1>3, <1>4, AllGivenHold
<1>. QED BY <1>5, <1>6 DEF env, es

\* An attestation proves its join when each fact in question meets exactly one row, and
\* only then.
LEMMA ProvedExactly ==
  ASSUME NEW lp, Compiled(lp), LooksUp(Clauses(lp)), NEW i \in 1..Len(plan.joins),
         Attestable(lp, lp.joins[i]), NEW w \in Warehouses, GrainIsKey(plan, w)
  PROVE  Proved(lp, lp.joins[i], w) <=>
           \A fact \in w[plan.base] : InQuestion(fact) => MeetsOne(fact, plan.joins[i], w)
<1>. DEFINE j == lp.joins[i]
            J == plan.joins[i]
            B == w[plan.base]
            query == Attested(lp, j)
            facts == {fact \in w[lp.base] : SatisfiesAll([a \in {0} |-> fact], query.where)}
            Key(fact) == [k \in DOMAIN Catalog[lp.base].grain |-> fact[Catalog[lp.base].grain[k][2]]]
            On(fact) == {row \in w[j.to] :
                           SatisfiesAll(With([a \in {0} |-> fact], lp.alias[j.to], row), query.on)}
            Pairs(g) == UNION {{f} \X LeftJoined(j, On(f)) : f \in {f \in facts : Key(f) = g}}
<1>1. /\ lp.base = plan.base /\ j.to = J.to /\ J.to \in Tables /\ 1 \in 1..Len(plan.joins)
      /\ j.predicates = Relationships[J.rel].predicates
  <2>1. AsBound(plan) /\ lp = Lower(plan)
    BY DEF Compiled
  <2>2. j.to = J.to /\ j.predicates = Relationships[J.rel].predicates
    BY <2>1, JoinsLowered
  <2>3. i \in DOMAIN plan.joins /\ Len(plan.joins) \in Nat /\ J.to \in Tables
    BY <2>1, PlanTyped
  <2>4. lp.base = plan.base
    BY <2>1 DEF Lower
  <2>. QED BY <2>2, <2>3, <2>4
<1>2. query.on = GivenSeq(lp, j.predicates) /\ query.where = GivenSeq(lp, FactOnly(lp))
  BY AttestationSays
<1>3. facts = {fact \in B : InQuestion(fact)}
  BY <1>1, <1>2, FactSays
<1>4. \A fact : On(fact) = Met(fact, J, w)
  <2>1. \A fact, row : SatisfiesAll(With([a \in {0} |-> fact], lp.alias[j.to], row), query.on)
                          <=> HoldAll(j.predicates, With(Alone(fact), j.to, row))
    <3>. HIDE DEF query
    <3>. QED BY <1>2, MetSays
  <2>2. \A fact : Met(fact, J, w) = {row \in w[j.to] : HoldAll(j.predicates, With(Alone(fact), j.to, row))}
    BY <1>1 DEF Met
  <2>. HIDE DEF query, j
  <2>. QED BY <2>1, <2>2
<1>5. \A f, g \in B : Key(f) = Key(g) => f = g
  <2>. DEFINE gr == Catalog[plan.base].grain
  <2>1. ASSUME NEW f \in B, NEW g \in B, Key(f) = Key(g), NEW c \in Range(gr) PROVE f[c[2]] = g[c[2]]
    <3>1. PICK k \in DOMAIN gr : gr[k] = c
      BY DEF Range
    <3>2. Key(f)[k] = f[c[2]] /\ Key(g)[k] = g[c[2]]
      BY <1>1, <3>1
    <3>. QED BY <2>1, <3>2
  <2>. HIDE DEF Key
  <2>. QED BY <2>1 DEF GrainIsKey
<1>6. Proved(lp, j, w) <=> \A g \in {Key(fact) : fact \in facts} : CountedMatches(j, Pairs(g)) = 1
  BY DEF Proved
<1>7. \A fact \in facts : Pairs(Key(fact)) = Paired(j, fact, Met(fact, J, w))
  <2>. HIDE DEF Key, On, facts
  <2>1. ASSUME NEW fact \in facts PROVE {f \in facts : Key(f) = Key(fact)} = {fact}
    BY <1>3, <1>5
  <2>2. ASSUME NEW fact \in facts PROVE Pairs(Key(fact)) = Paired(j, fact, On(fact))
    BY <2>1 DEF Paired
  <2>. HIDE DEF Pairs
  <2>. QED BY <1>4, <2>2
<1>8. \A fact \in facts : CountedMatches(j, Paired(j, fact, Met(fact, J, w))) = 1
                            <=> MeetsOne(fact, J, w)
  <2>1. Probes(j) # <<>> /\ j.to \in Tables
    BY <1>1 DEF Attestable
  <2>2. \A fact : Met(fact, J, w) \subseteq w[j.to]
    BY <1>1 DEF Met
  <2>. HIDE DEF j, J, facts
  <2>3. ASSUME NEW fact \in facts
        PROVE  CountedMatches(j, Paired(j, fact, Met(fact, J, w))) = 1
                 <=> \E row \in Met(fact, J, w) : Met(fact, J, w) = {row}
    <3>. DEFINE on == Met(fact, J, w)
    <3>1. on \subseteq w[j.to]
      BY <2>2
    <3>. HIDE DEF on
    <3>2. CountedMatches(j, Paired(j, fact, on)) = 1 <=> \E row \in on : on = {row}
      BY <2>1, <3>1, PairsCounted
    <3>. QED BY <3>2 DEF on
  <2>4. \A fact : MeetsOne(fact, J, w) <=> \E row \in Met(fact, J, w) : Met(fact, J, w) = {row}
    BY OneMet
  <2>. QED BY <2>3, <2>4
<1>. HIDE DEF facts, Key, Pairs, j, J
<1>. QED BY <1>3, <1>6, <1>7, <1>8 DEF j, J
-----------------------------------------------------------------------------
(* What was asked of the warehouse.                                           *)

Asked == {"attested", "unproven", "answered"}

\* The verdict of the attestations and the answer stay those of the plan and the text.
Upheld ==
  LET all == ToAttest(logical) IN
  /\ pc \in Asked => /\ data \in Warehouses /\ \A j \in all : Attestable(logical, j)
                     /\ pc # "unproven" <=> \A j \in all : Proved(logical, j, data)
  /\ pc = "answered" => answer = Answer(compiled.text, compiled.values, data)

LEMMA UpheldStep == Upheld /\ [Next]_vars => Upheld'
<1>. SUFFICES ASSUME Upheld, [Next]_vars PROVE Upheld'
  OBVIOUS
<1>1. CASE LowerPlan \/ CompilePlan \/ EditText \/ Validate
  BY <1>1 DEF LowerPlan, CompilePlan, EditText, Validate, Upheld, Asked
<1>2. CASE Attest
  <2>1. /\ logical' = logical /\ data' \in Warehouses /\ pc' \in {"attested", "unproven", "failed"}
        /\ pc' # "failed" => \A j \in ToAttest(logical) : Attestable(logical, j)
        /\ pc' # "failed" =>
             (pc' # "unproven" <=> \A j \in ToAttest(logical) : Proved(logical, j, data'))
    BY <1>2 DEF Attest
  <2>. QED BY <2>1 DEF Upheld, Asked
<1>3. CASE Execute
  <2>1. /\ UNCHANGED <<logical, data, compiled>> /\ pc = "attested" /\ pc' = "answered"
        /\ answer' = Answer(compiled.text, compiled.values, data)
    BY <1>3 DEF Execute
  <2>. QED BY <2>1 DEF Upheld, Asked
<1>4. CASE UNCHANGED vars
  BY <1>4 DEF vars, Upheld, Asked
<1>. QED BY <1>1, <1>2, <1>3, <1>4 DEF Next

LEMMA Verdicts ==
  ASSUME Inv, Upheld, Resolves(plan), GrainIsKey(plan, data)
  PROVE  AttestedExactly
<1>. DEFINE Exact(i) == \A fact \in data[plan.base] :
                          InQuestion(fact) => MeetsOne(fact, plan.joins[i], data)
            n == Len(plan.joins)
            Contract(i) == Relationships[plan.joins[i].rel].contract
<1>1. SUFFICES ASSUME pc \in Asked PROVE AttestedExactly
  BY DEF AttestedExactly, Asked
<1>2. Compiled(logical) /\ AsBound(plan) /\ logical = Lower(plan) /\ LooksUp(Clauses(logical))
  <2>1. pc \in Judged
    BY <1>1 DEF Asked, Judged
  <2>. QED BY <2>1 DEF Inv, Compiled, Resolves, LooksUp
<1>3. /\ data \in Warehouses /\ \A j \in ToAttest(logical) : Attestable(logical, j)
      /\ pc # "unproven" <=> \A j \in ToAttest(logical) : Proved(logical, j, data)
  BY <1>1 DEF Upheld
<1>4. /\ DOMAIN plan.joins = 1..n /\ DOMAIN logical.joins = 1..n
      /\ \A i \in 1..n : logical.joins[i].rel = plan.joins[i].rel
  BY <1>2, PlanTyped, JoinsLowered
<1>5. ToAttest(logical) = {logical.joins[i] : i \in {k \in 1..n : Contract(k)}}
  <2>. HIDE DEF n
  <2>. QED BY <1>4 DEF ToAttest, Range
<1>6. ASSUME NEW i \in 1..n, Contract(i) PROVE Proved(logical, logical.joins[i], data) <=> Exact(i)
  <2>1. Attestable(logical, logical.joins[i])
    BY <1>3, <1>5, <1>6
  <2>. QED BY <1>2, <1>3, <2>1, ProvedExactly
<1>7. (\A j \in Range(plan.joins) : Relationships[j.rel].contract =>
         \A fact \in data[plan.base] : InQuestion(fact) => MeetsOne(fact, j, data))
        <=> \A i \in 1..n : Contract(i) => Exact(i)
  <2>1. Range(plan.joins) = {plan.joins[i] : i \in 1..n}
    BY <1>4 DEF Range
  <2>. HIDE DEF n
  <2>. QED BY <2>1
<1>. HIDE DEF n, Exact, Contract
<1>8. pc # "unproven" <=> \A i \in 1..n : Contract(i) => Exact(i)
  BY <1>3, <1>5, <1>6
<1>. QED BY <1>1, <1>7, <1>8 DEF AttestedExactly, Asked

\* Where the declared grain of the base is a key, the attestations let a request pass when
\* every fact in question meets exactly one row across each join with a uniqueness
\* contract, and only then.
THEOREM AttestedAlwaysExactly ==
  Spec => [](Resolves(plan) /\ GrainIsKey(plan, data) => AttestedExactly)
<1>1. Init => Upheld
  BY DEF Init, Upheld, Asked
<1>2. Spec => []Inv /\ []Upheld
  BY <1>1, InvInit, InvStep, UpheldStep, PTL DEF Spec
<1>3. Inv /\ Upheld => (Resolves(plan) /\ GrainIsKey(plan, data) => AttestedExactly)
  BY Verdicts
<1>. QED BY <1>2, <1>3, PTL

-----------------------------------------------------------------------------
(* What FROM yields, told by readings.                                        *)

\* Predicates do not tell readings apart that agree on their tables.
LEMMA HoldAlike ==
  ASSUME NEW es, NEW T, \A e \in Range(es) : \A c \in ColumnsIn(e) : TableOf(c) \in T,
         NEW l, NEW m, \A t \in T : l[t] = m[t]
  PROVE  HoldAll(es, l) <=> HoldAll(es, m)
<1>1. ASSUME NEW e \in Range(es) PROVE Holds(e, l) <=> Holds(e, m)
  <2>1. ASSUME NEW i \in DOMAIN e.args PROVE Meaning(e.args[i], l) = Meaning(e.args[i], m)
    <3>1. CASE e.args[i] \in Columns
      <4>1. e.args[i] \in ColumnsIn(e)
        BY <3>1 DEF ColumnsIn, Range
      <4>2. l[TableOf(e.args[i])] = m[TableOf(e.args[i])]
        BY <4>1
      <4>. QED BY <3>1, <4>2 DEF Meaning
    <3>2. CASE e.args[i] \notin Columns
      BY <3>2 DEF Meaning
    <3>. QED BY <3>1, <3>2
  <2>2. [i \in DOMAIN e.args |-> Meaning(e.args[i], l)] = [i \in DOMAIN e.args |-> Meaning(e.args[i], m)]
    BY <2>1
  <2>. QED BY <2>2 DEF Holds
<1>. QED BY <1>1 DEF HoldAll

\* The rows that a reading may have, and the readings.
RowsOf(w, t) == IF t = plan.base THEN w[t] ELSE w[t] \cup {NullRow(t)}

Full(w) ==
  LET T == Range(Scanned(plan)) IN
  {m \in [T -> UNION {RowsOf(w, t) : t \in T}] : \A t \in T : m[t] \in RowsOf(w, t)}

LEMMA FullMeans ==
  ASSUME NEW w, NEW m
  PROVE  m \in Full(w) <=> /\ m = [t \in Range(Scanned(plan)) |-> m[t]]
                           /\ \A t \in Range(Scanned(plan)) : m[t] \in RowsOf(w, t)
<1>. DEFINE T == Range(Scanned(plan))
            U == UNION {RowsOf(w, t) : t \in T}
<1>1. ASSUME m \in Full(w) PROVE m = [t \in T |-> m[t]] /\ \A t \in T : m[t] \in RowsOf(w, t)
  BY <1>1 DEF Full
<1>2. ASSUME m = [t \in T |-> m[t]], \A t \in T : m[t] \in RowsOf(w, t) PROVE m \in Full(w)
  <2>1. \A t \in T : m[t] \in U
    BY <1>2
  <2>. HIDE DEF U, T
  <2>2. m \in [T -> U]
    BY <1>2, <2>1
  <2>. QED BY <1>2, <2>2 DEF Full, U, T
<1>. QED BY <1>1, <1>2

\* A reading with another row.
LEMMA OtherRow ==
  ASSUME NEW w, NEW m \in Full(w), NEW t \in Range(Scanned(plan)), NEW row
  PROVE  /\ DOMAIN [m EXCEPT ![t] = row] = Range(Scanned(plan))
         /\ [m EXCEPT ![t] = row] = [u \in Range(Scanned(plan)) |-> [m EXCEPT ![t] = row][u]]
         /\ [m EXCEPT ![t] = row][t] = row
         /\ \A u \in Range(Scanned(plan)) \ {t} : [m EXCEPT ![t] = row][u] = m[u]
         /\ row \in RowsOf(w, t) => [m EXCEPT ![t] = row] \in Full(w)
<1>. DEFINE T == Range(Scanned(plan))
            x == [m EXCEPT ![t] = row]
<1>1. m = [u \in T |-> m[u]] /\ \A u \in T : m[u] \in RowsOf(w, u)
  BY FullMeans
<1>. HIDE DEF T
<1>2. DOMAIN m = T
  BY <1>1
<1>3. t \in T
  BY DEF T
<1>4. /\ DOMAIN x = T /\ x = [u \in T |-> x[u]] /\ x[t] = row
      /\ \A u \in T \ {t} : x[u] = m[u]
  BY <1>2, <1>3
<1>. HIDE DEF x
<1>5. row \in RowsOf(w, t) => x \in Full(w)
  <2>1. row \in RowsOf(w, t) => \A u \in T : x[u] \in RowsOf(w, u)
    BY <1>1, <1>4
  <2>. QED BY <1>4, <2>1, FullMeans DEF T
<1>. QED BY <1>4, <1>5 DEF T, x

\* The first scans, and the environment of a reading after them.
First(k) == {Scanned(plan)[i] : i \in 1..k}

EnvOf(m, k) == [a \in 0..(k - 1) |-> m[Scanned(plan)[a + 1]]]

LEMMA FirstScans ==
  ASSUME AsBound(plan)
  PROVE  /\ Len(plan.joins) \in Nat /\ Range(Scanned(plan)) = First(Len(plan.joins) + 1)
         /\ First(1) = {plan.base}
         /\ \A k \in 1..Len(plan.joins) + 1 :
              First(k) \subseteq Range(Scanned(plan)) /\ Scanned(plan)[k] \in Range(Scanned(plan))
         /\ \A k \in 1..Len(plan.joins) :
              /\ Scanned(plan)[k + 1] = plan.joins[k].to /\ plan.joins[k].to # plan.base
              /\ First(k + 1) = First(k) \cup {plan.joins[k].to} /\ plan.joins[k].to \notin First(k)
              /\ plan.joins[k] \in Range(plan.joins)
         /\ \A k \in 1..Len(plan.joins) + 1 : Alias(plan, Scanned(plan)[k]) = k - 1
<1>. DEFINE s == Scanned(plan)
            n == Len(plan.joins)
<1>1. /\ n \in Nat /\ DOMAIN s = 1..n + 1 /\ s[1] = plan.base
      /\ \A k \in 1..n : s[k + 1] = plan.joins[k].to
      /\ \A u \in Range(s) : /\ Alias(plan, u) \in Nat /\ Alias(plan, u) + 1 \in DOMAIN s
                             /\ s[Alias(plan, u) + 1] = u
      /\ DOMAIN plan.joins = 1..n
  BY PlanTyped, ScansNumbered
<1>2. \A k, l \in DOMAIN s : s[k] = s[l] => k = l
  BY DEF AsBound
<1>3. \A k \in 1..n : plan.joins[k] \in Range(plan.joins)
  BY <1>1 DEF Range
<1>4. Range(s) = {s[i] : i \in 1..n + 1} /\ \A k : First(k) = {s[i] : i \in 1..k}
  BY <1>1 DEF Range, First
<1>. HIDE DEF s, n
<1>5. First(1) = {plan.base}
  <2>1. 1..1 = {1}
    OBVIOUS
  <2>. QED BY <1>1, <1>4, <2>1
<1>6. \A k \in 1..n + 1 : First(k) \subseteq Range(s) /\ s[k] \in Range(s)
  <2>1. \A k \in 1..n + 1 : 1..k \subseteq 1..n + 1
    BY <1>1
  <2>. QED BY <1>4, <2>1
<1>7. ASSUME NEW k \in 1..n
      PROVE  First(k + 1) = First(k) \cup {s[k + 1]} /\ s[k + 1] \notin First(k) /\ s[k + 1] # s[1]
  <2>1. 1..k + 1 = 1..k \cup {k + 1} /\ k + 1 \notin 1..k /\ 1..k + 1 \subseteq 1..n + 1 /\ k + 1 # 1
        /\ 1 \in 1..n + 1
    BY <1>1
  <2>2. First(k + 1) = First(k) \cup {s[k + 1]}
    BY <1>4, <2>1
  <2>3. s[k + 1] \notin First(k)
    <3>1. \A i \in 1..k : i \in DOMAIN s /\ k + 1 \in DOMAIN s /\ i # k + 1
      BY <1>1, <2>1
    <3>. QED BY <1>2, <1>4, <3>1
  <2>. QED BY <1>1, <1>2, <2>1, <2>2, <2>3
<1>8. ASSUME NEW k \in 1..n + 1 PROVE Alias(plan, s[k]) = k - 1
  <2>. DEFINE a == Alias(plan, s[k])
  <2>1. s[k] \in Range(s) /\ k \in DOMAIN s
    BY <1>1, <1>6
  <2>2. a \in Nat /\ a + 1 \in DOMAIN s /\ s[a + 1] = s[k]
    BY <1>1, <2>1
  <2>. HIDE DEF a
  <2>3. a + 1 = k
    BY <1>2, <2>1, <2>2
  <2>. QED BY <2>2, <2>3 DEF a
<1>. QED BY <1>1, <1>3, <1>4, <1>5, <1>6, <1>7, <1>8 DEF s, n

\* The environment of a reading has its rows.
LEMMA EnvAgrees ==
  ASSUME AsBound(plan), NEW k \in 1..Len(plan.joins) + 1, NEW m
  PROVE  Agree(EnvOf(m, k), m, First(k))
<1>. DEFINE s == Scanned(plan)
            n == Len(plan.joins)
<1>1. n \in Nat /\ \A i \in 1..n + 1 : Alias(plan, s[i]) = i - 1
  BY FirstScans
<1>2. ASSUME NEW i \in 1..k PROVE EnvOf(m, k)[Alias(plan, s[i])] = m[s[i]]
  <2>1. i \in 1..n + 1 /\ i - 1 \in 0..(k - 1) /\ (i - 1) + 1 = i
    BY <1>1
  <2>2. EnvOf(m, k)[i - 1] = m[s[(i - 1) + 1]]
    BY <2>1 DEF EnvOf
  <2>. QED BY <1>1, <2>1, <2>2
<1>. QED BY <1>2 DEF Agree, First

\* A further row in the environment of a reading.
LEMMA EnvGrows ==
  ASSUME AsBound(plan), NEW k \in 1..Len(plan.joins), NEW w, NEW m \in Full(w), NEW row
  PROVE  With(EnvOf(m, k), k, row) = EnvOf([m EXCEPT ![plan.joins[k].to] = row], k + 1)
<1>. DEFINE s == Scanned(plan)
            n == Len(plan.joins)
            t == plan.joins[k].to
            x == [m EXCEPT ![t] = row]
<1>1. n \in Nat /\ s[k + 1] = t /\ t \notin First(k) /\ First(k) \subseteq Range(s) /\ t \in Range(s)
  <2>1. k \in 1..n + 1 /\ k + 1 \in 1..n + 1 /\ n \in Nat
    BY FirstScans
  <2>. QED BY <2>1, FirstScans
<1>2. x[t] = row /\ \A u \in Range(s) \ {t} : x[u] = m[u]
  <2>1. t \in Range(Scanned(plan))
    BY <1>1
  <2>. HIDE DEF t
  <2>. QED BY <2>1, OtherRow
<1>. HIDE DEF x, n, t
<1>3. k \in Nat /\ k # 0
  BY <1>1 DEF n
<1>4. \A a \in 0..(k - 1) : s[a + 1] \in First(k)
  <2>1. \A a \in 0..(k - 1) : a + 1 \in 1..k
    BY <1>3
  <2>. QED BY <2>1 DEF First
<1>5. \A a \in 0..(k - 1) : x[s[a + 1]] = m[s[a + 1]]
  BY <1>1, <1>2, <1>4
<1>. HIDE DEF s
<1>6. 0..((k + 1) - 1) = 0..(k - 1) \cup {k} /\ k \notin 0..(k - 1)
  BY <1>3
<1>7. With(EnvOf(m, k), k, row) = [a \in 0..((k + 1) - 1) |-> IF a = k THEN row ELSE m[s[a + 1]]]
  BY <1>6 DEF With, EnvOf, s
<1>8. EnvOf(x, k + 1) = [a \in 0..((k + 1) - 1) |-> x[s[a + 1]]]
  BY DEF EnvOf, s
<1>9. \A a \in 0..((k + 1) - 1) : (IF a = k THEN row ELSE m[s[a + 1]]) = x[s[a + 1]]
  BY <1>1, <1>2, <1>5, <1>6
<1>10. With(EnvOf(m, k), k, row) = EnvOf(x, k + 1)
  BY <1>7, <1>8, <1>9
<1>. QED BY <1>10 DEF x, t
\* The conditions of a join are about the joined table and those before it.
LEMMA JoinResolves ==
  ASSUME AsBound(plan), Resolves(plan), NEW k \in 1..Len(plan.joins)
  PROVE  \A e \in Range(Relationships[plan.joins[k].rel].predicates) :
           \A c \in ColumnsIn(e) : TableOf(c) \in First(k + 1)
<1>1. k \in DOMAIN plan.joins
  BY PlanTyped
<1>2. \A c \in AllColumnsIn(Relationships[plan.joins[k].rel].predicates) : TableOf(c) \in First(k + 1)
  BY <1>1 DEF Resolves, First
<1>. QED BY <1>2 DEF AllColumnsIn

\* Whether a row meets a reading across a join.
Meets(m, k, row) ==
  HoldAll(Relationships[plan.joins[k].rel].predicates, [m EXCEPT ![plan.joins[k].to] = row])

\* The rows that a join puts beside the tables before it.
RowsAt(m, k, w) ==
  LET t == plan.joins[k].to
      matches == {row \in w[t] : Meets(m, k, row)}
  IN IF matches = {} /\ Relationships[plan.joins[k].rel].type = "left" THEN {NullRow(t)} ELSE matches

LEMMA MeetsAlike ==
  ASSUME AsBound(plan), Resolves(plan), NEW k \in 1..Len(plan.joins), NEW w,
         NEW l \in Full(w), NEW m \in Full(w), \A t \in First(k) : l[t] = m[t]
  PROVE  (\A row : Meets(l, k, row) <=> Meets(m, k, row)) /\ RowsAt(l, k, w) = RowsAt(m, k, w)
<1>. DEFINE t == plan.joins[k].to
            es == Relationships[plan.joins[k].rel].predicates
<1>1. /\ t \in Range(Scanned(plan)) /\ First(k + 1) = First(k) \cup {t} /\ t \notin First(k)
      /\ First(k) \subseteq Range(Scanned(plan))
  <2>1. k \in 1..Len(plan.joins) + 1 /\ k + 1 \in 1..Len(plan.joins) + 1
    BY FirstScans
  <2>. QED BY <2>1, FirstScans
<1>2. \A e \in Range(es) : \A c \in ColumnsIn(e) : TableOf(c) \in First(k + 1)
  BY JoinResolves
<1>3. ASSUME NEW row PROVE Meets(l, k, row) <=> Meets(m, k, row)
  <2>. DEFINE x == [l EXCEPT ![t] = row]
              y == [m EXCEPT ![t] = row]
  <2>1. /\ x[t] = row /\ \A u \in Range(Scanned(plan)) \ {t} : x[u] = l[u]
        /\ y[t] = row /\ \A u \in Range(Scanned(plan)) \ {t} : y[u] = m[u]
    <3>. HIDE DEF t
    <3>. QED BY <1>1, OtherRow
  <2>2. Meets(l, k, row) = HoldAll(es, x) /\ Meets(m, k, row) = HoldAll(es, y)
    BY DEF Meets
  <2>. HIDE DEF x, y, t, es
  <2>3. \A u \in First(k + 1) : x[u] = y[u]
    BY <1>1, <2>1
  <2>4. HoldAll(es, x) <=> HoldAll(es, y)
    BY <1>2, <2>3, HoldAlike
  <2>. QED BY <2>2, <2>4
<1>4. RowsAt(l, k, w) = RowsAt(m, k, w)
  BY <1>3 DEF RowsAt
<1>. QED BY <1>3, <1>4

LEMMA FitsMeans ==
  ASSUME AsBound(plan), NEW k \in 1..Len(plan.joins), NEW w, NEW m \in Full(w)
  PROVE  Fits(m, plan.joins[k], w) <=> m[plan.joins[k].to] \in RowsAt(m, k, w)
<1>. DEFINE t == plan.joins[k].to
            es == Relationships[plan.joins[k].rel].predicates
            left == Relationships[plan.joins[k].rel].type = "left"
<1>1. t \in Range(Scanned(plan))
  <2>1. k + 1 \in 1..Len(plan.joins) + 1
    BY FirstScans
  <2>. QED BY <2>1, FirstScans
<1>2. [m EXCEPT ![t] = m[t]] = m
  <2>1. m = [u \in Range(Scanned(plan)) |-> m[u]]
    BY FullMeans
  <2>. HIDE DEF t
  <2>. QED BY <1>1, <2>1
<1>3. HoldAll(es, m) <=> Meets(m, k, m[t])
  BY <1>2 DEF Meets
<1>4. Fits(m, plan.joins[k], w) <=>
        \/ m[t] \in w[t] /\ HoldAll(es, m)
        \/ left /\ m[t] = NullRow(t) /\ \A row \in w[t] : ~Meets(m, k, row)
  BY DEF Fits, Meets
<1>5. RowsAt(m, k, w) =
        IF {row \in w[t] : Meets(m, k, row)} = {} /\ left
          THEN {NullRow(t)} ELSE {row \in w[t] : Meets(m, k, row)}
  BY DEF RowsAt
<1>. HIDE DEF t, es, left
<1>6. Fits(m, plan.joins[k], w) <=> m[t] \in RowsAt(m, k, w)
  BY <1>3, <1>4, <1>5
<1>. QED BY <1>6 DEF t

LEMMA FitsAlike ==
  ASSUME AsBound(plan), Resolves(plan), NEW k \in 1..Len(plan.joins), NEW w,
         NEW l \in Full(w), NEW m \in Full(w), \A t \in First(k + 1) : l[t] = m[t]
  PROVE  Fits(l, plan.joins[k], w) <=> Fits(m, plan.joins[k], w)
<1>1. First(k + 1) = First(k) \cup {plan.joins[k].to}
  BY FirstScans
<1>2. RowsAt(l, k, w) = RowsAt(m, k, w)
  BY <1>1, MeetsAlike
<1>. QED BY <1>1, <1>2, FitsMeans

\* In the text, a row matches an environment when it meets the reading.
LEMMA MatchesMeet ==
  ASSUME NEW lp, Compiled(lp), LooksUp(Clauses(lp)), Resolves(plan), NEW k \in 1..Len(plan.joins),
         NEW w, NEW m \in Full(w), NEW row
  PROVE  SatisfiesAll(With(EnvOf(m, k), k, row), GivenSeq(lp, Joined(lp)[k + 1])) <=> Meets(m, k, row)
<1>. DEFINE t == plan.joins[k].to
            es == Relationships[plan.joins[k].rel].predicates
            x == [m EXCEPT ![t] = row]
            T == First(k + 1)
<1>1. AsBound(plan) /\ lp = Lower(plan)
  BY DEF Compiled
<1>2. k + 1 \in 1..Len(plan.joins) + 1
  BY <1>1, FirstScans
<1>3. With(EnvOf(m, k), k, row) = EnvOf(x, k + 1)
  BY <1>1, EnvGrows
<1>4. Joined(lp)[k + 1] = es
  BY <1>1, JoinedInOrder
<1>5. Agree(EnvOf(x, k + 1), x, T)
  <2>. HIDE DEF x
  <2>. QED BY <1>1, <1>2, EnvAgrees
<1>6. Sayable(lp, es, T)
  <2>1. es \in Seq(Expressions) /\ \A e \in Range(es) : Writable(lp, e)
    BY AttestationWritable
  <2>2. T \subseteq Range(Scanned(plan))
    BY <1>1, <1>2, FirstScans
  <2>3. \A e \in Range(es) : \A c \in ColumnsIn(e) : TableOf(c) \in T
    BY <1>1, JoinResolves
  <2>. QED BY <2>1, <2>2, <2>3 DEF Sayable
<1>7. Meets(m, k, row) <=> HoldAll(es, x)
  BY DEF Meets
<1>. HIDE DEF x, T, es
<1>8. SatisfiesAll(EnvOf(x, k + 1), GivenSeq(lp, es)) <=> HoldAll(es, x)
  BY <1>5, <1>6, AllGivenHold
<1>. QED BY <1>3, <1>4, <1>7, <1>8

\* The readings whose rows fit across the joins of the first k scans.
Fitting(w, k) == {m \in Full(w) : \A i \in 1..(k - 1) : Fits(m, plan.joins[i], w)}

\* One join more.
LEMMA JoinGrows ==
  ASSUME NEW lp, Compiled(lp), LooksUp(Clauses(lp)), Resolves(plan), NEW k \in 1..Len(plan.joins),
         NEW w, NEW rel, rel.table = plan.joins[k].to,
         rel.type = Relationships[plan.joins[k].rel].type
  PROVE  JoinedWith({EnvOf(m, k) : m \in Fitting(w, k)}, k, rel, GivenSeq(lp, Joined(lp)[k + 1]), w)
           = {EnvOf(m, k + 1) : m \in Fitting(w, k + 1)}
<1>. DEFINE t == plan.joins[k].to
            on == GivenSeq(lp, Joined(lp)[k + 1])
            matches(env) == {row \in w[t] : SatisfiesAll(With(env, k, row), on)}
            rows(env) == IF matches(env) = {} /\ rel.type = "left" THEN {NullRow(t)} ELSE matches(env)
            envs == {EnvOf(m, k) : m \in Fitting(w, k)}
            more == JoinedWith(envs, k, rel, on, w)
<1>1. AsBound(plan)
  BY DEF Compiled
<1>2. more = UNION {{With(env, k, row) : row \in rows(env)} : env \in envs}
  BY DEF JoinedWith
<1>3. ASSUME NEW m \in Full(w) PROVE rows(EnvOf(m, k)) = RowsAt(m, k, w)
  <2>1. matches(EnvOf(m, k)) = {row \in w[t] : Meets(m, k, row)}
    <3>. HIDE DEF t, on
    <3>1. \A row : SatisfiesAll(With(EnvOf(m, k), k, row), on) <=> Meets(m, k, row)
      BY MatchesMeet DEF on
    <3>. QED BY <3>1
  <2>. HIDE DEF matches
  <2>. QED BY <2>1 DEF RowsAt
<1>4. /\ k \in Nat /\ t \in Range(Scanned(plan)) /\ First(k + 1) = First(k) \cup {t} /\ t \notin First(k)
      /\ t # plan.base /\ First(k) \subseteq Range(Scanned(plan)) /\ k \in 1..k
      /\ \A i \in 1..(k - 1) : i \in 1..Len(plan.joins) /\ First(i + 1) \subseteq First(k)
  <2>1. /\ Len(plan.joins) \in Nat /\ k \in 1..Len(plan.joins) + 1 /\ k + 1 \in 1..Len(plan.joins) + 1
    BY <1>1, FirstScans
  <2>2. \A i \in 1..(k - 1) : i \in 1..Len(plan.joins) /\ 1..i + 1 \subseteq 1..k
    BY <2>1
  <2>3. \A i \in 1..(k - 1) : First(i + 1) \subseteq First(k)
    BY <2>2 DEF First
  <2>. QED BY <1>1, <2>1, <2>2, <2>3, FirstScans
<1>5. (k + 1) - 1 = k /\ 1..k = 1..(k - 1) \cup {k}
  BY <1>4
<1>. HIDE DEF t, on, rows, envs, more
<1>6. ASSUME NEW m \in Fitting(w, k), NEW row \in RowsAt(m, k, w)
      PROVE  /\ [m EXCEPT ![t] = row] \in Fitting(w, k + 1)
             /\ With(EnvOf(m, k), k, row) = EnvOf([m EXCEPT ![t] = row], k + 1)
  <2>. DEFINE x == [m EXCEPT ![t] = row]
  <2>1. m \in Full(w) /\ \A i \in 1..(k - 1) : Fits(m, plan.joins[i], w)
    BY DEF Fitting
  <2>2. row \in RowsOf(w, t)
    BY <1>4 DEF RowsAt, RowsOf, t
  <2>3. x \in Full(w) /\ x[t] = row /\ \A u \in Range(Scanned(plan)) \ {t} : x[u] = m[u]
    BY <1>4, <2>1, <2>2, OtherRow
  <2>4. With(EnvOf(m, k), k, row) = EnvOf(x, k + 1)
    BY <1>1, <2>1, EnvGrows DEF t
  <2>. HIDE DEF x
  <2>5. \A u \in First(k) : x[u] = m[u]
    BY <1>4, <2>3
  <2>6. \A i \in 1..(k - 1) : Fits(x, plan.joins[i], w)
    BY <1>1, <1>4, <2>1, <2>3, <2>5, FitsAlike
  <2>7. Fits(x, plan.joins[k], w)
    <3>1. RowsAt(x, k, w) = RowsAt(m, k, w)
      BY <1>1, <2>1, <2>3, <2>5, MeetsAlike
    <3>. QED BY <1>1, <2>3, <3>1, FitsMeans DEF t
  <2>8. x \in Fitting(w, k + 1)
    BY <1>5, <2>3, <2>6, <2>7 DEF Fitting
  <2>. QED BY <2>4, <2>8 DEF x
<1>7. ASSUME NEW m \in Fitting(w, k + 1)
      PROVE  m \in Fitting(w, k) /\ m[t] \in RowsAt(m, k, w) /\ [m EXCEPT ![t] = m[t]] = m
  <2>1. m \in Full(w) /\ \A i \in 1..k : Fits(m, plan.joins[i], w)
    BY <1>5 DEF Fitting
  <2>2. m \in Fitting(w, k)
    BY <1>5, <2>1 DEF Fitting
  <2>3. m[t] \in RowsAt(m, k, w)
    BY <1>1, <1>4, <2>1, FitsMeans DEF t
  <2>4. m = [u \in Range(Scanned(plan)) |-> m[u]]
    BY <2>1, FullMeans
  <2>. QED BY <1>4, <2>2, <2>3, <2>4
<1>8. ASSUME NEW m \in Fitting(w, k) PROVE rows(EnvOf(m, k)) = RowsAt(m, k, w)
  BY <1>3 DEF Fitting
<1>9. ASSUME NEW e \in more PROVE e \in {EnvOf(m, k + 1) : m \in Fitting(w, k + 1)}
  <2>0. PICK env \in envs : e \in {With(env, k, row) : row \in rows(env)}
    BY <1>2
  <2>1. PICK row \in rows(env) : e = With(env, k, row)
    BY <2>0
  <2>2. PICK m \in Fitting(w, k) : env = EnvOf(m, k)
    BY DEF envs
  <2>. QED BY <1>6, <1>8, <2>1, <2>2
<1>10. ASSUME NEW m \in Fitting(w, k + 1) PROVE EnvOf(m, k + 1) \in more
  <2>1. With(EnvOf(m, k), k, m[t]) = EnvOf(m, k + 1)
    BY <1>6, <1>7
  <2>2. EnvOf(m, k) \in envs /\ m[t] \in rows(EnvOf(m, k))
    BY <1>7, <1>8 DEF envs
  <2>. QED BY <1>2, <2>1, <2>2
<1>11. more = {EnvOf(m, k + 1) : m \in Fitting(w, k + 1)}
  BY <1>9, <1>10
<1>. QED BY <1>11 DEF more, envs, on
\* How far FROM got after m of the relations.
Joins0(text, on, w, f, m) ==
  f = [k \in 0..m |-> IF k = 0 THEN {<<>>} ELSE JoinedWith(f[k - 1], k - 1, text.relations[k], on[k], w)]

JoinsUp(text, on, w, m) == \E f : Joins0(text, on, w, f, m)

LEMMA FromExists ==
  ASSUME NEW text, NEW on, NEW w, NEW n \in Nat
  PROVE  JoinsUp(text, on, w, n)
<1>. DEFINE Bad == {m \in 0..n : ~JoinsUp(text, on, w, m)}
            Next1(e, k) == JoinedWith(e, k - 1, text.relations[k], on[k], w)
<1>. SUFFICES ASSUME Bad # {} PROVE FALSE
  <2>1. n \in 0..n
    OBVIOUS
  <2>. QED BY <2>1
<1>1. PICK m \in Bad : \A k \in Bad : m <= k
  <2>1. Bad \subseteq Nat
    OBVIOUS
  <2>. HIDE DEF Bad
  <2>. QED BY <2>1, LeastNumber
<1>2. m \in Nat /\ m <= n /\ ~JoinsUp(text, on, w, m)
  OBVIOUS
<1>3. m # 0
  <2>. DEFINE e == [k \in 0..0 |-> {<<>>}]
  <2>1. e = [k \in 0..0 |-> IF k = 0 THEN {<<>>} ELSE Next1(e[k - 1], k)]
    OBVIOUS
  <2>. HIDE DEF e
  <2>2. JoinsUp(text, on, w, 0)
    BY <2>1 DEF Joins0, JoinsUp
  <2>. QED BY <1>2, <2>2
<1>4. PICK f : Joins0(text, on, w, f, m - 1)
  <2>1. m - 1 \in 0..n
    BY <1>2, <1>3
  <2>2. m - 1 \notin Bad
    <3>1. ~(m <= m - 1)
      BY <1>2
    <3>. QED BY <1>1, <3>1
  <2>3. JoinsUp(text, on, w, m - 1)
    BY <2>1, <2>2
  <2>. QED BY <2>3 DEF JoinsUp
<1>5. f = [k \in 0..(m - 1) |-> IF k = 0 THEN {<<>>} ELSE Next1(f[k - 1], k)]
  BY <1>4 DEF Joins0
<1>. HIDE DEF Next1
<1>. DEFINE g == [k \in 0..m |-> IF k = 0 THEN {<<>>} ELSE Next1(f[k - 1], k)]
<1>6. \A k \in 0..(m - 1) : g[k] = f[k]
  <2>1. \A k \in 0..(m - 1) : k \in 0..m
    BY <1>2
  <2>2. \A k \in 0..(m - 1) : f[k] = IF k = 0 THEN {<<>>} ELSE Next1(f[k - 1], k)
    BY <1>5
  <2>. QED BY <2>1, <2>2
<1>7. \A k \in 0..m : k # 0 => g[k - 1] = f[k - 1]
  <2>1. \A k \in 0..m : k # 0 => k - 1 \in 0..(m - 1)
    BY <1>2
  <2>. HIDE DEF g
  <2>. QED BY <1>6, <2>1
<1>8. g = [k \in 0..m |-> IF k = 0 THEN {<<>>} ELSE Next1(g[k - 1], k)]
  <2>1. \A k \in 0..m : g[k] = IF k = 0 THEN {<<>>} ELSE Next1(g[k - 1], k)
    <3>. SUFFICES ASSUME NEW k \in 0..m
                  PROVE  g[k] = IF k = 0 THEN {<<>>} ELSE Next1(g[k - 1], k)
      OBVIOUS
    <3>1. g[k] = IF k = 0 THEN {<<>>} ELSE Next1(f[k - 1], k)
      OBVIOUS
    <3>. HIDE DEF g
    <3>. QED BY <1>7, <3>1
  <2>2. g = [k \in 0..m |-> g[k]]
    OBVIOUS
  <2>. HIDE DEF g
  <2>. QED BY <2>1, <2>2
<1>9. JoinsUp(text, on, w, m)
  <2>. HIDE DEF g
  <2>. QED BY <1>8 DEF JoinsUp, Joins0, Next1
<1>. QED BY <1>2, <1>9

\* FROM goes on by one relation at a time.
Grown(text, filled, w, f, n) ==
  /\ f[0] = {<<>>} /\ FromClause(text, filled, w) = f[n]
  /\ \A k \in 1..n :
       f[k] = JoinedWith(f[k - 1], k - 1, text.relations[k], OnFilled(text, filled)[k], w)

LEMMA FromGrows ==
  ASSUME NEW text, NEW filled, NEW w, NEW n \in Nat, Len(text.relations) = n
  PROVE  \E f : Grown(text, filled, w, f, n)
<1>. DEFINE on == OnFilled(text, filled)
            f == CHOOSE h : Joins0(text, on, w, h, n)
<1>1. Joins0(text, on, w, f, n)
  <2>1. JoinsUp(text, on, w, n)
    <3>. HIDE DEF on
    <3>. QED BY FromExists
  <2>2. \E h : Joins0(text, on, w, h, n)
    BY <2>1 DEF JoinsUp
  <2>. QED BY <2>2
<1>2. FromClause(text, filled, w) = f[n]
  BY DEF FromClause, Joins0
<1>. HIDE DEF f, on
<1>3. f[0] = {<<>>} /\ \A k \in 1..n : f[k] = JoinedWith(f[k - 1], k - 1, text.relations[k], on[k], w)
  <2>1. \A k \in 0..n : f[k] = IF k = 0 THEN {<<>>}
                               ELSE JoinedWith(f[k - 1], k - 1, text.relations[k], on[k], w)
    BY <1>1 DEF Joins0
  <2>2. 0 \in 0..n /\ \A k \in 1..n : k \in 0..n /\ k # 0
    OBVIOUS
  <2>. QED BY <2>1, <2>2
<1>4. Grown(text, filled, w, f, n)
  BY <1>2, <1>3 DEF on, Grown
<1>. QED BY <1>4

\* The base alone.
LEMMA BaseFrom ==
  ASSUME AsBound(plan), NEW lp, NEW w, NEW rel, rel.table = plan.base, rel.type = "from"
  PROVE  JoinedWith({<<>>}, 0, rel, GivenSeq(lp, <<>>), w) = {EnvOf(m, 1) : m \in Fitting(w, 1)}
<1>. DEFINE T == Range(Scanned(plan))
            b == plan.base
            on == GivenSeq(lp, <<>>)
            more == JoinedWith({<<>>}, 0, rel, on, w)
            One(row) == [a \in {0} |-> row]
<1>1. \A row : SatisfiesAll(With(<<>>, 0, row), on)
  <2>1. Range(on) = {}
    BY DEF GivenSeq, Range
  <2>. QED BY <2>1 DEF SatisfiesAll
<1>2. \A row : With(<<>>, 0, row) = One(row)
  BY DEF With
<1>3. more = {One(row) : row \in w[b]}
  <2>. HIDE DEF on, One, b
  <2>1. {row \in w[b] : SatisfiesAll(With(<<>>, 0, row), on)} = w[b]
    BY <1>1
  <2>2. more = {With(<<>>, 0, row) : row \in w[b]}
    BY <2>1 DEF JoinedWith, b
  <2>. QED BY <1>2, <2>2
<1>4. Scanned(plan)[1] = b /\ b \in T /\ b \in Range(Scanned(plan))
  <2>1. 1 \in DOMAIN Scanned(plan) /\ Scanned(plan)[1] = b
    BY PlanTyped, ScansNumbered
  <2>. QED BY <2>1 DEF Range
<1>5. \A m : EnvOf(m, 1) = One(m[b])
  <2>1. 0..(1 - 1) = {0} /\ 0 + 1 = 1
    OBVIOUS
  <2>. QED BY <1>4, <2>1 DEF EnvOf
<1>6. Fitting(w, 1) = Full(w)
  BY DEF Fitting
<1>7. ASSUME NEW m \in Full(w) PROVE m[b] \in w[b]
  <2>1. m[b] \in RowsOf(w, b)
    BY <1>4, FullMeans
  <2>. QED BY <2>1 DEF RowsOf
<1>8. ASSUME NEW row \in w[b] PROVE \E m \in Full(w) : m[b] = row
  <2>. DEFINE m == [t \in T |-> IF t = b THEN row ELSE NullRow(t)]
  <2>1. \A t \in T : m[t] \in RowsOf(w, t)
    BY DEF RowsOf
  <2>2. m[b] = row /\ m = [t \in T |-> m[t]]
    BY <1>4
  <2>. HIDE DEF m
  <2>3. m \in Full(w)
    BY <2>1, <2>2, FullMeans
  <2>. QED BY <2>2, <2>3
<1>. HIDE DEF more, One, b, on
<1>. QED BY <1>3, <1>5, <1>6, <1>7, <1>8 DEF more, on

\* FROM yields the environments of the readings whose rows fit.
LEMMA FromReadings ==
  ASSUME NEW lp, Compiled(lp), LooksUp(Clauses(lp)), Resolves(plan), NEW w,
         NEW text, text = Text(lp), NEW filled, filled = Filled(TextClauses(text), Bound(Clauses(lp)))
  PROVE  FromClause(text, filled, w)
           = {EnvOf(m, Len(plan.joins) + 1) : m \in Fitting(w, Len(plan.joins) + 1)}
<1>. DEFINE n == Len(plan.joins)
            js == Joined(lp)
            Envs(k) == {EnvOf(m, k) : m \in Fitting(w, k)}
<1>1. AsBound(plan) /\ lp = Lower(plan)
  BY DEF Compiled
<1>2. /\ n \in Nat /\ Len(text.relations) = n + 1
      /\ text.relations[1].table = plan.base /\ text.relations[1].type = "from"
      /\ \A i \in 1..n : /\ text.relations[i + 1].table = plan.joins[i].to
                         /\ text.relations[i + 1].type = Relationships[plan.joins[i].rel].type
  <2>1. /\ \A i \in 1..n + 1 : text.relations[i].table = Scanned(plan)[i]
        /\ Scanned(plan)[1] = plan.base
        /\ \A i \in 1..n : Scanned(plan)[i + 1] = plan.joins[i].to /\ i + 1 \in 1..n + 1
    <3>1. /\ n \in Nat /\ DOMAIN Scanned(plan) = 1..n + 1 /\ DOMAIN plan.joins = 1..n
          /\ Scanned(plan)[1] = plan.base
          /\ \A i \in DOMAIN plan.joins : Scanned(plan)[i + 1] = plan.joins[i].to
      BY <1>1, PlanTyped, ScansNumbered
    <3>2. \A i \in DOMAIN Scanned(plan) : text.relations[i].table = Scanned(plan)[i]
      BY <1>1, RelationsWritten
    <3>. HIDE DEF n
    <3>. QED BY <3>1, <3>2
  <2>2. /\ n \in Nat /\ 1 \in 1..n + 1 /\ Len(text.relations) = n + 1
        /\ text.relations[1].type = "from"
        /\ \A i \in 1..n : text.relations[i + 1].type = Relationships[plan.joins[i].rel].type
    BY <1>1, PlanTyped, RelationsWritten
  <2>. QED BY <2>1, <2>2
<1>3. \A k \in 1..n + 1 : OnFilled(text, filled)[k] = GivenSeq(lp, js[k])
  <2>1. Len(js) = n + 1
    BY <1>1, JoinedInOrder
  <2>. QED BY <2>1, TextFilled
<1>4. js[1] = <<>>
  BY <1>1, JoinedInOrder
<1>5. PICK f : /\ f[0] = {<<>>} /\ FromClause(text, filled, w) = f[n + 1]
               /\ \A k \in 1..n + 1 :
                    f[k] = JoinedWith(f[k - 1], k - 1, text.relations[k], OnFilled(text, filled)[k], w)
  <2>. DEFINE N == n + 1
  <2>1. N \in Nat /\ Len(text.relations) = N
    BY <1>2
  <2>. HIDE DEF N
  <2>2. \E f : Grown(text, filled, w, f, N)
    BY <2>1, FromGrows
  <2>. QED BY <2>2 DEF N, Grown
<1>. HIDE DEF n, js
<1>6. f[1] = Envs(1)
  <2>1. f[1] = JoinedWith({<<>>}, 0, text.relations[1], GivenSeq(lp, <<>>), w)
    <3>1. 1 \in 1..n + 1 /\ 1 - 1 = 0
      BY <1>2
    <3>. QED BY <1>3, <1>4, <1>5, <3>1
  <2>. QED BY <1>1, <1>2, <2>1, BaseFrom
<1>7. ASSUME NEW k \in 1..n, f[k] = Envs(k) PROVE f[k + 1] = Envs(k + 1)
  <2>1. k + 1 \in 1..n + 1 /\ (k + 1) - 1 = k /\ k \in 1..Len(plan.joins)
    BY <1>2 DEF n
  <2>2. f[k + 1] = JoinedWith(Envs(k), k, text.relations[k + 1], GivenSeq(lp, js[k + 1]), w)
    BY <1>3, <1>5, <1>7, <2>1
  <2>. DEFINE rel == text.relations[k + 1]
  <2>3. rel.table = plan.joins[k].to /\ rel.type = Relationships[plan.joins[k].rel].type
    BY <1>2
  <2>. HIDE DEF rel
  <2>. QED BY <2>1, <2>2, <2>3, JoinGrows DEF js, rel
<1>. HIDE DEF Envs
<1>8. f[n + 1] = Envs(n + 1)
  <2>. DEFINE Bad == {k \in 1..n + 1 : f[k] # Envs(k)}
  <2>. SUFFICES ASSUME Bad # {} PROVE FALSE
    <3>1. n + 1 \in 1..n + 1
      BY <1>2
    <3>. QED BY <3>1
  <2>1. PICK m \in Bad : \A k \in Bad : m <= k
    <3>1. Bad \subseteq Nat
      BY <1>2
    <3>. HIDE DEF Bad
    <3>. QED BY <3>1, LeastNumber
  <2>2. m \in 1..n + 1 /\ f[m] # Envs(m) /\ m # 1 /\ m \in Nat
    BY <1>2, <1>6
  <2>3. m - 1 \in 1..n /\ m - 1 \in 1..n + 1 /\ (m - 1) + 1 = m /\ ~(m <= m - 1)
    BY <1>2, <2>2
  <2>4. m - 1 \notin Bad
    <3>. HIDE DEF Bad
    <3>. QED BY <2>1, <2>3
  <2>5. f[m - 1] = Envs(m - 1)
    BY <2>3, <2>4
  <2>6. f[(m - 1) + 1] = Envs((m - 1) + 1)
    BY <1>7, <2>3, <2>5
  <2>. QED BY <2>2, <2>3, <2>6
<1>. QED BY <1>5, <1>8 DEF Envs, n

-----------------------------------------------------------------------------
(* What a text counts, told by readings.                                      *)

LEMMA NumbersRead ==
  ASSUME AsBound(plan), NEW w \in Warehouses, NEW m \in Full(w), NEW c \in Columns,
         TableOf(c) \in Range(Scanned(plan))
  PROVE  Meaning(c, m) \in Int
<1>. DEFINE t == TableOf(c)
            D == {d[2] : d \in {x \in Columns : TableOf(x) = t}}
<1>1. t \in Tables /\ c[2] \in D
  BY CatalogAssumption
<1>2. w[t] \subseteq [D -> Int]
  BY <1>1, WarehouseAssumption
<1>3. NullRow(t) \in [D -> Int]
  BY DEF NullRow, Null
<1>4. m[t] \in RowsOf(w, t)
  BY FullMeans
<1>. HIDE DEF t, D
<1>5. m[t] \in [D -> Int]
  BY <1>2, <1>3, <1>4 DEF RowsOf
<1>6. m[t][c[2]] \in Int
  BY <1>1, <1>5
<1>. QED BY <1>6 DEF Meaning, t

\* WHERE says that a reading is the principal's, in time, and in the population, meets the
\* filters and the rules placed before the aggregation.
LEMMA WhereHolds ==
  ASSUME NEW lp, Compiled(lp), LooksUp(Clauses(lp)), NEW w \in Warehouses, NEW m \in Full(w)
  PROVE  HoldAll(Where(plan), m) <=>
           /\ OfTenant(m) /\ InTime(m) /\ HoldAll(plan.population \o plan.filters, m)
           /\ Governed(m, "before_aggregation")
<1>. DEFINE A == Range(TenantPredicates(plan))
            B == Range(TimePredicates(plan))
            C == Range(plan.population \o plan.filters)
            D == PlacedAt("before_aggregation")
            X == Range(Where(plan))
            H(p) == Holds(p, m)
<1>1. AsBound(plan) /\ KeysFound /\ lp.where = Where(plan)
  BY ColumnsScanned DEF Compiled
<1>2. X = A \cup B \cup C \cup D
  BY <1>1, WhereParts
<1>3. DOMAIN m = Range(Scanned(plan))
  <2>1. m = [t \in Range(Scanned(plan)) |-> m[t]]
    BY FullMeans
  <2>. QED BY <2>1
<1>4. (\A p \in A : H(p)) <=> OfTenant(m)
  <2>1. (\A p \in A : p \in X => H(p)) <=>
          \A t \in Range(TenantTables(plan)) : TenantPredicate(t) \in X =>
            m[t][Catalog[t].tenant_key[2]] = Values[<<"parameter", "p_tenant">>]
    BY <1>1, TenantMeans
  <2>2. OfTenant(m) <=> \A t \in Range(TenantTables(plan)) : t \in DOMAIN m =>
                          m[t][Catalog[t].tenant_key[2]] = Values[<<"parameter", "p_tenant">>]
    BY <1>1, <1>3, OfTenantMeans
  <2>3. \A t \in Range(TenantTables(plan)) : t \in DOMAIN m /\ TenantPredicate(t) \in A
    <3>1. TenantPredicates(plan) = [i \in DOMAIN TenantTables(plan) |-> TenantPredicate(TenantTables(plan)[i])]
      BY DEF TenantPredicates, TenantPredicate
    <3>2. Range(TenantTables(plan)) \subseteq Range(Scanned(plan))
      BY <1>1, TenantTablesTagged
    <3>. QED BY <1>3, <3>1, <3>2 DEF Range
  <2>. HIDE DEF A, X, H
  <2>. QED BY <1>2, <2>1, <2>2, <2>3
<1>5. (\A p \in B : H(p)) <=> InTime(m)
  <2>1. CASE plan.time = <<>>
    <3>1. B = {}
      BY <2>1 DEF TimePredicates, Range
    <3>. QED BY <2>1, <3>1 DEF InTime
  <2>2. CASE plan.time # <<>>
    <3>. DEFINE c == plan.time[1].column
    <3>1. c \in Columns /\ c \in Times
      <4>1. PICK x \in Columns, b \in BOOLEAN : plan.time = <<[column |-> x, bucket |-> b]>>
        <5>1. plan.time \in {<<[column |-> x, bucket |-> b]>> : x \in Columns, b \in BOOLEAN}
          BY <1>1, <2>2 DEF AsBound
        <5>. QED BY <5>1
      <4>. QED BY <4>1 DEF Times, Range
    <3>2. TableOf(c) \in Range(Scanned(plan))
      <4>1. Referenced(lp) = ColumnsIn(plan.measure) \cup Touched /\ c \in Touched
        BY <1>1, <3>1, ReferencedTouched DEF Compiled, Touched, Times
      <4>. QED BY <4>1, ColumnsScanned
    <3>3. Meaning(c, m) \in Int
      BY <1>1, <3>1, <3>2, NumbersRead
    <3>. QED BY <1>1, <2>2, <3>3, TimeMeans
  <2>. QED BY <2>1, <2>2
<1>6. (\A p \in D : H(p)) <=> Governed(m, "before_aggregation")
  <2>1. D = UNION {Range(o.predicate) : o \in {u \in Range(plan.obligations) : u.placement = "before_aggregation"}}
    BY DEF PlacedAt
  <2>. HIDE DEF D
  <2>. QED BY <2>1 DEF Governed, HoldAll
<1>. HIDE DEF A, B, C, D, X
<1>. QED BY <1>2, <1>4, <1>5, <1>6 DEF HoldAll, X, C
\* The readings of a plan are those that fit across its joins and that WHERE keeps.
LEMMA ReadingsMean ==
  ASSUME NEW lp, Compiled(lp), LooksUp(Clauses(lp)), NEW w \in Warehouses,
         NEW fact \in w[plan.base], NEW m
  PROVE  m \in Readings(fact, w) <=>
           m \in Fitting(w, Len(plan.joins) + 1) /\ m[plan.base] = fact /\ HoldAll(Where(plan), m)
<1>. DEFINE n == Len(plan.joins)
            T == Range(Scanned(plan))
            b == plan.base
            rows(t) == IF t = plan.base THEN {fact} ELSE w[t] \cup {NullRow(t)}
            P(x) == /\ OfTenant(x) /\ InTime(x) /\ HoldAll(plan.population \o plan.filters, x)
                    /\ Governed(x, "before_aggregation")
            Fit(x) == \A j \in Range(plan.joins) : Fits(x, j, w)
<1>1. AsBound(plan)
  BY DEF Compiled
<1>2. b \in T /\ n \in Nat
  <2>1. 1 \in DOMAIN Scanned(plan) /\ Scanned(plan)[1] = b /\ n \in Nat
    BY <1>1, PlanTyped, ScansNumbered
  <2>. QED BY <2>1 DEF Range
<1>3. Fit(m) <=> \A i \in 1..n : Fits(m, plan.joins[i], w)
  <2>1. Range(plan.joins) = {plan.joins[i] : i \in 1..n}
    BY <1>1, PlanTyped DEF Range
  <2>. HIDE DEF n
  <2>. QED BY <2>1
<1>4. Readings(fact, w) =
        {x \in [T -> UNION {rows(t) : t \in T}] : (\A t \in T : x[t] \in rows(t)) /\ Fit(x) /\ P(x)}
  BY DEF Readings
<1>. HIDE DEF P, Fit
<1>5. m \in [T -> UNION {rows(t) : t \in T}] /\ (\A t \in T : m[t] \in rows(t))
        <=> m = [t \in T |-> m[t]] /\ \A t \in T : m[t] \in rows(t)
  <2>. DEFINE U == UNION {rows(t) : t \in T}
  <2>1. (\A t \in T : m[t] \in rows(t)) => \A t \in T : m[t] \in U
    BY ZenonT(30)
  <2>. HIDE DEF U, T, rows
  <2>2. m \in [T -> U] => m = [t \in T |-> m[t]]
    OBVIOUS
  <2>3. m = [t \in T |-> m[t]] /\ (\A t \in T : m[t] \in U) => m \in [T -> U]
    OBVIOUS
  <2>. QED BY <2>1, <2>2, <2>3 DEF U
<1>6. (\A t \in T : m[t] \in rows(t)) <=> m[b] = fact /\ \A t \in T : m[t] \in RowsOf(w, t)
  BY <1>2 DEF RowsOf
<1>. HIDE DEF rows
<1>7. m \in Readings(fact, w) <=> m \in Full(w) /\ m[b] = fact /\ Fit(m) /\ P(m)
  <2>1. m \in Readings(fact, w) <=>
          m \in [T -> UNION {rows(t) : t \in T}] /\ (\A t \in T : m[t] \in rows(t)) /\ Fit(m) /\ P(m)
    BY <1>4
  <2>2. m \in Full(w) <=> m = [t \in T |-> m[t]] /\ \A t \in T : m[t] \in RowsOf(w, t)
    BY FullMeans
  <2>. HIDE DEF T, b
  <2>. QED BY <1>5, <1>6, <2>1, <2>2
<1>8. m \in Full(w) => (HoldAll(Where(plan), m) <=> P(m))
  BY WhereHolds DEF P
<1>9. m \in Fitting(w, n + 1) <=> m \in Full(w) /\ \A i \in 1..n : Fits(m, plan.joins[i], w)
  <2>1. (n + 1) - 1 = n
    BY <1>2
  <2>. HIDE DEF n
  <2>. QED BY <2>1 DEF Fitting
<1>. HIDE DEF n, b
<1>10. m \in Readings(fact, w) <=> m \in Fitting(w, n + 1) /\ m[b] = fact /\ HoldAll(Where(plan), m)
  BY <1>3, <1>7, <1>8, <1>9
<1>. QED BY <1>10 DEF n, b

\* The readings of all facts.
Every(w) == UNION {Readings(fact, w) : fact \in w[plan.base]}

LEMMA EveryMeans ==
  ASSUME NEW lp, Compiled(lp), LooksUp(Clauses(lp)), NEW w \in Warehouses
  PROVE  /\ Every(w) = {m \in Fitting(w, Len(plan.joins) + 1) : HoldAll(Where(plan), m)}
         /\ \A m \in Every(w) : /\ m \in Full(w) /\ m[plan.base] \in w[plan.base]
                                /\ m \in Readings(m[plan.base], w)
         /\ \A fact \in w[plan.base] : \A m \in Readings(fact, w) : m \in Every(w) /\ m[plan.base] = fact
<1>. DEFINE F == Fitting(w, Len(plan.joins) + 1)
            b == plan.base
<1>1. AsBound(plan)
  BY DEF Compiled
<1>2. \A fact \in w[b] : \A m : m \in Readings(fact, w) <=> m \in F /\ m[b] = fact /\ HoldAll(Where(plan), m)
  BY ReadingsMean
<1>3. \A m \in F : m \in Full(w) /\ m[b] \in w[b]
  <2>1. \A m \in F : m \in Full(w)
    BY DEF Fitting
  <2>2. b \in Range(Scanned(plan))
    <3>1. 1 \in DOMAIN Scanned(plan) /\ Scanned(plan)[1] = b
      BY <1>1, PlanTyped, ScansNumbered
    <3>. QED BY <3>1 DEF Range
  <2>3. \A m \in Full(w) : m[b] \in RowsOf(w, b)
    <3>. HIDE DEF b
    <3>. QED BY <2>2, FullMeans
  <2>. QED BY <2>1, <2>3 DEF RowsOf
<1>. HIDE DEF F, b
<1>4. Every(w) = {m \in F : HoldAll(Where(plan), m)}
  BY <1>2, <1>3 DEF Every, b
<1>5. \A m \in Every(w) : m \in Full(w) /\ m[b] \in w[b] /\ m \in Readings(m[b], w)
  BY <1>2, <1>3, <1>4
<1>6. \A fact \in w[b] : \A m \in Readings(fact, w) : m \in Every(w) /\ m[b] = fact
  BY <1>2, <1>4
<1>. QED BY <1>4, <1>5, <1>6 DEF F, b

\* The environment of a whole reading, and what the text can say of it.
Env(m) == EnvOf(m, Len(plan.joins) + 1)

LEMMA EnvSays ==
  ASSUME NEW lp, Compiled(lp), LooksUp(Clauses(lp)), NEW m
  PROVE  /\ Agree(Env(m), m, Range(Scanned(plan)))
         /\ SatisfiesAll(Env(m), GivenSeq(lp, lp.where)) <=> HoldAll(lp.where, m)
         /\ SatisfiesAll(Env(m), GivenSeq(lp, lp.having)) <=> HoldAll(lp.having, m)
<1>. DEFINE T == Range(Scanned(plan))
<1>1. /\ AsBound(plan) /\ KeysFound /\ lp = Lower(plan) /\ lp.where = Where(plan)
      /\ lp.having = Placed(plan, "after_aggregation")
  BY ColumnsScanned DEF Compiled
<1>2. Agree(Env(m), m, T)
  <2>1. Len(plan.joins) + 1 \in 1..Len(plan.joins) + 1 /\ First(Len(plan.joins) + 1) = T
    BY <1>1, FirstScans
  <2>. QED BY <1>1, <2>1, EnvAgrees DEF Env
<1>3. Sayable(lp, lp.where, T) /\ Sayable(lp, lp.having, T)
  <2>1. lp.where \in Seq(Expressions) /\ lp.having \in Seq(Expressions)
    BY <1>1, WhereTouched, ObligationsPlaced
  <2>2. Range(lp.where) \subseteq Range(Clauses(lp)) /\ Range(lp.having) \subseteq Range(Clauses(lp))
    BY <1>1, ClausesTouched, ObligationsPlaced
  <2>3. \A e \in Range(Clauses(lp)) : Writable(lp, e) /\ \A c \in ColumnsIn(e) : TableOf(c) \in T
    BY ClausesWritable
  <2>. HIDE DEF T
  <2>. QED BY <2>1, <2>2, <2>3 DEF Sayable, T
<1>. HIDE DEF T
<1>4. /\ SatisfiesAll(Env(m), GivenSeq(lp, lp.where)) <=> HoldAll(lp.where, m)
      /\ SatisfiesAll(Env(m), GivenSeq(lp, lp.having)) <=> HoldAll(lp.having, m)
  BY <1>2, <1>3, AllGivenHold
<1>. QED BY <1>2, <1>4 DEF T

\* The text counts the readings of the plan, each once.
LEMMA CountedReadings ==
  ASSUME NEW lp, Compiled(lp), LooksUp(Clauses(lp)), Resolves(plan), NEW w \in Warehouses
  PROVE  /\ Counted(Text(lp), Bound(Clauses(lp)), w) = {Env(m) : m \in Every(w)}
         /\ \A l, m \in Every(w) : Env(l) = Env(m) => l = m
<1>. DEFINE text == Text(lp)
            filled == Filled(TextClauses(text), Bound(Clauses(lp)))
            kept == SubSeq(filled, WhereFrom(text) + 1, WhereFrom(text) + Len(text.where))
            n == Len(plan.joins)
            F == Fitting(w, n + 1)
<1>1. lp.where = Where(plan) /\ AsBound(plan)
  BY ColumnsScanned DEF Compiled
<1>2. FromClause(text, filled, w) = {Env(m) : m \in F}
  <2>. HIDE DEF text, filled
  <2>1. FromClause(text, filled, w) = {EnvOf(m, n + 1) : m \in F}
    BY FromReadings DEF text, filled
  <2>. QED BY <2>1 DEF Env
<1>3. kept = GivenSeq(lp, lp.where)
  <2>. HIDE DEF text, filled
  <2>. QED BY TextFilled DEF text, filled
<1>4. Counted(text, Bound(Clauses(lp)), w) = {env \in FromClause(text, filled, w) : SatisfiesAll(env, kept)}
  BY DEF Counted
<1>5. \A m : SatisfiesAll(Env(m), GivenSeq(lp, lp.where)) <=> HoldAll(lp.where, m)
  BY EnvSays
<1>6. Every(w) = {m \in F : HoldAll(Where(plan), m)}
  BY EveryMeans
<1>. HIDE DEF kept, filled, F, text
<1>7. Counted(text, Bound(Clauses(lp)), w) = {Env(m) : m \in Every(w)}
  BY <1>1, <1>2, <1>3, <1>4, <1>5, <1>6
<1>8. ASSUME NEW l \in Every(w), NEW m \in Every(w), Env(l) = Env(m) PROVE l = m
  <2>. DEFINE T == Range(Scanned(plan))
  <2>1. \A t \in T : l[t] = m[t]
    <3>1. Agree(Env(l), l, T) /\ Agree(Env(m), m, T)
      BY EnvSays
    <3>. QED BY <1>8, <3>1 DEF Agree
  <2>2. l = [t \in T |-> l[t]] /\ m = [t \in T |-> m[t]]
    BY EveryMeans, FullMeans
  <2>. HIDE DEF T
  <2>. QED BY <2>1, <2>2
<1>. QED BY <1>7, <1>8 DEF text

-----------------------------------------------------------------------------
(* A fact is counted once.                                                    *)

\* What an exact answer rests on, in the warehouse and in the attestations.
Exact(lp, w) ==
  /\ Compiled(lp) /\ LooksUp(Clauses(lp)) /\ Resolves(plan) /\ w \in Warehouses
  /\ GrainIsKey(plan, w) /\ JoinsPreserve(plan, w)
  /\ \A j \in ToAttest(lp) : Attestable(lp, j) /\ Proved(lp, j, w)

\* A fact with a reading is in question.
LEMMA ReadInQuestion ==
  ASSUME NEW lp, Compiled(lp), LooksUp(Clauses(lp)), NEW w \in Warehouses, NEW m \in Every(w)
  PROVE  InQuestion(m[plan.base])
<1>. DEFINE fact == m[plan.base]
            es == FactOnly(lp)
<1>1. fact \in w[plan.base] /\ HoldAll(Where(plan), m)
  BY EveryMeans
<1>2. Range(es) = {p \in Range(Where(plan)) : OnlyBase(p)}
  BY FactsRestricted
<1>3. HoldAll(es, m)
  BY <1>1, <1>2 DEF HoldAll
<1>4. HoldAll(es, Alone(fact)) <=> InQuestion(fact)
  BY <1>1, FactsInQuestion
<1>5. HoldAll(es, Alone(fact)) <=> HoldAll(es, m)
  <2>. DEFINE T == {plan.base}
              x == Alone(fact)
  <2>1. \A e \in Range(es) : \A c \in ColumnsIn(e) : TableOf(c) \in T
    BY <1>2 DEF OnlyBase
  <2>2. \A t \in T : x[t] = m[t]
    BY DEF Alone
  <2>. HIDE DEF T, x, es
  <2>3. HoldAll(es, x) <=> HoldAll(es, m)
    BY <2>1, <2>2, HoldAlike
  <2>. QED BY <2>3 DEF x
<1>. HIDE DEF es, fact
<1>. QED BY <1>3, <1>4, <1>5 DEF fact

\* Across a join that was attested, a reading has one row to choose from.
LEMMA AttestedOnce ==
  ASSUME NEW lp, NEW w, Exact(lp, w), NEW k \in 1..Len(plan.joins),
         Relationships[plan.joins[k].rel].contract, NEW m \in Every(w)
  PROVE  \E r : RowsAt(m, k, w) = {r}
<1>. DEFINE t == plan.joins[k].to
            b == plan.base
            es == Relationships[plan.joins[k].rel].predicates
            fact == m[b]
<1>1. /\ Compiled(lp) /\ LooksUp(Clauses(lp)) /\ Resolves(plan) /\ w \in Warehouses
      /\ GrainIsKey(plan, w) /\ AsBound(plan) /\ lp = Lower(plan)
  BY DEF Exact, Compiled
<1>2. Attestable(lp, lp.joins[k]) /\ Proved(lp, lp.joins[k], w)
      /\ lp.joins[k].to = t /\ lp.joins[k].predicates = es /\ lp.base = b
  <2>1. /\ k \in DOMAIN lp.joins /\ lp.joins[k].rel = plan.joins[k].rel
        /\ lp.joins[k].to = t /\ lp.joins[k].predicates = es
    BY <1>1, JoinsLowered
  <2>2. lp.joins[k] \in ToAttest(lp)
    BY <2>1 DEF ToAttest, Range
  <2>3. lp.base = b
    BY <1>1 DEF Lower
  <2>. QED BY <2>1, <2>2, <2>3 DEF Exact
<1>3. m \in Full(w) /\ fact \in w[b]
  BY <1>1, EveryMeans
<1>4. MeetsOne(fact, plan.joins[k], w)
  <2>1. InQuestion(fact)
    BY <1>1, ReadInQuestion
  <2>2. \A f \in w[b] : InQuestion(f) => MeetsOne(f, plan.joins[k], w)
    BY <1>1, <1>2, ProvedExactly
  <2>. QED BY <1>3, <2>1, <2>2
<1>5. t # b /\ {b, t} \subseteq Range(Scanned(plan))
  BY <1>1, TablesNumbered
<1>6. ASSUME NEW row PROVE HoldAll(es, With(Alone(fact), t, row)) <=> Meets(m, k, row)
  <2>. DEFINE T == {b, t}
              x == With(Alone(fact), t, row)
              y == [m EXCEPT ![t] = row]
  <2>1. \A e \in Range(es) : \A c \in ColumnsIn(e) : TableOf(c) \in T
    BY <1>2 DEF Attestable, AllColumnsIn
  <2>2. x[b] = m[b] /\ x[t] = row
    BY <1>5 DEF With, Alone
  <2>3. y[b] = m[b] /\ y[t] = row
    <3>. HIDE DEF t, b
    <3>. QED BY <1>3, <1>5, OtherRow
  <2>4. Meets(m, k, row) = HoldAll(es, y)
    BY DEF Meets
  <2>5. \A u \in T : x[u] = y[u]
    <3>. HIDE DEF x, y, t, b
    <3>. QED BY <2>2, <2>3
  <2>. HIDE DEF x, y, es, t, b, T
  <2>6. HoldAll(es, x) <=> HoldAll(es, y)
    BY <2>1, <2>5, HoldAlike
  <2>. QED BY <2>4, <2>6 DEF x
<1>7. PICK r \in w[t] : \A other \in w[t] : HoldAll(es, With(Alone(fact), t, other)) <=> other = r
  BY <1>4 DEF MeetsOne
<1>8. RowsAt(m, k, w) = IF {row \in w[t] : Meets(m, k, row)} = {}
                             /\ Relationships[plan.joins[k].rel].type = "left"
                          THEN {NullRow(t)} ELSE {row \in w[t] : Meets(m, k, row)}
  BY DEF RowsAt
<1>. HIDE DEF t, es, fact, b
<1>9. {row \in w[t] : Meets(m, k, row)} = {r}
  BY <1>6, <1>7
<1>. QED BY <1>8, <1>9

\* Across the others, the hypothesis leaves one.
LEMMA PreservedOnce ==
  ASSUME NEW lp, NEW w, Exact(lp, w), NEW k \in 1..Len(plan.joins),
         ~Relationships[plan.joins[k].rel].contract, NEW m \in Every(w)
  PROVE  \A r, s \in RowsAt(m, k, w) : r = s
<1>. DEFINE t == plan.joins[k].to
            T == Range(Scanned(plan))
            rows(u) == w[u] \cup {NullRow(u)}
            U == UNION {rows(u) : u \in T}
<1>1. /\ Compiled(lp) /\ LooksUp(Clauses(lp)) /\ w \in Warehouses
      /\ JoinsPreserve(plan, w) /\ AsBound(plan)
  BY DEF Exact, Compiled
<1>2. plan.joins[k] \in Range(plan.joins)
  BY <1>1, FirstScans
<1>3. m \in Full(w)
  BY <1>1, EveryMeans
<1>4. m = [u \in T |-> m[u]] /\ \A u \in T : m[u] \in rows(u)
  BY <1>3, FullMeans DEF RowsOf
<1>5. m \in [T -> U]
  <2>1. \A u \in T : m[u] \in U
    BY <1>4
  <2>. HIDE DEF U, T
  <2>. QED BY <1>4, <2>1
<1>6. \A x \in [T -> U] : (\A u \in T : x[u] \in rows(u)) =>
        \A r, s \in w[t] : Meets(x, k, r) /\ Meets(x, k, s) => r = s
  BY <1>1, <1>2 DEF JoinsPreserve, Meets
<1>7. \A r, s \in w[t] : Meets(m, k, r) /\ Meets(m, k, s) => r = s
  <2>. HIDE DEF U, T, rows, t
  <2>. QED BY <1>4, <1>5, <1>6
<1>8. RowsAt(m, k, w) = IF {row \in w[t] : Meets(m, k, row)} = {}
                             /\ Relationships[plan.joins[k].rel].type = "left"
                          THEN {NullRow(t)} ELSE {row \in w[t] : Meets(m, k, row)}
  BY DEF RowsAt
<1>. HIDE DEF t
<1>. QED BY <1>7, <1>8

\* A fact has one reading at most.
LEMMA OneReading ==
  ASSUME NEW lp, NEW w, Exact(lp, w), NEW l \in Every(w), NEW m \in Every(w),
         l[plan.base] = m[plan.base]
  PROVE  l = m
<1>. DEFINE n == Len(plan.joins)
            Same(k) == \A t \in First(k) : l[t] = m[t]
<1>1. /\ Compiled(lp) /\ LooksUp(Clauses(lp)) /\ Resolves(plan) /\ w \in Warehouses /\ AsBound(plan)
  BY DEF Exact, Compiled
<1>2. /\ n \in Nat /\ Range(Scanned(plan)) = First(n + 1) /\ First(1) = {plan.base}
      /\ \A k \in 1..n : First(k + 1) = First(k) \cup {plan.joins[k].to}
  BY <1>1, FirstScans
<1>3. /\ l \in Full(w) /\ m \in Full(w)
      /\ \A k \in 1..n : Fits(l, plan.joins[k], w) /\ Fits(m, plan.joins[k], w)
  <2>1. /\ l \in Full(w) /\ m \in Full(w) /\ l \in Fitting(w, n + 1) /\ m \in Fitting(w, n + 1)
    BY <1>1, EveryMeans
  <2>2. (n + 1) - 1 = n
    BY <1>2
  <2>. HIDE DEF n
  <2>. QED BY <2>1, <2>2 DEF Fitting
<1>4. ASSUME NEW k \in 1..n, Same(k) PROVE Same(k + 1)
  <2>. DEFINE t == plan.joins[k].to
  <2>1. l[t] \in RowsAt(l, k, w) /\ m[t] \in RowsAt(m, k, w)
    BY <1>1, <1>3, FitsMeans
  <2>2. RowsAt(l, k, w) = RowsAt(m, k, w)
    BY <1>1, <1>3, <1>4, MeetsAlike
  <2>3. \A r, s \in RowsAt(m, k, w) : r = s
    <3>1. CASE Relationships[plan.joins[k].rel].contract
      <4>1. \E r : RowsAt(m, k, w) = {r}
        BY <3>1, AttestedOnce
      <4>. QED BY <4>1
    <3>2. CASE ~Relationships[plan.joins[k].rel].contract
      BY <3>2, PreservedOnce
    <3>. QED BY <3>1, <3>2
  <2>. HIDE DEF t
  <2>4. l[t] = m[t]
    BY <2>1, <2>2, <2>3
  <2>. QED BY <1>2, <1>4, <2>4 DEF t
<1>5. Same(1)
  BY <1>2
<1>. HIDE DEF Same
<1>6. Same(n + 1)
  <2>. DEFINE Bad == {k \in 1..n + 1 : ~Same(k)}
  <2>. SUFFICES ASSUME Bad # {} PROVE FALSE
    <3>1. n + 1 \in 1..n + 1
      BY <1>2
    <3>. QED BY <3>1
  <2>. HIDE DEF n
  <2>1. PICK k \in Bad : \A i \in Bad : k <= i
    <3>1. Bad \subseteq Nat
      BY <1>2
    <3>. HIDE DEF Bad
    <3>. QED BY <3>1, LeastNumber
  <2>2. k \in 1..n + 1 /\ ~Same(k) /\ k # 1 /\ k \in Nat
    BY <1>2, <1>5
  <2>3. k - 1 \in 1..n /\ k - 1 \in 1..n + 1 /\ (k - 1) + 1 = k /\ ~(k <= k - 1)
    BY <1>2, <2>2
  <2>4. k - 1 \notin Bad
    <3>. HIDE DEF Bad
    <3>. QED BY <2>1, <2>3
  <2>5. Same(k - 1)
    BY <2>3, <2>4
  <2>6. Same((k - 1) + 1)
    BY <1>4, <2>3, <2>5
  <2>. QED BY <2>2, <2>3, <2>6
<1>7. \A t \in Range(Scanned(plan)) : l[t] = m[t]
  BY <1>2, <1>6 DEF Same
<1>. DEFINE T == Range(Scanned(plan))
<1>8. l = [t \in T |-> l[t]] /\ m = [t \in T |-> m[t]]
  BY <1>3, FullMeans
<1>. HIDE DEF T
<1>. QED BY <1>7, <1>8 DEF T

-----------------------------------------------------------------------------
(* The rows of the answer.                                                    *)

\* What is collected does not depend on what stands for what is counted.
LEMMA CollectedAlike ==
  ASSUME NEW S, NEW E, NEW h \in Bijection(S, E), IsFiniteSet(S), NEW vs, NEW ve,
         \A x \in S : vs[x] = ve[h[x]]
  PROVE  Collected(S, vs) = Collected(E, ve)
<1>1. /\ h \in [S -> E] /\ \A x, y \in S : h[x] = h[y] => x = y
      /\ \A e \in E : \E x \in S : h[x] = e
  BY DEF Bijection, Injection, Surjection, IsInjective
<1>2. {vs[x] : x \in S} = {ve[e] : e \in E}
  BY <1>1
<1>3. ASSUME NEW v PROVE Cardinality({x \in S : vs[x] = v}) = Cardinality({e \in E : ve[e] = v})
  <2>. DEFINE A == {x \in S : vs[x] = v}
              B == {e \in E : ve[e] = v}
              g == [x \in A |-> h[x]]
  <2>1. g \in [A -> B] /\ \A x, y \in A : g[x] = g[y] => x = y
    BY <1>1
  <2>2. \A e \in B : \E x \in A : g[x] = e
    BY <1>1
  <2>3. IsFiniteSet(A)
    BY FS_Subset
  <2>. HIDE DEF A, B, g
  <2>4. g \in Bijection(A, B)
    BY <2>1, <2>2 DEF Bijection, Injection, Surjection, IsInjective
  <2>5. Cardinality(B) = Cardinality(A)
    BY <2>3, <2>4, FS_Bijection DEF ExistsBijection
  <2>. QED BY <2>5 DEF A, B
<1>. QED BY <1>2, <1>3 DEF Collected

\* The group and the measured values of an environment, and of a reading.
KeyIn(text, env) ==
  [i \in DOMAIN text.group |-> KeyOf(text.group[i], ValueOf(text.group[i].args[1], env))]

ValuesIn(text, env) ==
  LET measure == text.items[Len(text.items)]
  IN [i \in DOMAIN measure.args |-> ValueOf(measure.args[i], env)]

KeyAt(m) == [i \in DOMAIN Grouped(plan) |-> KeyOf(Grouped(plan)[i], Meaning(Grouped(plan)[i].args[1], m))]

ValuesAt(m) == [i \in DOMAIN plan.measure.args |-> Meaning(plan.measure.args[i], m)]

\* What is grouped by and measured, read in the text.
LEMMA ItemsRead ==
  ASSUME NEW lp, Compiled(lp), NEW text, text = Text(lp)
  PROVE  /\ DOMAIN text.group = DOMAIN Grouped(plan) /\ (text.group = <<>> <=> Grouped(plan) = <<>>)
         /\ \A i \in DOMAIN Grouped(plan) :
              /\ text.group[i] = Written(lp, Grouped(plan)[i])
              /\ \E c \in Columns : TableOf(c) \in Range(Scanned(plan)) /\ Grouped(plan)[i].args = <<c>>
         /\ text.items[Len(text.items)] = Written(lp, plan.measure)
         /\ plan.measure.args \in Seq(Columns)
         /\ \A i \in DOMAIN plan.measure.args : TableOf(plan.measure.args[i]) \in Range(Scanned(plan))
<1>. DEFINE g == Grouped(plan)
            n == Len(g)
            es == Append(g, plan.measure)
            T == Range(Scanned(plan))
<1>1. /\ AsBound(plan) /\ lp.group = g /\ lp.measure = plan.measure
      /\ \A c \in Referenced(lp) : TableOf(c) \in T
  BY ColumnsScanned DEF Compiled
<1>2. /\ g \in Seq(Expressions) /\ \A e \in Range(g) : \E c \in Columns : e.args = <<c>>
      /\ plan.measure \in Expressions /\ plan.measure.args \in Seq(Columns)
  <2>1. plan.measure.args \in Seq(Columns)
    BY <1>1, PublishedAssumption DEF AsBound
  <2>. QED BY <1>1, <2>1, GroupsTouched, PlanTyped
<1>3. text.group = AllWritten(lp, g) /\ text.items = AllWritten(lp, es)
  BY <1>1 DEF Text
<1>4. ColumnsIn(plan.measure) \subseteq Referenced(lp) /\ AllColumnsIn(g) \subseteq Referenced(lp)
  BY <1>1 DEF Referenced
<1>. HIDE DEF T
<1>5. \A i \in DOMAIN plan.measure.args : TableOf(plan.measure.args[i]) \in T
  <2>1. \A i \in DOMAIN plan.measure.args : plan.measure.args[i] \in Columns
    BY <1>2
  <2>2. \A i \in DOMAIN plan.measure.args : plan.measure.args[i] \in ColumnsIn(plan.measure)
    BY <2>1 DEF ColumnsIn, Range
  <2>. QED BY <1>1, <1>4, <2>2
<1>. HIDE DEF g
<1>6. ASSUME NEW i \in DOMAIN g PROVE \E c \in Columns : TableOf(c) \in T /\ g[i].args = <<c>>
  <2>1. PICK c \in Columns : g[i].args = <<c>>
    BY <1>2 DEF Range
  <2>2. c \in ColumnsIn(g[i])
    <3>1. 1 \in DOMAIN <<c>> /\ <<c>>[1] = c
      OBVIOUS
    <3>. QED BY <2>1, <3>1 DEF ColumnsIn, Range
  <2>3. c \in AllColumnsIn(g)
    BY <2>2 DEF AllColumnsIn, Range
  <2>. QED BY <1>1, <1>4, <2>1, <2>3
<1>7. /\ n \in Nat /\ DOMAIN g = 1..n /\ es \in Seq(Expressions) /\ Len(es) = n + 1
      /\ es[n + 1] = plan.measure
  BY <1>2
<1>. HIDE DEF es
<1>8. /\ DOMAIN text.group = DOMAIN g /\ Len(text.group) = Len(g)
      /\ \A i \in DOMAIN g : text.group[i] = Written(lp, g[i])
      /\ text.group \in Seq({Written(lp, e) : e \in Expressions})
  BY <1>2, <1>3, WrittenInOrder
<1>9. text.group = <<>> <=> g = <<>>
  BY <1>2, <1>8
<1>10. /\ Len(text.items) = n + 1 /\ n + 1 \in DOMAIN es
       /\ \A i \in DOMAIN es : text.items[i] = Written(lp, es[i])
  <2>1. /\ Len(AllWritten(lp, es)) = Len(es)
        /\ \A i \in DOMAIN es : AllWritten(lp, es)[i] = Written(lp, es[i])
    BY <1>7, WrittenInOrder
  <2>2. n + 1 \in DOMAIN es
    BY <1>7
  <2>. HIDE DEF n
  <2>. QED BY <1>3, <1>7, <2>1, <2>2
<1>11. text.items[Len(text.items)] = Written(lp, plan.measure)
  BY <1>7, <1>10
<1>. QED BY <1>2, <1>5, <1>6, <1>8, <1>9, <1>11 DEF g, T

\* An environment falls in the group of its reading, with the same values.
LEMMA ItemsAgree ==
  ASSUME NEW lp, Compiled(lp), LooksUp(Clauses(lp)), NEW m
  PROVE  KeyIn(Text(lp), Env(m)) = KeyAt(m) /\ ValuesIn(Text(lp), Env(m)) = ValuesAt(m)
<1>. DEFINE text == Text(lp)
            g == Grouped(plan)
            T == Range(Scanned(plan))
            args == plan.measure.args
<1>1. /\ DOMAIN text.group = DOMAIN g
      /\ \A i \in DOMAIN g : /\ text.group[i] = Written(lp, g[i])
                             /\ \E c \in Columns : TableOf(c) \in T /\ g[i].args = <<c>>
      /\ text.items[Len(text.items)] = Written(lp, plan.measure)
      /\ args \in Seq(Columns) /\ \A i \in DOMAIN args : TableOf(args[i]) \in T
  BY ItemsRead
<1>2. \A c \in Columns : TableOf(c) \in T => ValueOf(Term(lp, c), Env(m)) = Meaning(c, m)
  <2>1. Agree(Env(m), m, T)
    BY EnvSays
  <2>. QED BY <2>1, ValuesAgree
<1>. HIDE DEF text, g, T, args
<1>3. ASSUME NEW i \in DOMAIN g
      PROVE  KeyOf(text.group[i], ValueOf(text.group[i].args[1], Env(m))) = KeyOf(g[i], Meaning(g[i].args[1], m))
  <2>1. PICK c \in Columns : TableOf(c) \in T /\ g[i].args = <<c>>
    BY <1>1
  <2>2. Written(lp, g[i]).op = g[i].op /\ Written(lp, g[i]).args[1] = Term(lp, c) /\ g[i].args[1] = c
    BY <2>1 DEF Written, Predicate
  <2>. QED BY <1>1, <1>2, <2>1, <2>2 DEF KeyOf
<1>4. KeyIn(text, Env(m)) = KeyAt(m)
  BY <1>1, <1>3 DEF KeyIn, KeyAt, g
<1>5. ValuesIn(text, Env(m)) = ValuesAt(m)
  <2>1. Written(lp, plan.measure).args = [i \in DOMAIN args |-> Term(lp, args[i])]
    BY DEF Written, Predicate, args
  <2>2. ASSUME NEW i \in DOMAIN args PROVE ValueOf(Term(lp, args[i]), Env(m)) = Meaning(args[i], m)
    <3>1. args[i] \in Columns
      BY <1>1
    <3>. QED BY <1>1, <1>2, <3>1
  <2>3. ValuesIn(text, Env(m)) = [i \in DOMAIN args |-> ValueOf(Term(lp, args[i]), Env(m))]
    BY <1>1, <2>1 DEF ValuesIn
  <2>. QED BY <2>2, <2>3 DEF ValuesAt, args
<1>. QED BY <1>4, <1>5 DEF text

\* A plan's answer, in parts: the readings at each fact, the facts in a group, what is
\* measured at them, and the groups that are kept.
ReadAt(w) == [fact \in w[plan.base] |-> Readings(fact, w)]

FactsAt(k, w) == {fact \in w[plan.base] : \E m \in ReadAt(w)[fact] : KeyAt(m) = k}

ReadingAt(k, fact, w) == CHOOSE m \in ReadAt(w)[fact] : KeyAt(m) = k

MeasuredAt(k, w) == [fact \in FactsAt(k, w) |-> ValuesAt(ReadingAt(k, fact, w))]

KeysAt(w) == IF Grouped(plan) = <<>> THEN {<<>>} ELSE {KeyAt(m) : m \in Every(w)}

KeptAt(w) ==
  {k \in KeysAt(w) : \A m \in Every(w) : KeyAt(m) = k => Governed(m, "after_aggregation")}

LEMMA ExpectedInParts ==
  ASSUME NEW w
  PROVE  Expected(w) =
           {Append(k, Aggregated(plan.measure.op, Collected(FactsAt(k, w), MeasuredAt(k, w)))) :
              k \in KeptAt(w)}
<1>1. UNION {ReadAt(w)[fact] : fact \in w[plan.base]} = Every(w)
  <2>1. \A fact \in w[plan.base] : ReadAt(w)[fact] = Readings(fact, w)
    BY DEF ReadAt
  <2>. QED BY <2>1 DEF Every
<1>. DEFINE all == UNION {ReadAt(w)[fact] : fact \in w[plan.base]}
            keys == IF Grouped(plan) = <<>> THEN {<<>>} ELSE {KeyAt(m) : m \in all}
            kept == {k \in keys : \A m \in all : KeyAt(m) = k => Governed(m, "after_aggregation")}
<1>2. Expected(w) =
        {Append(k, Aggregated(plan.measure.op, Collected(FactsAt(k, w), MeasuredAt(k, w)))) : k \in kept}
  BY DEF Expected, ReadAt, FactsAt, ReadingAt, MeasuredAt, KeyAt, ValuesAt
<1>3. kept = KeptAt(w)
  BY <1>1 DEF KeptAt, KeysAt
<1>. QED BY <1>2, <1>3

\* A query's answer, in the same parts.
EnvsAt(k, text, envs) == {env \in envs : KeyIn(text, env) = k}

MeasuredIn(text, envs) == [env \in envs |-> ValuesIn(text, env)]

KeysIn(text, envs) == IF text.group = <<>> THEN {<<>>} ELSE {KeyIn(text, env) : env \in envs}

KeptIn(text, envs, having) ==
  {k \in KeysIn(text, envs) :
     \A env \in envs : KeyIn(text, env) = k => SatisfiesAll(env, having)}

HavingIn(text, filled) == SubSeq(filled, WhereFrom(text) + Len(text.where) + 1, Len(filled))

RowsIn(text, envs, having) ==
  {Append(k, Aggregated(text.items[Len(text.items)].op,
                        Collected(EnvsAt(k, text, envs), MeasuredIn(text, envs)))) :
     k \in KeptIn(text, envs, having)}

LEMMA AnswerInParts ==
  ASSUME NEW text, NEW values, NEW w
  PROVE  Answer(text, values, w) =
           RowsIn(text, Counted(text, values, w), HavingIn(text, Filled(TextClauses(text), values)))
BY DEF Answer, EnvsAt, MeasuredIn, KeysIn, KeyIn, ValuesIn, KeptIn, HavingIn, RowsIn

\* In each group, a fact stands for the one environment that holds it.
LEMMA GroupsCollected ==
  ASSUME NEW lp, NEW w, Exact(lp, w), NEW text, text = Text(lp), NEW envs,
         envs = {Env(m) : m \in Every(w)}, NEW k
  PROVE  Collected(FactsAt(k, w), MeasuredAt(k, w))
           = Collected(EnvsAt(k, text, envs), MeasuredIn(text, envs))
<1>. DEFINE S == FactsAt(k, w)
            E == EnvsAt(k, text, envs)
            The(f) == ReadingAt(k, f, w)
            h == [f \in S |-> Env(The(f))]
            b == plan.base
            vs == MeasuredAt(k, w)
            ve == MeasuredIn(text, envs)
<1>1. Compiled(lp) /\ LooksUp(Clauses(lp)) /\ w \in Warehouses /\ Resolves(plan) /\ AsBound(plan)
  BY DEF Exact, Compiled
<1>2. \A m : KeyIn(text, Env(m)) = KeyAt(m) /\ ValuesIn(text, Env(m)) = ValuesAt(m)
  BY <1>1, ItemsAgree
<1>3. \A l, m \in Every(w) : /\ Env(l) = Env(m) => l = m
                             /\ l[b] = m[b] => l = m
  BY <1>1, CountedReadings, OneReading
<1>4. /\ \A f \in w[b] : ReadAt(w)[f] = Readings(f, w)
      /\ \A f \in w[b] : \A m \in Readings(f, w) : m \in Every(w) /\ m[b] = f
      /\ \A m \in Every(w) : m[b] \in w[b] /\ m \in Readings(m[b], w)
  BY <1>1, EveryMeans DEF ReadAt
<1>5. \A f \in S : The(f) \in Every(w) /\ The(f)[b] = f /\ KeyAt(The(f)) = k
  <2>1. \A f \in S : f \in w[b] /\ The(f) \in ReadAt(w)[f] /\ KeyAt(The(f)) = k
    BY DEF FactsAt, ReadingAt
  <2>. HIDE DEF S, The, b
  <2>. QED BY <1>4, <2>1
<1>6. /\ \A m \in Every(w) : KeyAt(m) = k => Env(m) \in E /\ m[b] \in S
      /\ \A env \in E : \E m \in Every(w) : env = Env(m) /\ KeyAt(m) = k
  BY <1>2, <1>4 DEF EnvsAt, FactsAt
<1>7. IsFiniteSet(S)
  <2>1. b \in Tables
    BY <1>1, PlanTyped
  <2>2. IsFiniteSet(w[b])
    BY <1>1, <2>1, WarehouseAssumption
  <2>3. S \subseteq w[b]
    BY DEF FactsAt
  <2>. QED BY <2>2, <2>3, FS_Subset
<1>8. /\ \A f \in S : vs[f] = ValuesAt(The(f))
      /\ \A m \in Every(w) : ve[Env(m)] = ValuesIn(text, Env(m))
  BY DEF MeasuredAt, MeasuredIn
<1>. HIDE DEF S, E, The, b, vs, ve
<1>9. h \in [S -> E] /\ \A f, g \in S : h[f] = h[g] => f = g
  <2>1. \A f \in S : Env(The(f)) \in E
    BY <1>5, <1>6
  <2>2. \A f, g \in S : Env(The(f)) = Env(The(g)) => f = g
    BY <1>3, <1>5
  <2>. QED BY <2>1, <2>2
<1>10. \A env \in E : \E f \in S : h[f] = env
  <2>. SUFFICES ASSUME NEW env \in E PROVE \E f \in S : Env(The(f)) = env
    OBVIOUS
  <2>1. PICK m \in Every(w) : env = Env(m) /\ KeyAt(m) = k
    BY <1>6
  <2>2. m[b] \in S
    BY <1>6, <2>1
  <2>3. The(m[b]) = m
    BY <1>3, <1>5, <2>2
  <2>. QED BY <2>1, <2>2, <2>3
<1>11. \A f \in S : vs[f] = ve[h[f]]
  BY <1>2, <1>5, <1>8
<1>. HIDE DEF h
<1>12. h \in Bijection(S, E)
  BY <1>9, <1>10 DEF Bijection, Injection, Surjection, IsInjective
<1>13. Collected(S, vs) = Collected(E, ve)
  BY <1>7, <1>11, <1>12, CollectedAlike
<1>. QED BY <1>13 DEF S, E, vs, ve

\* The groups of the text are those of the plan, and HAVING keeps the same.
LEMMA GroupsKept ==
  ASSUME NEW lp, Compiled(lp), LooksUp(Clauses(lp)), NEW w, NEW text, text = Text(lp), NEW envs,
         envs = {Env(m) : m \in Every(w)}, NEW having, having = GivenSeq(lp, lp.having)
  PROVE  KeptAt(w) = KeptIn(text, envs, having)
<1>1. AsBound(plan) /\ lp.having = Placed(plan, "after_aggregation")
  BY ColumnsScanned DEF Compiled
<1>2. \A m : KeyIn(text, Env(m)) = KeyAt(m)
  BY ItemsAgree
<1>3. text.group = <<>> <=> Grouped(plan) = <<>>
  BY ItemsRead
<1>4. KeysIn(text, envs) = KeysAt(w)
  <2>1. {KeyIn(text, env) : env \in envs} = {KeyAt(m) : m \in Every(w)}
    BY <1>2
  <2>. QED BY <1>3, <2>1 DEF KeysIn, KeysAt
<1>5. \A m : SatisfiesAll(Env(m), having) <=> Governed(m, "after_aggregation")
  <2>. SUFFICES ASSUME NEW m
                PROVE  SatisfiesAll(Env(m), having) <=> Governed(m, "after_aggregation")
    OBVIOUS
  <2>1. SatisfiesAll(Env(m), having) <=> HoldAll(lp.having, m)
    BY EnvSays
  <2>2. Range(lp.having) =
          UNION {Range(o.predicate) : o \in {u \in Range(plan.obligations) : u.placement = "after_aggregation"}}
    BY <1>1, ObligationsPlaced DEF PlacedAt
  <2>3. HoldAll(lp.having, m) <=> Governed(m, "after_aggregation")
    BY <2>2 DEF HoldAll, Governed
  <2>. QED BY <2>1, <2>3
<1>6. \A k : (\A m \in Every(w) : KeyAt(m) = k => Governed(m, "after_aggregation"))
               <=> \A env \in envs : KeyIn(text, env) = k => SatisfiesAll(env, having)
  BY <1>2, <1>5
<1>. QED BY <1>4, <1>6 DEF KeptAt, KeptIn

\* What is executed as it was compiled answers exactly what the plan means.
LEMMA AnswerMeans ==
  ASSUME NEW lp, NEW w, Exact(lp, w)
  PROVE  Answer(Text(lp), Bound(Clauses(lp)), w) = Expected(w)
<1>. DEFINE text == Text(lp)
            values == Bound(Clauses(lp))
            filled == Filled(TextClauses(text), values)
            having == HavingIn(text, filled)
            envs == Counted(text, values, w)
            kept == KeptIn(text, envs, having)
            op == text.items[Len(text.items)].op
            Bag(k) == Collected(EnvsAt(k, text, envs), MeasuredIn(text, envs))
            Own(k) == Collected(FactsAt(k, w), MeasuredAt(k, w))
<1>1. Compiled(lp) /\ LooksUp(Clauses(lp)) /\ Resolves(plan) /\ w \in Warehouses
  BY DEF Exact
<1>2. envs = {Env(m) : m \in Every(w)}
  BY <1>1, CountedReadings
<1>3. having = GivenSeq(lp, lp.having)
  <2>. HIDE DEF filled, text
  <2>. QED BY <1>1, TextFilled DEF filled, text, HavingIn
<1>4. op = plan.measure.op
  <2>1. text.items[Len(text.items)] = Written(lp, plan.measure)
    BY <1>1, ItemsRead
  <2>. QED BY <2>1 DEF Written, Predicate
<1>5. Answer(text, values, w) = {Append(k, Aggregated(op, Bag(k))) : k \in kept}
  <2>1. Answer(text, values, w) = RowsIn(text, envs, having)
    BY AnswerInParts
  <2>. HIDE DEF text, values, envs, having
  <2>. QED BY <2>1 DEF RowsIn
<1>6. Expected(w) = {Append(k, Aggregated(plan.measure.op, Own(k))) : k \in KeptAt(w)}
  BY ExpectedInParts
<1>7. KeptAt(w) = kept
  <2>. HIDE DEF text, envs, having
  <2>. QED BY <1>1, <1>2, <1>3, GroupsKept DEF text
<1>8. \A k : Own(k) = Bag(k)
  <2>. HIDE DEF text, envs
  <2>. QED BY <1>2, GroupsCollected DEF text
<1>. HIDE DEF kept, Bag, Own, op, text, values
<1>9. Answer(text, values, w) = Expected(w)
  BY <1>4, <1>5, <1>6, <1>7, <1>8
<1>. QED BY <1>9 DEF text, values

LEMMA Answered ==
  ASSUME Inv, Upheld, Resolves(plan), GrainIsKey(plan, data), JoinsPreserve(plan, data)
  PROVE  AnswersAreExact
<1>. SUFFICES ASSUME pc = "answered", edit = "none" PROVE answer = Expected(data)
  BY DEF AnswersAreExact
<1>1. /\ Compiled(logical) /\ LooksUp(Clauses(logical)) /\ compiled = Compile(logical)
  BY DEF Inv, Judged, Compiled, Resolves, LooksUp
<1>2. /\ data \in Warehouses /\ answer = Answer(compiled.text, compiled.values, data)
      /\ \A j \in ToAttest(logical) : Attestable(logical, j) /\ Proved(logical, j, data)
  BY DEF Upheld, Asked
<1>3. compiled.text = Text(logical) /\ compiled.values = Bound(Clauses(logical))
  BY <1>1 DEF Compile
<1>4. Exact(logical, data)
  BY <1>1, <1>2 DEF Exact
<1>. QED BY <1>2, <1>3, <1>4, AnswerMeans

\* What is executed as it was compiled answers exactly what the plan means, where the
\* declared grain of the base is a key and no join without a contract matches two rows.
THEOREM AnswersAlwaysExact ==
  Spec => [](Resolves(plan) /\ GrainIsKey(plan, data) /\ JoinsPreserve(plan, data)
               => AnswersAreExact)
<1>1. Init => Upheld
  BY DEF Init, Upheld, Asked
<1>2. Spec => []Inv /\ []Upheld
  BY <1>1, InvInit, InvStep, UpheldStep, PTL DEF Spec
<1>3. Inv /\ Upheld => (Resolves(plan) /\ GrainIsKey(plan, data) /\ JoinsPreserve(plan, data)
                          => AnswersAreExact)
  BY Answered
<1>. QED BY <1>2, <1>3, PTL

-----------------------------------------------------------------------------
(* A text that lacks a predicate, or has another one.                         *)

\* The x-th element is taken out.
Without(ss, x, tt) ==
  /\ Len(ss) = Len(tt) + 1
  /\ \A i \in 1..Len(tt) : tt[i] = IF i < x THEN ss[i] ELSE ss[i + 1]

LEMMA LengthCounts == ASSUME NEW S, NEW s \in Seq(S) PROVE Len(s) \in Nat
OBVIOUS

LEMMA FlattenWithout ==
  ASSUME NEW S, NEW ss \in Seq(Seq(S)), NEW tt \in Seq(Seq(S)), NEW x \in 1..Len(ss),
         Without(ss, x, tt)
  PROVE  /\ Len(FlattenSeq(tt)) + Len(ss[x]) = Len(FlattenSeq(ss))
         /\ ss[x] = <<>> => FlattenSeq(tt) = FlattenSeq(ss)
<1>. DEFINE n == Len(tt)
            Good(m) == /\ Len(Upto(tt, m)) + Len(ss[x]) = Len(Upto(ss, m + 1))
                       /\ ss[x] = <<>> => Upto(tt, m) = Upto(ss, m + 1)
            Bad == {m \in (x - 1)..n : ~Good(m)}
<1>1. /\ n \in Nat /\ Len(ss) = n + 1 /\ x \in 1..n + 1 /\ x - 1 \in 0..n /\ n \in (x - 1)..n
      /\ \A i \in 1..n : tt[i] = IF i < x THEN ss[i] ELSE ss[i + 1]
      /\ ss[x] \in Seq(S)
  BY DEF Without
<1>2. /\ FlattenSeq(ss) = Upto(ss, n + 1)
      /\ \A m \in 1..n + 1 : Upto(ss, m) = Upto(ss, m - 1) \o ss[m]
      /\ \A m \in 0..n + 1 : Upto(ss, m) \in Seq(S)
      /\ FlattenSeq(tt) = Upto(tt, n)
      /\ \A m \in 1..n : Upto(tt, m) = Upto(tt, m - 1) \o tt[m]
      /\ \A m \in 0..n : Upto(tt, m) \in Seq(S)
  BY <1>1, FlattenStep
<1>3. \A s, t \in Seq(S) : /\ Len(s \o t) = Len(s) + Len(t) /\ Len(s) \in Nat
                           /\ t = <<>> => s \o t = s
  OBVIOUS
<1>4. Good(x - 1)
  <2>1. Upto(tt, x - 1) = Upto(ss, x - 1)
    <3>1. \A i \in 1..(x - 1) : i \in 1..n /\ i < x
      BY <1>1
    <3>2. \A i \in 1..(x - 1) : tt[i] = ss[i]
      BY <1>1, <3>1
    <3>. QED BY <3>2 DEF Upto
  <2>2. Upto(ss, x) = Upto(ss, x - 1) \o ss[x] /\ Upto(ss, x - 1) \in Seq(S) /\ (x - 1) + 1 = x
    BY <1>1, <1>2
  <2>. QED BY <1>1, <1>3, <2>1, <2>2, Zenon
<1>5. Bad = {}
  <2>. SUFFICES ASSUME Bad # {} PROVE FALSE
    OBVIOUS
  <2>1. PICK k \in Bad : \A m \in Bad : k <= m
    <3>1. Bad \subseteq Nat
      BY <1>1
    <3>. HIDE DEF Bad
    <3>. QED BY <3>1, LeastNumber
  <2>2. k \in (x - 1)..n /\ ~Good(k)
    OBVIOUS
  <2>3. k # x - 1
    BY <1>4, <2>2
  <2>4. /\ k \in 1..n /\ k - 1 \in (x - 1)..n /\ ~(k <= k - 1) /\ ~(k < x)
        /\ k - 1 \in 0..n /\ k + 1 \in 1..n + 1 /\ k \in 0..n + 1 /\ (k + 1) - 1 = k /\ (k - 1) + 1 = k
    BY <1>1, <2>2, <2>3
  <2>5. Good(k - 1)
    <3>1. k - 1 \notin Bad
      <4>. HIDE DEF Bad
      <4>. QED BY <2>1, <2>4
    <3>. HIDE DEF Good
    <3>. QED BY <2>4, <3>1
  <2>. DEFINE t == ss[k + 1]
              a == Upto(tt, k - 1)
              b == Upto(ss, k)
              l == Len(ss[x])
  <2>6. /\ Upto(tt, k) = a \o t /\ Upto(ss, k + 1) = b \o t
        /\ a \in Seq(S) /\ b \in Seq(S) /\ t \in Seq(S)
    <3>1. ss[k + 1] \in Seq(S)
      BY <1>1, <2>4
    <3>. QED BY <1>1, <1>2, <2>4, <3>1
  <2>7. Len(a) + l = Len(b) /\ (ss[x] = <<>> => a = b) /\ l \in Nat
    BY <1>1, <1>3, <2>4, <2>5
  <2>. HIDE DEF a, b, t, l
  <2>8. Len(a \o t) + l = Len(b \o t)
    <3>1. Len(a \o t) = Len(a) + Len(t) /\ Len(b \o t) = Len(b) + Len(t)
      BY <1>3, <2>6
    <3>2. Len(a) \in Nat /\ Len(b) \in Nat /\ Len(t) \in Nat
      <4>1. a \in Seq(S) /\ b \in Seq(S) /\ t \in Seq(S)
        BY ONLY <2>6
      <4>. QED BY <4>1, LengthCounts
    <3>. DEFINE p == Len(a)
                q == Len(b)
                r == Len(t)
    <3>3. p \in Nat /\ q \in Nat /\ r \in Nat /\ l \in Nat /\ p + l = q
      BY <2>7, <3>2
    <3>. HIDE DEF p, q, r
    <3>4. (p + r) + l = q + r
      BY ONLY <3>3
    <3>. QED BY <3>1, <3>4 DEF p, q, r
  <2>9. Good(k)
    BY <2>6, <2>7, <2>8 DEF l
  <2>. QED BY <2>2, <2>9
<1>6. Good(n)
  <2>. HIDE DEF Good
  <2>. QED BY <1>1, <1>5
<1>. QED BY <1>2, <1>6

\* The values of predicates, one predicate after the other.
LEMMA BoundParts ==
  ASSUME NEW lp, NEW es \in Seq(Expressions), \A e \in Range(es) : Writable(lp, e),
         NEW bs, bs = [i \in 1..Len(es) |-> Among(es[i].args, Bindings)]
  PROVE  /\ bs \in Seq(Seq(Operands)) /\ Len(bs) = Len(es) /\ Bound(es) = FlattenSeq(bs)
         /\ \A i \in 1..Len(es) : bs[i] = Among(es[i].args, Bindings)
<1>. DEFINE n == Len(es)
<1>1. n \in Nat /\ DOMAIN es = 1..n /\ \A i \in 1..n : Writable(lp, es[i])
  BY DEF Range
<1>2. \A i \in 1..n : /\ Among(Emitted(es[i]), Bindings) = Among(es[i].args, Bindings)
                      /\ Among(es[i].args, Bindings) \in Seq(Operands)
  BY <1>1, OperandsCounted
<1>3. Bound(es) = FlattenSeq([i \in 1..n |-> Among(Emitted(es[i]), Bindings)])
  BY <1>1 DEF Bound
<1>4. [i \in 1..n |-> Among(Emitted(es[i]), Bindings)] = bs
  BY <1>2
<1>. HIDE DEF n
<1>. QED BY <1>1, <1>2, <1>3, <1>4 DEF n

\* If as many values are left without a predicate, it had none.
LEMMA BoundWithout ==
  ASSUME NEW lp, NEW es \in Seq(Expressions), \A e \in Range(es) : Writable(lp, e),
         NEW ds \in Seq(Expressions), \A e \in Range(ds) : Writable(lp, e),
         NEW x \in 1..Len(es), Without(es, x, ds), Len(Bound(ds)) = Len(Bound(es))
  PROVE  Bound(ds) = Bound(es)
<1>. DEFINE bs == [i \in 1..Len(es) |-> Among(es[i].args, Bindings)]
            cs == [i \in 1..Len(ds) |-> Among(ds[i].args, Bindings)]
<1>1. /\ bs \in Seq(Seq(Operands)) /\ Len(bs) = Len(es) /\ Bound(es) = FlattenSeq(bs)
      /\ \A i \in 1..Len(es) : bs[i] = Among(es[i].args, Bindings)
  BY BoundParts
<1>2. /\ cs \in Seq(Seq(Operands)) /\ Len(cs) = Len(ds) /\ Bound(ds) = FlattenSeq(cs)
      /\ \A i \in 1..Len(ds) : cs[i] = Among(ds[i].args, Bindings)
  BY BoundParts
<1>. HIDE DEF bs, cs
<1>3. Without(bs, x, cs) /\ x \in 1..Len(bs)
  <2>1. \A i \in 1..Len(ds) : /\ i \in 1..Len(es) /\ i + 1 \in 1..Len(es)
                              /\ ds[i] = IF i < x THEN es[i] ELSE es[i + 1]
    BY DEF Without
  <2>2. \A i \in 1..Len(ds) : cs[i] = IF i < x THEN bs[i] ELSE bs[i + 1]
    BY <1>1, <1>2, <2>1
  <2>. QED BY <1>1, <1>2, <2>2 DEF Without
<1>4. Len(FlattenSeq(cs)) + Len(bs[x]) = Len(FlattenSeq(bs)) /\ (bs[x] = <<>> => FlattenSeq(cs) = FlattenSeq(bs))
  BY <1>1, <1>2, <1>3, FlattenWithout
<1>5. bs[x] \in Seq(Operands) /\ FlattenSeq(bs) \in Seq(Operands) /\ FlattenSeq(cs) \in Seq(Operands)
  BY <1>1, <1>2, <1>3, RangeOfFlatten
<1>6. \A s \in Seq(Operands) : Len(s) \in Nat /\ (Len(s) = 0 => s = <<>>)
  OBVIOUS
<1>7. Len(bs[x]) = 0
  BY <1>1, <1>2, <1>4, <1>5, <1>6
<1>. QED BY <1>1, <1>2, <1>4, <1>5, <1>6, <1>7

\* Predicates whose values are the same bind the same values.
LEMMA BoundAlike ==
  ASSUME NEW lp, NEW es \in Seq(Expressions), \A e \in Range(es) : Writable(lp, e),
         NEW ds \in Seq(Expressions), \A e \in Range(ds) : Writable(lp, e),
         Len(ds) = Len(es),
         \A i \in 1..Len(es) : Among(ds[i].args, Bindings) = Among(es[i].args, Bindings)
  PROVE  Bound(ds) = Bound(es)
<1>1. Bound(es) = FlattenSeq([i \in 1..Len(es) |-> Among(es[i].args, Bindings)])
  BY BoundParts
<1>2. Bound(ds) = FlattenSeq([i \in 1..Len(ds) |-> Among(ds[i].args, Bindings)])
  BY BoundParts
<1>3. [i \in 1..Len(es) |-> Among(es[i].args, Bindings)] = [i \in 1..Len(ds) |-> Among(ds[i].args, Bindings)]
  OBVIOUS
<1>. QED BY <1>1, <1>2, <1>3

-----------------------------------------------------------------------------
(* A text whose WHERE and HAVING were written for other predicates.           *)

Varied(lp, ws, hs) ==
  [[Text(lp) EXCEPT !.where = AllWritten(lp, ws)] EXCEPT !.having = AllWritten(lp, hs)]

\* Its predicates in the order they are read.
VariedClauses(lp, ws, hs) == (FlattenSeq(Joined(lp)) \o ws) \o hs

LEMMA VariedParts ==
  ASSUME NEW lp, NEW ws, NEW hs, NEW T, T = Varied(lp, ws, hs)
  PROVE  /\ T.where = AllWritten(lp, ws) /\ T.having = AllWritten(lp, hs)
         /\ T.relations = Text(lp).relations /\ T.items = Text(lp).items
         /\ T.group = Text(lp).group
BY DEF Varied, Text

LEMMA OneVaried ==
  ASSUME NEW lp, NEW A
  PROVE  /\ [[Text(lp) EXCEPT !.where = A] EXCEPT !.having = AllWritten(lp, lp.having)] = [Text(lp) EXCEPT !.where = A]
         /\ [[Text(lp) EXCEPT !.where = AllWritten(lp, lp.where)] EXCEPT !.having = A] = [Text(lp) EXCEPT !.having = A]
         /\ Text(lp).where = AllWritten(lp, lp.where) /\ Text(lp).having = AllWritten(lp, lp.having)
<1>. DEFINE W == AllWritten(lp, lp.where)
            H == AllWritten(lp, lp.having)
            s == Text(lp).statements
            i == Text(lp).items
            r == Text(lp).relations
            g == Text(lp).group
            Rec(w, h) == [statements |-> s, items |-> i, relations |-> r, where |-> w, group |-> g, having |-> h]
<1>1. Text(lp) = Rec(W, H)
  BY DEF Text
<1>. HIDE DEF W, H, s, i, r, g
<1>2. Rec(W, H).where = W /\ Rec(W, H).having = H
  OBVIOUS
<1>3. [Rec(W, H) EXCEPT !.where = A] = Rec(A, H)
  OBVIOUS
<1>4. [Rec(A, H) EXCEPT !.having = H] = Rec(A, H)
  OBVIOUS
<1>5. [Rec(W, H) EXCEPT !.having = A] = Rec(W, A)
  OBVIOUS
<1>6. [Rec(W, H) EXCEPT !.where = W] = Rec(W, H)
  OBVIOUS
<1>. HIDE DEF Rec
<1>. QED BY <1>1, <1>2, <1>3, <1>4, <1>5, <1>6 DEF W, H

LEMMA WhereKept == ASSUME NEW lp PROVE [Text(lp) EXCEPT !.where = AllWritten(lp, lp.where)] = Text(lp)
<1>. DEFINE W == AllWritten(lp, lp.where)
            H == AllWritten(lp, lp.having)
            s == Text(lp).statements
            i == Text(lp).items
            r == Text(lp).relations
            g == Text(lp).group
            Rec(w, h) == [statements |-> s, items |-> i, relations |-> r, where |-> w, group |-> g, having |-> h]
<1>1. Text(lp) = Rec(W, H)
  BY DEF Text
<1>. HIDE DEF W, H, s, i, r, g
<1>2. [Rec(W, H) EXCEPT !.where = W] = Rec(W, H)
  OBVIOUS
<1>. HIDE DEF Rec
<1>. QED BY <1>1, <1>2 DEF W

LEMMA VariedWritten ==
  ASSUME NEW lp, Compiled(lp), NEW ws \in Seq(Expressions), NEW hs \in Seq(Expressions),
         NEW T, T = Varied(lp, ws, hs)
  PROVE  /\ VariedClauses(lp, ws, hs) \in Seq(Expressions)
         /\ FlattenSeq(Joined(lp)) \in Seq(Expressions)
         /\ TextClauses(T) = AllWritten(lp, VariedClauses(lp, ws, hs))
         /\ WhereFrom(T) = Len(FlattenSeq(Joined(lp))) /\ Len(T.where) = Len(ws)
<1>. DEFINE on == FlattenSeq(Joined(lp))
            both == on \o ws
            ons == [i \in DOMAIN T.relations |-> T.relations[i].on]
<1>1. /\ T.where = AllWritten(lp, ws) /\ T.having = AllWritten(lp, hs)
      /\ T.relations = Text(lp).relations
  BY VariedParts
<1>2. on \in Seq(Expressions)
  <2>1. Joined(lp) \in Seq(Seq(Expressions))
    BY JoinedInOrder DEF Compiled
  <2>. QED BY <2>1, RangeOfFlatten
<1>3. /\ FlattenSeq([i \in DOMAIN Text(lp).relations |-> Text(lp).relations[i].on]) = AllWritten(lp, on)
      /\ WhereFrom(Text(lp)) = Len(on)
  BY TextWritten
<1>4. FlattenSeq(ons) = AllWritten(lp, on)
  BY <1>1, <1>3
<1>5. /\ TextClauses(T) = (FlattenSeq(ons) \o T.where) \o T.having
      /\ WhereFrom(T) = Len(FlattenSeq(ons))
  BY DEF TextClauses, WhereFrom
<1>6. Len(AllWritten(lp, on)) = Len(on) /\ Len(AllWritten(lp, ws)) = Len(ws)
  BY <1>2, PredicatesWritten
<1>. HIDE DEF on, ons
<1>7. AllWritten(lp, on) \o AllWritten(lp, ws) = AllWritten(lp, both) /\ both \in Seq(Expressions)
  <2>1. on \o ws \in Seq(Expressions)
    BY <1>2
  <2>. QED BY <1>2, <2>1, WrittenConcat
<1>. HIDE DEF both
<1>8. /\ AllWritten(lp, both) \o AllWritten(lp, hs) = AllWritten(lp, both \o hs)
      /\ both \o hs \in Seq(Expressions)
  <2>1. both \in Seq(Expressions) /\ hs \in Seq(Expressions)
    BY ONLY <1>7, hs \in Seq(Expressions)
  <2>2. AllWritten(lp, both) \o AllWritten(lp, hs) = AllWritten(lp, both \o hs)
    BY ONLY <2>1, WrittenConcat
  <2>. QED BY ONLY <2>1, <2>2
<1>. QED BY <1>1, <1>2, <1>4, <1>5, <1>6, <1>7, <1>8 DEF VariedClauses, both, on

\* What is read and holds, when each value has its placeholder.
LEMMA VariedHolds ==
  ASSUME NEW lp, Compiled(lp), NEW ws \in Seq(Expressions), NEW hs \in Seq(Expressions),
         NEW T, T = Varied(lp, ws, hs),
         \A e \in Range(VariedClauses(lp, ws, hs)) : Writable(lp, e),
         Sayable(lp, ws, Range(Scanned(plan))),
         NEW w, NEW env \in Counted(T, Bound(VariedClauses(lp, ws, hs)), w)
  PROVE  HoldAll(ws, ReadingOf(env))
<1>. DEFINE C == VariedClauses(lp, ws, hs)
            on == FlattenSeq(Joined(lp))
            a == Len(on)
            filled == Filled(TextClauses(T), Bound(C))
<1>1. /\ C \in Seq(Expressions) /\ on \in Seq(Expressions) /\ TextClauses(T) = AllWritten(lp, C)
      /\ WhereFrom(T) = a /\ Len(T.where) = Len(ws)
  BY VariedWritten
<1>2. filled = GivenSeq(lp, C)
  <2>1. \A e \in Range(C) : Writable(lp, e)
    OBVIOUS
  <2>. HIDE DEF C
  <2>2. Filled(AllWritten(lp, C), Bound(C)) = [i \in 1..Len(C) |-> GivenAll(lp, C[i])]
    BY <1>1, <2>1, ValuesMeet
  <2>. QED BY <1>1, <2>2 DEF GivenSeq
<1>3. Slice(C, a, ws)
  <2>1. C = (on \o ws) \o hs
    BY DEF VariedClauses
  <2>. HIDE DEF C, on
  <2>2. on \o ws \in Seq(Expressions)
    BY <1>1
  <2>3. /\ Len(on \o ws) = Len(on) + Len(ws) /\ Len(on) \in Nat /\ Len(ws) \in Nat
        /\ \A j \in 1..Len(ws) : (on \o ws)[Len(on) + j] = ws[j]
    BY <1>1, ConcatAt
  <2>4. /\ Len(C) = Len(on \o ws) + Len(hs) /\ Len(hs) \in Nat
        /\ \A j \in 1..Len(on \o ws) : C[j] = (on \o ws)[j]
    BY <2>1, <2>2, ConcatAt
  <2>5. ASSUME NEW j \in 1..Len(ws) PROVE a + j \in 1..Len(C) /\ C[a + j] = ws[j]
    <3>. DEFINE p == Len(ws)
                q == Len(hs)
                r == Len(on \o ws)
                z == Len(C)
    <3>1. p \in Nat /\ q \in Nat /\ a \in Nat /\ r = a + p /\ z = r + q /\ j \in 1..p
      BY <2>3, <2>4
    <3>. HIDE DEF p, q, r, z, a
    <3>2. a + j \in 1..r /\ a + j \in 1..z
      BY <3>1
    <3>. QED BY <2>3, <2>4, <3>2 DEF a, r, z
  <2>. QED BY <2>5 DEF Slice
<1>4. a \in Nat
  BY <1>1
<1>. HIDE DEF C, on, a, filled
<1>5. SubSeq(filled, a + 1, a + Len(ws)) = GivenSeq(lp, ws)
  BY <1>1, <1>2, <1>3, <1>4, SliceGiven
<1>6. SatisfiesAll(env, GivenSeq(lp, ws))
  <2>1. SatisfiesAll(env, SubSeq(filled, WhereFrom(T) + 1, WhereFrom(T) + Len(T.where)))
    BY DEF Counted, C, filled
  <2>. QED BY <1>1, <1>5, <2>1
<1>7. Agree(env, ReadingOf(env), Range(Scanned(plan)))
  BY DEF Agree, ReadingOf
<1>. QED BY <1>6, <1>7, AllGivenHold

\* The columns of its clauses.
LEMMA VariedColumns ==
  ASSUME NEW lp, Compiled(lp), NEW ws, NEW hs, NEW T, T = Varied(lp, ws, hs),
         NEW es \in Seq(Expressions),
         \A c \in ColumnsOf(Range(es)) : TableOf(c) \in Range(Scanned(plan))
  PROVE  TextColumns(T, AllWritten(lp, es)) = AllColumnsIn(es)
<1>1. AsBound(plan) /\ lp = Lower(plan)
  BY DEF Compiled
<1>2. Range(AllWritten(lp, es)) = {Written(lp, e) : e \in Range(es)}
  BY WrittenInOrder
<1>4. TextColumns(Text(lp), AllWritten(lp, es)) = ColumnsOf(Range(es))
  BY <1>1, <1>2, ReadBack
<1>5. TextColumns(T, AllWritten(lp, es)) = TextColumns(Text(lp), AllWritten(lp, es))
  BY VariedParts DEF TextColumns, ColumnId
<1>. QED BY <1>4, <1>5, ColumnsOfParts

\* What the gate on obligations reads in the text, it reads of the predicates.
LEMMA VariedEvident ==
  ASSUME NEW lp, Compiled(lp), NEW ws \in Seq(Expressions), NEW hs \in Seq(Expressions),
         NEW T, T = Varied(lp, ws, hs), ObligationsSql(T, plan, lp),
         \A c \in ColumnsOf(Range(ws)) : TableOf(c) \in Range(Scanned(plan)),
         \A c \in ColumnsOf(Range(hs)) : TableOf(c) \in Range(Scanned(plan))
  PROVE  Evident(plan, lp, AllColumnsIn(ws), AllColumnsIn(hs))
<1>1. T.where = AllWritten(lp, ws) /\ T.having = AllWritten(lp, hs)
  BY VariedParts
<1>2. TextColumns(T, AllWritten(lp, ws)) = AllColumnsIn(ws)
  BY VariedColumns
<1>3. TextColumns(T, AllWritten(lp, hs)) = AllColumnsIn(hs)
  BY VariedColumns
<1>. QED BY <1>1, <1>2, <1>3 DEF ObligationsSql

-----------------------------------------------------------------------------
(* What the gate on obligations requires.                                     *)

\* The predicates of the tenant and of the rules before aggregation.
Required == Range(TenantPredicates(plan)) \cup PlacedAt("before_aggregation")

LEMMA ColumnsRequired ==
  ASSUME NEW lp, Compiled(lp), TellsApart(plan), NEW where, NEW having,
         Evident(plan, lp, where, having)
  PROVE  ColumnsOf(Required) \subseteq where /\ ColumnsOf(PlacedAt("after_aggregation")) \subseteq having
<1>1. AsBound(plan) /\ KeysFound /\ DOMAIN lp.alias = Range(Scanned(plan))
  BY ColumnsScanned DEF Compiled
<1>2. \A o \in Range(plan.obligations) :
        AllColumnsIn(o.predicate) \subseteq
          IF o.placement = "before_aggregation" THEN where ELSE having
  <2>. SUFFICES ASSUME NEW o \in Range(plan.obligations)
                PROVE  AllColumnsIn(o.predicate) \subseteq
                         IF o.placement = "before_aggregation" THEN where ELSE having
    OBVIOUS
  <2>1. CASE o.predicate = <<>>
    <3>1. AllColumnsIn(o.predicate) = {}
      BY <2>1 DEF AllColumnsIn, Range
    <3>. QED BY <3>1
  <2>2. CASE o.predicate # <<>>
    BY <2>2 DEF Evident
  <2>. QED BY <2>1, <2>2
<1>3. \A placement : \A c \in ColumnsOf(PlacedAt(placement)) :
        \E o \in Range(plan.obligations) : o.placement = placement /\ c \in AllColumnsIn(o.predicate)
  BY DEF ColumnsOf, PlacedAt, AllColumnsIn
<1>4. ColumnsOf(PlacedAt("before_aggregation")) \subseteq where
  BY <1>2, <1>3
<1>5. ColumnsOf(PlacedAt("after_aggregation")) \subseteq having
  BY <1>2, <1>3
<1>6. Keys \subseteq where
  <2>. SUFFICES ASSUME NEW t \in Range(TenantTables(plan)) PROVE Catalog[t].tenant_key \in where
    BY DEF Keys
  <2>1. NeedsTenant(plan)
    <3>1. ~NeedsTenant(plan) => Range(TenantTables(plan)) = {}
      BY DEF TenantTables, Range
    <3>. QED BY <3>1
  <2>2. PICK o \in Range(plan.obligations) : o.rule = "security.tenant_scope"
    BY <2>1 DEF NeedsTenant
  <2>3. o.predicate = <<>>
    BY <2>2 DEF TellsApart
  <2>4. NeedsIsolation(lp) \subseteq Isolated(where)
    BY <2>2, <2>3 DEF Evident
  <2>5. t \in NeedsIsolation(lp)
    <3>1. t \in Range(Scanned(plan)) /\ "tenant_scoped" \in Catalog[t].tags
      BY <1>1, <2>1, TenantTablesTagged
    <3>. QED BY <1>1, <3>1 DEF NeedsIsolation
  <2>6. PICK d \in where : Catalog[TableOf(d)].tenant_key = d /\ t = TableOf(d)
    BY <2>4, <2>5, TenantKeysAssumption DEF Isolated
  <2>. QED BY <2>6
<1>7. ColumnsOf(Range(TenantPredicates(plan))) = Keys
  BY <1>1, TenantTouched
<1>8. ColumnsOf(Required) = ColumnsOf(Range(TenantPredicates(plan))) \cup ColumnsOf(PlacedAt("before_aggregation"))
  BY ColumnsOfParts DEF Required
<1>. QED BY <1>4, <1>5, <1>6, <1>7, <1>8

\* What tells the required columns apart.
LEMMA RequiredApart ==
  ASSUME NEW lp, Compiled(lp), TellsApart(plan)
  PROVE  /\ \A c \in ColumnsOf(Required) : OneOperand(c, Where(plan))
         /\ \A c \in ColumnsOf(PlacedAt("after_aggregation")) :
              OneOperand(c, Placed(plan, "after_aggregation"))
         /\ \A e \in Required : ColumnsIn(e) # {}
         /\ \A e \in PlacedAt("after_aggregation") : ColumnsIn(e) # {}
<1>. DEFINE before == Placed(plan, "before_aggregation")
            after == Placed(plan, "after_aggregation")
            tenants == TenantPredicates(plan)
<1>1. AsBound(plan) /\ KeysFound
  BY ColumnsScanned DEF Compiled
<1>2. /\ before \in Seq(Expressions) /\ Range(before) = PlacedAt("before_aggregation")
      /\ after \in Seq(Expressions) /\ Range(after) = PlacedAt("after_aggregation")
  BY <1>1, ObligationsPlaced
<1>3. tenants \in Seq(Expressions)
  BY <1>1, TenantTouched
<1>4. /\ \A c \in AllColumnsIn(before \o tenants) : OneOperand(c, Where(plan))
      /\ \A c \in AllColumnsIn(after) : OneOperand(c, after)
      /\ \A o \in Range(plan.obligations) : \A e \in Range(o.predicate) : ColumnsIn(e) # {}
  BY DEF TellsApart
<1>. HIDE DEF before, after, tenants
<1>5. Range(before \o tenants) = Range(before) \cup Range(tenants)
  BY <1>2, <1>3, RangeOfConcat
<1>6. AllColumnsIn(before \o tenants) = ColumnsOf(Required)
  BY <1>2, <1>5, ColumnsOfParts DEF Required, tenants
<1>7. AllColumnsIn(after) = ColumnsOf(PlacedAt("after_aggregation"))
  BY <1>2, ColumnsOfParts
<1>8. \A placement : \A e \in PlacedAt(placement) : ColumnsIn(e) # {}
  BY <1>4 DEF PlacedAt
<1>9. \A e \in Range(tenants) : ColumnsIn(e) # {}
  <2>1. Range(tenants) = {TenantPredicate(t) : t \in Range(TenantTables(plan))}
    BY DEF tenants, TenantPredicates, TenantPredicate, Range
  <2>2. \A t \in Range(TenantTables(plan)) : Catalog[t].tenant_key \in Columns
    BY <1>1, KeysOfTables
  <2>3. "eq" \in Operators
    BY DEF Operators, Comparisons
  <2>4. \A t \in Range(TenantTables(plan)) : ColumnsIn(TenantPredicate(t)) = {Catalog[t].tenant_key}
    BY <2>2, <2>3, OneColumn DEF TenantPredicate
  <2>. QED BY <2>1, <2>4
<1>. QED BY <1>4, <1>6, <1>7, <1>8, <1>9 DEF Required, after, tenants

-----------------------------------------------------------------------------
(* What a defect of WHERE or HAVING takes away.                               *)

LEMMA RemovedAt ==
  ASSUME NEW S, NEW s \in Seq(S), NEW x \in 1..Len(s)
  PROVE  /\ RemoveAt(s, x) \in Seq(S) /\ Without(s, x, RemoveAt(s, x))
         /\ Len(RemoveAt(s, x)) = Len(s) - 1
<1>. DEFINE n == Len(s)
            a == SubSeq(s, 1, x - 1)
            b == SubSeq(s, x + 1, n)
<1>1. n \in Nat /\ x \in 1..n
  OBVIOUS
<1>2. /\ a \in Seq(S) /\ Len(a) = x - 1 /\ \A i \in 1..(x - 1) : a[i] = s[i]
      /\ b \in Seq(S) /\ Len(b) = n - x /\ \A i \in 1..(n - x) : b[i] = s[i + x]
  OBVIOUS
<1>3. RemoveAt(s, x) = a \o b
  BY DEF RemoveAt
<1>. HIDE DEF a, b
<1>4. /\ a \o b \in Seq(S) /\ Len(a \o b) = n - 1
      /\ \A i \in 1..(n - 1) : (a \o b)[i] = IF i < x THEN a[i] ELSE b[i - (x - 1)]
  <2>. DEFINE p == Len(a)
              q == Len(b)
  <2>0. a \in Seq(S) /\ b \in Seq(S)
    BY <1>2
  <2>1. /\ a \o b \in Seq(S) /\ Len(a \o b) = p + q
        /\ \A i \in 1..(p + q) : (a \o b)[i] = IF i <= p THEN a[i] ELSE b[i - p]
    BY ONLY <2>0
  <2>2. p = x - 1 /\ q = n - x
    BY <1>2
  <2>. HIDE DEF p, q
  <2>3. p + q = n - 1 /\ \A i \in 1..(n - 1) : (i <= p) <=> (i < x)
    BY <1>1, <2>2
  <2>. QED BY <2>1, <2>2, <2>3
<1>5. ASSUME NEW i \in 1..(n - 1) PROVE (a \o b)[i] = IF i < x THEN s[i] ELSE s[i + 1]
  <2>1. CASE i < x
    <3>1. i \in 1..(x - 1)
      BY <1>1, <2>1
    <3>. QED BY <1>2, <1>4, <2>1, <3>1
  <2>2. CASE ~(i < x)
    <3>1. i - (x - 1) \in 1..(n - x) /\ (i - (x - 1)) + x = i + 1
      BY <1>1, <2>2
    <3>2. b[i - (x - 1)] = s[i + 1]
      BY <1>2, <3>1
    <3>. QED BY <1>4, <2>2, <3>2
  <2>. QED BY <2>1, <2>2
<1>. QED BY <1>1, <1>3, <1>4, <1>5 DEF Without

\* A conjunct is taken out of what was written where its predicate is taken out.
LEMMA WrittenWithout ==
  ASSUME NEW lp, NEW es \in Seq(Expressions), NEW x \in 1..Len(es)
  PROVE  RemoveAt(AllWritten(lp, es), x) = AllWritten(lp, RemoveAt(es, x))
<1>. DEFINE W == Writings(lp)
            ds == RemoveAt(es, x)
            p == AllWritten(lp, es)
            q == RemoveAt(p, x)
            r == AllWritten(lp, ds)
<1>1. p \in Seq(W) /\ Len(p) = Len(es) /\ \A j \in 1..Len(es) : p[j] = Written(lp, es[j])
  <2>1. DOMAIN es = 1..Len(es)
    OBVIOUS
  <2>. QED BY <2>1, PredicatesWritten
<1>2. ds \in Seq(Expressions) /\ Without(es, x, ds) /\ Len(ds) = Len(es) - 1
  BY RemovedAt
<1>3. q \in Seq(W) /\ Without(p, x, q) /\ Len(q) = Len(es) - 1
  <2>. HIDE DEF p, W
  <2>1. x \in 1..Len(p)
    BY <1>1
  <2>. QED BY <1>1, <2>1, RemovedAt
<1>4. r \in Seq(W) /\ Len(r) = Len(ds) /\ \A j \in 1..Len(ds) : r[j] = Written(lp, ds[j])
  <2>. HIDE DEF ds
  <2>1. DOMAIN ds = 1..Len(ds)
    BY <1>2
  <2>. QED BY <1>2, <2>1, PredicatesWritten
<1>. HIDE DEF W, ds, p, q, r
<1>5. ASSUME NEW i \in 1..Len(q) PROVE q[i] = r[i]
  <2>1. i \in 1..Len(ds) /\ i \in 1..Len(es) /\ i + 1 \in 1..Len(es)
    BY <1>2, <1>3
  <2>2. q[i] = IF i < x THEN p[i] ELSE p[i + 1]
    BY <1>3 DEF Without
  <2>3. ds[i] = IF i < x THEN es[i] ELSE es[i + 1]
    BY <1>2, <2>1 DEF Without
  <2>. QED BY <1>1, <1>4, <2>1, <2>2, <2>3
<1>6. q = r
  <2>1. \A u, v \in Seq(W) : Len(u) = Len(v) /\ (\A i \in 1..Len(u) : u[i] = v[i]) => u = v
    OBVIOUS
  <2>. QED BY <1>2, <1>3, <1>4, <1>5, <2>1
<1>. QED BY <1>6 DEF p, q, r, ds

LEMMA OnePlace ==
  ASSUME NEW c, NEW ps, OneOperand(c, ps), NEW i \in DOMAIN ps, NEW k \in DOMAIN ps,
         NEW a \in DOMAIN ps[i].args, ps[i].args[a] = c,
         NEW b \in DOMAIN ps[k].args, ps[k].args[b] = c
  PROVE  i = k /\ a = b
<1>1. <<i, a>> \in Places(c, ps) /\ <<k, b>> \in Places(c, ps)
  BY DEF Places
<1>2. <<i, a>> = <<k, b>>
  BY <1>1 DEF OneOperand
<1>. QED BY <1>2

\* The others stay, and nothing is new.
LEMMA RemovedRest ==
  ASSUME NEW es \in Seq(Expressions), NEW x \in 1..Len(es)
  PROVE  /\ \A k \in 1..Len(es) : k # x => es[k] \in Range(RemoveAt(es, x))
         /\ Range(RemoveAt(es, x)) \subseteq Range(es)
         /\ \A j \in DOMAIN RemoveAt(es, x) : \E k \in 1..Len(es) : k # x /\ RemoveAt(es, x)[j] = es[k]
<1>. DEFINE ds == RemoveAt(es, x)
<1>1. ds \in Seq(Expressions) /\ Without(es, x, ds) /\ Len(ds) = Len(es) - 1
  BY RemovedAt
<1>. HIDE DEF ds
<1>2. DOMAIN ds = 1..Len(ds) /\ DOMAIN es = 1..Len(es)
  BY <1>1
<1>3. \A j \in 1..Len(ds) : \E k \in 1..Len(es) : k # x /\ ds[j] = es[k]
  <2>. SUFFICES ASSUME NEW j \in 1..Len(ds) PROVE \E k \in 1..Len(es) : k # x /\ ds[j] = es[k]
    OBVIOUS
  <2>1. ds[j] = IF j < x THEN es[j] ELSE es[j + 1]
    BY <1>1 DEF Without
  <2>2. j \in 1..Len(es) /\ j + 1 \in 1..Len(es) /\ (j < x => j # x) /\ (~(j < x) => j + 1 # x)
    BY <1>1
  <2>. QED BY <2>1, <2>2
<1>5. ASSUME NEW k \in 1..Len(es), k # x PROVE es[k] \in Range(ds)
  <2>1. CASE k < x
    <3>1. k \in 1..Len(ds) /\ ds[k] = es[k]
      BY <1>1, <2>1 DEF Without
    <3>. QED BY <1>2, <3>1 DEF Range
  <2>2. CASE ~(k < x)
    <3>1. k - 1 \in 1..Len(ds) /\ ~(k - 1 < x) /\ (k - 1) + 1 = k
      BY <1>1, <1>5, <2>2
    <3>2. ds[k - 1] = es[k]
      BY <1>1, <3>1 DEF Without
    <3>. QED BY <1>2, <3>1, <3>2 DEF Range
  <2>. QED BY <2>1, <2>2
<1>6. Range(ds) \subseteq Range(es)
  BY <1>2, <1>3 DEF Range
<1>. QED BY <1>2, <1>3, <1>5, <1>6 DEF ds

\* A column that stood in one operand only is gone with the predicate ...
LEMMA RemovedLoses ==
  ASSUME NEW es \in Seq(Expressions), NEW x \in 1..Len(es), NEW d \in ColumnsIn(es[x]),
         OneOperand(d, es)
  PROVE  d \notin AllColumnsIn(RemoveAt(es, x))
<1>. DEFINE ds == RemoveAt(es, x)
<1>. SUFFICES ASSUME d \in AllColumnsIn(ds) PROVE FALSE
  OBVIOUS
<1>1. DOMAIN es = 1..Len(es) /\ \A j \in DOMAIN ds : \E k \in 1..Len(es) : k # x /\ ds[j] = es[k]
  BY RemovedRest
<1>. HIDE DEF ds
<1>2. PICK j \in DOMAIN ds : d \in ColumnsIn(ds[j])
  BY DEF AllColumnsIn, Range
<1>3. PICK k \in 1..Len(es) : k # x /\ ds[j] = es[k]
  BY <1>1
<1>4. PICK b \in DOMAIN es[k].args : es[k].args[b] = d
  BY <1>2, <1>3 DEF ColumnsIn, Range
<1>5. PICK a \in DOMAIN es[x].args : es[x].args[a] = d
  BY DEF ColumnsIn, Range
<1>6. x = k
  BY <1>1, <1>4, <1>5, OnePlace
<1>. QED BY <1>3, <1>6

\* ... and with the operand.
Moved(es, x, a, c) == [es EXCEPT ![x] = WithArg(es[x], a, c)]

LEMMA MovedLoses ==
  ASSUME NEW es \in Seq(Expressions), NEW x \in 1..Len(es), NEW a \in DOMAIN es[x].args,
         es[x].args[a] \in Columns, NEW c \in Columns
  PROVE  /\ Moved(es, x, a, c) \in Seq(Expressions) /\ Len(Moved(es, x, a, c)) = Len(es)
         /\ \A k \in 1..Len(es) : k # x => Moved(es, x, a, c)[k] = es[k]
         /\ Moved(es, x, a, c)[x] = WithArg(es[x], a, c)
         /\ WithArg(es[x], a, c).op = es[x].op
         /\ WithArg(es[x], a, c).args = [es[x].args EXCEPT ![a] = c]
         /\ c # es[x].args[a] /\ OneOperand(es[x].args[a], es) =>
              es[x].args[a] \notin AllColumnsIn(Moved(es, x, a, c))
<1>. DEFINE ds == Moved(es, x, a, c)
            e == es[x]
            f == WithArg(e, a, c)
            d == e.args[a]
<1>1. DOMAIN es = 1..Len(es) /\ e \in Expressions
  OBVIOUS
<1>2. e.args \in Seq(Columns \cup Bindings) /\ e.op \in Operators
  BY <1>1 DEF Expressions
<1>3. f = [e EXCEPT !.args = [e.args EXCEPT ![a] = c]]
  BY DEF WithArg
<1>4. f.op = e.op /\ f.args = [e.args EXCEPT ![a] = c]
  <2>1. e = [op |-> e.op, args |-> e.args]
    BY <1>1 DEF Expressions
  <2>. QED BY <1>3, <2>1
<1>5. f.args \in Seq(Columns \cup Bindings)
  BY <1>2, <1>4
<1>6. f \in Expressions
  <2>1. [e EXCEPT !.args = [e.args EXCEPT ![a] = c]] = [op |-> e.op, args |-> [e.args EXCEPT ![a] = c]]
    <3>1. \A g \in Expressions : \A y : [g EXCEPT !.args = y] = [op |-> g.op, args |-> y]
      BY DEF Expressions
    <3>. HIDE DEF e
    <3>. QED BY <1>1, <3>1
  <2>. QED BY <1>2, <1>3, <1>4, <1>5, <2>1 DEF Expressions
<1>7. /\ ds \in Seq(Expressions) /\ Len(ds) = Len(es)
      /\ \A k \in 1..Len(es) : k # x => ds[k] = es[k]
      /\ ds[x] = f
  <2>1. ds = [es EXCEPT ![x] = f]
    BY DEF Moved
  <2>. HIDE DEF f, ds
  <2>. QED BY <1>6, <2>1
<1>. HIDE DEF ds, f, e, d
<1>8. ASSUME c # d, OneOperand(d, es), d \in AllColumnsIn(ds) PROVE FALSE
  <2>0. DOMAIN ds = 1..Len(es) /\ a \in DOMAIN e.args /\ DOMAIN f.args = DOMAIN e.args
    BY <1>4, <1>7 DEF e
  <2>1. PICK k \in 1..Len(es) : d \in ColumnsIn(ds[k])
    BY <1>8, <2>0 DEF AllColumnsIn, Range
  <2>2. CASE k # x
    <3>1. PICK b \in DOMAIN es[k].args : es[k].args[b] = d
      BY <1>7, <2>1, <2>2 DEF ColumnsIn, Range
    <3>2. k = x
      BY <1>1, <1>8, <3>1, OnePlace DEF e, d
    <3>. QED BY <2>2, <3>2
  <2>3. CASE k = x
    <3>1. PICK b \in DOMAIN f.args : f.args[b] = d
      BY <1>7, <2>1, <2>3 DEF ColumnsIn, Range
    <3>2. b # a
      BY <1>4, <1>8, <2>0, <3>1
    <3>3. e.args[b] = d /\ b \in DOMAIN e.args
      BY <1>4, <2>0, <3>1, <3>2
    <3>4. b = a
      BY <1>1, <1>8, <3>3, OnePlace DEF e, d
    <3>. QED BY <3>2, <3>4
  <2>. QED BY <2>2, <2>3
<1>. QED BY <1>4, <1>7, <1>8 DEF ds, f, e, d

\* What is required of WHERE stays in it, or the columns give the defect away.
LEMMA RequiredStay ==
  ASSUME NEW lp, Compiled(lp), TellsApart(plan), NEW ws,
         ColumnsOf(Required) \subseteq AllColumnsIn(ws),
         NEW x \in DOMAIN Where(plan),
         \A k \in DOMAIN Where(plan) : k # x => Where(plan)[k] \in Range(ws),
         Where(plan)[x] \in Required =>
           \E d \in ColumnsIn(Where(plan)[x]) : OneOperand(d, Where(plan)) => d \notin AllColumnsIn(ws)
  PROVE  Required \subseteq Range(ws)
<1>. SUFFICES ASSUME NEW e \in Required PROVE e \in Range(ws)
  OBVIOUS
<1>1. Required \subseteq Range(Where(plan))
  BY ColumnsScanned, WhereParts DEF Compiled, Required
<1>2. PICK k \in DOMAIN Where(plan) : e = Where(plan)[k]
  BY <1>1 DEF Range
<1>3. CASE k # x
  BY <1>2, <1>3
<1>4. CASE k = x
  <2>1. PICK d \in ColumnsIn(e) : OneOperand(d, Where(plan)) => d \notin AllColumnsIn(ws)
    BY <1>2, <1>4
  <2>2. d \in ColumnsOf(Required)
    BY <2>1 DEF ColumnsOf
  <2>3. OneOperand(d, Where(plan))
    BY <2>2, RequiredApart
  <2>. QED BY <2>1, <2>2, <2>3
<1>. QED BY <1>3, <1>4

-----------------------------------------------------------------------------
(* What is counted without a conjunct, or with another column in it.          *)

\* Sequences in the middle of others.
LEMMA Inside ==
  ASSUME NEW S, NEW o \in Seq(S), NEW u \in Seq(S), NEW h \in Seq(S), NEW all, all = (o \o u) \o h
  PROVE  /\ all \in Seq(S) /\ Len(all) = (Len(o) + Len(u)) + Len(h)
         /\ Len(o) \in Nat /\ Len(u) \in Nat /\ Len(h) \in Nat
         /\ \A i \in 1..Len(o) : all[i] = o[i]
         /\ \A i \in 1..Len(u) : all[Len(o) + i] = u[i]
         /\ \A i \in 1..Len(h) : all[(Len(o) + Len(u)) + i] = h[i]
<1>. DEFINE b == o \o u
            p == Len(o)
            q == Len(u)
            r == Len(h)
<1>1. /\ b \in Seq(S) /\ Len(b) = p + q /\ p \in Nat /\ q \in Nat
      /\ \A i \in 1..p : b[i] = o[i]
      /\ \A i \in 1..q : b[p + i] = u[i]
  BY ConcatAt
<1>3. all = b \o h
  OBVIOUS
<1>. HIDE DEF b
<1>4. /\ b \o h \in Seq(S) /\ Len(b \o h) = Len(b) + r /\ r \in Nat
      /\ \A i \in 1..Len(b) : (b \o h)[i] = b[i]
      /\ \A i \in 1..r : (b \o h)[Len(b) + i] = h[i]
  <2>1. b \in Seq(S)
    BY <1>1
  <2>. QED BY <2>1, ConcatAt
<1>. HIDE DEF p, q, r
<1>6. /\ \A i \in 1..p : i \in 1..Len(b)
      /\ \A i \in 1..q : p + i \in 1..Len(b)
  BY <1>1
<1>7. \A i \in 1..p : all[i] = o[i]
  BY <1>1, <1>3, <1>4, <1>6
<1>8. \A i \in 1..q : all[p + i] = u[i]
  BY <1>1, <1>3, <1>4, <1>6
<1>9. \A i \in 1..r : all[(p + q) + i] = h[i]
  BY <1>1, <1>3, <1>4
<1>. QED BY <1>1, <1>3, <1>4, <1>7, <1>8, <1>9 DEF p, q, r

LEMMA RangeInside ==
  ASSUME NEW S, NEW o \in Seq(S), NEW u \in Seq(S), NEW h \in Seq(S)
  PROVE  Range((o \o u) \o h) = Range(o) \cup Range(u) \cup Range(h)
<1>. DEFINE b == o \o u
<1>1. b \in Seq(S)
  OBVIOUS
<1>2. Range(b) = Range(o) \cup Range(u)
  BY RangeOfConcat
<1>. HIDE DEF b
<1>3. Range(b \o h) = Range(b) \cup Range(h)
  BY <1>1, RangeOfConcat
<1>. QED BY <1>2, <1>3 DEF b

LEMMA WithoutInside ==
  ASSUME NEW S, NEW o \in Seq(S), NEW u \in Seq(S), NEW v \in Seq(S), NEW h \in Seq(S),
         NEW x \in 1..Len(u), Without(u, x, v),
         NEW us, us = (o \o u) \o h, NEW vs, vs = (o \o v) \o h
  PROVE  Len(o) + x \in 1..Len(us) /\ Without(us, Len(o) + x, vs)
<1>. DEFINE p == Len(o)
            q == Len(u)
            m == Len(v)
            r == Len(h)
<1>1. /\ us \in Seq(S) /\ Len(us) = (p + q) + r /\ p \in Nat /\ q \in Nat /\ r \in Nat
      /\ \A i \in 1..p : us[i] = o[i]
      /\ \A i \in 1..q : us[p + i] = u[i]
      /\ \A i \in 1..r : us[(p + q) + i] = h[i]
  BY Inside
<1>2. /\ vs \in Seq(S) /\ Len(vs) = (p + m) + r /\ m \in Nat
      /\ \A i \in 1..p : vs[i] = o[i]
      /\ \A i \in 1..m : vs[p + i] = v[i]
      /\ \A i \in 1..r : vs[(p + m) + i] = h[i]
  BY Inside
<1>3. q = m + 1 /\ x \in 1..q /\ \A i \in 1..m : v[i] = IF i < x THEN u[i] ELSE u[i + 1]
  BY DEF Without
<1>. HIDE DEF p, q, m, r
<1>4. ASSUME NEW i \in 1..Len(vs) PROVE vs[i] = IF i < p + x THEN us[i] ELSE us[i + 1]
  <2>1. CASE i <= p
    <3>1. i \in 1..p /\ i < p + x
      BY <1>1, <1>2, <1>3, <2>1
    <3>. QED BY <1>1, <1>2, <3>1
  <2>2. CASE ~(i <= p) /\ i <= p + m
    <3>. DEFINE k == i - p
    <3>1. /\ k \in 1..m /\ p + k = i /\ (i < p + x <=> k < x)
          /\ k \in 1..q /\ k + 1 \in 1..q /\ p + (k + 1) = i + 1
      BY <1>1, <1>2, <1>3, <2>2
    <3>. HIDE DEF k
    <3>2. vs[i] = v[k] /\ us[i] = u[k] /\ us[i + 1] = u[k + 1]
      BY <1>1, <1>2, <3>1
    <3>. QED BY <1>3, <3>1, <3>2
  <2>3. CASE ~(i <= p + m)
    <3>. DEFINE k == i - (p + m)
    <3>1. /\ k \in 1..r /\ (p + m) + k = i /\ (p + q) + k = i + 1 /\ ~(i < p + x)
      BY <1>1, <1>2, <1>3, <2>3
    <3>. HIDE DEF k
    <3>2. vs[i] = h[k] /\ us[i + 1] = h[k]
      BY <1>1, <1>2, <3>1
    <3>. QED BY <3>1, <3>2
  <2>. QED BY <1>1, <1>2, <2>1, <2>2, <2>3
<1>5. p + x \in 1..Len(us) /\ Len(us) = Len(vs) + 1
  BY <1>1, <1>2, <1>3
<1>. QED BY <1>4, <1>5 DEF Without, p

\* The predicates as they were compiled, and their columns.
LEMMA ClausesVaried ==
  ASSUME NEW lp, Compiled(lp), LooksUp(Clauses(lp))
  PROVE  /\ Clauses(lp) = VariedClauses(lp, lp.where, lp.having)
         /\ lp.where \in Seq(Expressions) /\ lp.having \in Seq(Expressions)
         /\ FlattenSeq(Joined(lp)) \in Seq(Expressions)
         /\ \A e \in Range(FlattenSeq(Joined(lp))) \cup Range(lp.where) \cup Range(lp.having) :
              Writable(lp, e) /\ \A c \in ColumnsIn(e) : TableOf(c) \in Range(Scanned(plan))
<1>1. AsBound(plan) /\ lp = Lower(plan) /\ KeysFound
      /\ lp.where = Where(plan) /\ lp.having = Placed(plan, "after_aggregation")
  BY ColumnsScanned DEF Compiled
<1>2. lp.where \in Seq(Expressions) /\ lp.having \in Seq(Expressions)
  BY <1>1, WhereTouched, ObligationsPlaced
<1>. DEFINE on == FlattenSeq(Joined(lp))
            os == FlattenSeq([i \in DOMAIN lp.joins |-> lp.joins[i].predicates])
            C == Clauses(lp)
<1>3. on \in Seq(Expressions) /\ os = on
  <2>1. Joined(lp) \in Seq(Seq(Expressions)) /\ os = on
    BY <1>1, JoinedInOrder
  <2>. QED BY <2>1, RangeOfFlatten
<1>4. C = (os \o lp.where) \o lp.having
  BY DEF Clauses
<1>5. /\ C \in Seq(Expressions)
      /\ \A e \in Range(C) :
           Writable(lp, e) /\ \A c \in ColumnsIn(e) : TableOf(c) \in Range(Scanned(plan))
  BY ClausesWritable
<1>. HIDE DEF on, os, C
<1>6. Range(C) = Range(on) \cup Range(lp.where) \cup Range(lp.having)
  BY <1>2, <1>3, <1>4, RangeInside
<1>7. C = VariedClauses(lp, lp.where, lp.having)
  BY <1>3, <1>4 DEF VariedClauses, on
<1>. QED BY <1>2, <1>3, <1>5, <1>6, <1>7 DEF on, C

\* What is counted meets the rules and is of the tenant, if WHERE has what is required.
LEMMA VariedGoverned ==
  ASSUME NEW lp, Compiled(lp), LooksUp(Clauses(lp)), NEW ws \in Seq(Expressions),
         \A e \in Range(ws) :
           Writable(lp, e) /\ \A c \in ColumnsIn(e) : TableOf(c) \in Range(Scanned(plan)),
         NEW T, T = Varied(lp, ws, lp.having), Required \subseteq Range(ws),
         Bound(VariedClauses(lp, ws, lp.having)) = Bound(Clauses(lp)),
         NEW w, NEW env \in Counted(T, Bound(Clauses(lp)), w)
  PROVE  OfTenant(ReadingOf(env)) /\ Governed(ReadingOf(env), "before_aggregation")
<1>. DEFINE m == ReadingOf(env)
            hs == lp.having
            C == VariedClauses(lp, ws, hs)
<1>1. /\ hs \in Seq(Expressions) /\ FlattenSeq(Joined(lp)) \in Seq(Expressions)
      /\ \A e \in Range(FlattenSeq(Joined(lp))) \cup Range(hs) : Writable(lp, e)
  BY ClausesVaried
<1>2. \A e \in Range(C) : Writable(lp, e)
  <2>1. C = (FlattenSeq(Joined(lp)) \o ws) \o hs
    BY DEF VariedClauses
  <2>. HIDE DEF C, hs
  <2>2. Range(C) = Range(FlattenSeq(Joined(lp))) \cup Range(ws) \cup Range(hs)
    BY <1>1, <2>1, RangeInside
  <2>. QED BY <1>1, <2>2
<1>3. Sayable(lp, ws, Range(Scanned(plan)))
  BY DEF Sayable
<1>4. HoldAll(ws, m)
  <2>1. env \in Counted(T, Bound(VariedClauses(lp, ws, hs)), w)
    OBVIOUS
  <2>2. T = Varied(lp, ws, hs)
    OBVIOUS
  <2>. HIDE DEF hs
  <2>. QED BY <1>1, <1>2, <1>3, <2>1, <2>2, VariedHolds
<1>5. \A e \in Required : Holds(e, m)
  BY <1>4 DEF HoldAll
<1>6. AsBound(plan) /\ KeysFound
  BY ColumnsScanned DEF Compiled
<1>7. DOMAIN m \subseteq Range(Scanned(plan))
  BY DEF ReadingOf
<1>. HIDE DEF m
<1>8. OfTenant(m)
  <2>. DEFINE X == {TenantPredicate(t) : t \in Range(TenantTables(plan))}
  <2>1. \A p \in Range(TenantPredicates(plan)) : p \in X => Holds(p, m)
    BY <1>5 DEF Required
  <2>2. \A t \in Range(TenantTables(plan)) : TenantPredicate(t) \in X
    OBVIOUS
  <2>. HIDE DEF X
  <2>3. \A t \in Range(TenantTables(plan)) : TenantPredicate(t) \in X =>
          m[t][Catalog[t].tenant_key[2]] = Values[<<"parameter", "p_tenant">>]
    BY <1>6, <2>1, TenantMeans
  <2>. QED BY <1>6, <1>7, <2>2, <2>3, OfTenantMeans
<1>9. Governed(m, "before_aggregation")
  <2>1. \A o \in Range(plan.obligations) : o.placement = "before_aggregation" =>
          Range(o.predicate) \subseteq Required
    BY DEF Required, PlacedAt
  <2>. QED BY <1>5, <2>1 DEF Governed, HoldAll
<1>. QED BY <1>8, <1>9 DEF m

\* A text that lacks a conjunct of WHERE and passes the gates on values and obligations.
LEMMA LackingGoverned ==
  ASSUME NEW lp, Compiled(lp), LooksUp(Clauses(lp)), TellsApart(plan),
         NEW x \in DOMAIN Text(lp).where, NEW T, T = [Text(lp) EXCEPT !.where = RemoveAt(@, x)],
         ObligationsSql(T, plan, lp),
         Len(Placeholders(TextClauses(T))) = Len(Bound(Clauses(lp))),
         NEW w, NEW env \in Counted(T, Bound(Clauses(lp)), w)
  PROVE  OfTenant(ReadingOf(env)) /\ Governed(ReadingOf(env), "before_aggregation")
<1>. DEFINE es == lp.where
            hs == lp.having
            ws == RemoveAt(es, x)
            C == Clauses(lp)
            D == VariedClauses(lp, ws, hs)
            on == FlattenSeq(Joined(lp))
            Fit(e) == Writable(lp, e) /\ \A c \in ColumnsIn(e) : TableOf(c) \in Range(Scanned(plan))
<1>1. /\ es \in Seq(Expressions) /\ hs \in Seq(Expressions) /\ on \in Seq(Expressions)
      /\ C = (on \o es) \o hs /\ D = (on \o ws) \o hs
      /\ \A e \in Range(on) \cup Range(es) \cup Range(hs) : Fit(e)
      /\ es = Where(plan)
  BY ClausesVaried, ColumnsScanned DEF VariedClauses
<1>2. x \in 1..Len(es) /\ DOMAIN es = 1..Len(es)
  <2>1. DOMAIN AllWritten(lp, es) = DOMAIN es
    BY <1>1, WrittenInOrder
  <2>. QED BY <1>1, <2>1 DEF Text
<1>3. ws \in Seq(Expressions) /\ Without(es, x, ws) /\ Len(ws) = Len(es) - 1
  <2>. HIDE DEF es
  <2>. QED BY <1>1, <1>2, RemovedAt, Zenon
<1>4. T = Varied(lp, ws, hs)
  <2>1. RemoveAt(AllWritten(lp, es), x) = AllWritten(lp, ws)
    <3>. HIDE DEF es
    <3>. QED BY <1>1, <1>2, WrittenWithout
  <2>2. T = [Text(lp) EXCEPT !.where = AllWritten(lp, ws)]
    <3>1. Text(lp).where = AllWritten(lp, es)
      BY OneVaried, Zenon
    <3>. HIDE DEF es, ws
    <3>. QED BY <2>1, <3>1
  <2>. HIDE DEF ws
  <2>3. Varied(lp, ws, hs) = [[Text(lp) EXCEPT !.where = AllWritten(lp, ws)] EXCEPT !.having = AllWritten(lp, lp.having)]
    BY DEF Varied
  <2>. QED BY <2>2, <2>3, OneVaried, Zenon
<1>. HIDE DEF es, ws, hs, C, D, on, Fit
<1>5. Range(ws) \subseteq Range(es) /\ \A k \in 1..Len(es) : k # x => es[k] \in Range(ws)
  BY <1>1, <1>2, RemovedRest DEF ws
<1>6. \A e \in Range(on) \cup Range(ws) \cup Range(hs) : Fit(e)
  BY <1>1, <1>5
<1>7. Bound(D) = Bound(C)
  <2>1. D \in Seq(Expressions) /\ Range(D) = Range(on) \cup Range(ws) \cup Range(hs)
    BY <1>1, <1>3, Inside, RangeInside
  <2>2. C \in Seq(Expressions) /\ Range(C) = Range(on) \cup Range(es) \cup Range(hs)
    BY <1>1, Inside, RangeInside
  <2>3. (\A e \in Range(D) : Writable(lp, e)) /\ (\A e \in Range(C) : Writable(lp, e))
    BY <1>1, <1>6, <2>1, <2>2 DEF Fit
  <2>4. Len(on) + x \in 1..Len(C) /\ Without(C, Len(on) + x, D)
    BY <1>1, <1>2, <1>3, WithoutInside
  <2>5. Len(Bound(D)) = Len(Bound(C))
    <3>1. TextClauses(T) = AllWritten(lp, D)
      BY <1>1, <1>3, <1>4, VariedWritten DEF D
    <3>2. Len(Placeholders(AllWritten(lp, D))) = Len(Bound(D))
      BY <2>1, <2>3, ValuesMeet
    <3>. QED BY <3>1, <3>2 DEF C
  <2>. QED BY <2>1, <2>2, <2>3, <2>4, <2>5, BoundWithout
<1>8. ColumnsOf(Required) \subseteq AllColumnsIn(ws)
  <2>1. /\ \A c \in ColumnsOf(Range(ws)) : TableOf(c) \in Range(Scanned(plan))
        /\ \A c \in ColumnsOf(Range(hs)) : TableOf(c) \in Range(Scanned(plan))
    BY <1>6 DEF ColumnsOf, Fit
  <2>2. Evident(plan, lp, AllColumnsIn(ws), AllColumnsIn(hs))
    BY <1>1, <1>3, <1>4, <2>1, VariedEvident
  <2>. QED BY <2>2, ColumnsRequired
<1>9. Required \subseteq Range(ws)
  <2>1. \A d \in ColumnsIn(es[x]) : OneOperand(d, es) => d \notin AllColumnsIn(ws)
    BY <1>1, <1>2, RemovedLoses DEF ws
  <2>2. es[x] \in Required => \E d \in ColumnsIn(es[x]) : OneOperand(d, es) => d \notin AllColumnsIn(ws)
    BY <2>1, RequiredApart
  <2>. QED BY <1>1, <1>2, <1>5, <1>8, <2>2, RequiredStay
<1>10. \A e \in Range(ws) : Writable(lp, e) /\ \A c \in ColumnsIn(e) : TableOf(c) \in Range(Scanned(plan))
  BY <1>6 DEF Fit
<1>. QED BY <1>3, <1>4, <1>7, <1>9, <1>10, VariedGoverned DEF D, C, hs

\* One in whose WHERE another column of the same table stands.
LEMMA MovedGoverned ==
  ASSUME NEW lp, Compiled(lp), LooksUp(Clauses(lp)), TellsApart(plan),
         NEW x \in 1..Len(lp.where), NEW a \in DOMAIN lp.where[x].args,
         lp.where[x].args[a] \in Columns, NEW c \in Columns,
         TableOf(c) = TableOf(lp.where[x].args[a]), c # lp.where[x].args[a],
         NEW T, T = Varied(lp, Moved(lp.where, x, a, c), lp.having),
         ObligationsSql(T, plan, lp),
         NEW w, NEW env \in Counted(T, Bound(Clauses(lp)), w)
  PROVE  OfTenant(ReadingOf(env)) /\ Governed(ReadingOf(env), "before_aggregation")
<1>. DEFINE es == lp.where
            hs == lp.having
            ws == Moved(es, x, a, c)
            d == es[x].args[a]
            f == WithArg(es[x], a, c)
            C == Clauses(lp)
            D == VariedClauses(lp, ws, hs)
            on == FlattenSeq(Joined(lp))
            Fit(e) == Writable(lp, e) /\ \A b \in ColumnsIn(e) : TableOf(b) \in Range(Scanned(plan))
<1>1. /\ es \in Seq(Expressions) /\ hs \in Seq(Expressions) /\ on \in Seq(Expressions)
      /\ C = (on \o es) \o hs /\ D = (on \o ws) \o hs
      /\ \A e \in Range(on) \cup Range(es) \cup Range(hs) : Fit(e)
      /\ es = Where(plan)
  BY ClausesVaried, ColumnsScanned DEF VariedClauses
<1>2. x \in 1..Len(es) /\ DOMAIN es = 1..Len(es) /\ es[x] \in Range(es) /\ a \in DOMAIN es[x].args /\ d \in Columns
      /\ TableOf(c) = TableOf(d) /\ c # d
  <2>1. es \in Seq(Expressions)
    BY <1>1
  <2>2. DOMAIN es = 1..Len(es)
    BY <2>1
  <2>. QED BY <2>2 DEF Range
<1>3. /\ ws \in Seq(Expressions) /\ Len(ws) = Len(es)
      /\ \A k \in 1..Len(es) : k # x => ws[k] = es[k]
      /\ ws[x] = f
      /\ f.op = es[x].op /\ f.args = [es[x].args EXCEPT ![a] = c]
      /\ OneOperand(d, es) => d \notin AllColumnsIn(ws)
  <2>. HIDE DEF es
  <2>. QED BY <1>1, <1>2, MovedLoses
<1>4. T = Varied(lp, ws, hs)
  OBVIOUS
<1>. HIDE DEF es, ws, hs, C, D, on, Fit, d, f
<1>5. /\ Fit(f) /\ Among(f.args, Bindings) = Among(es[x].args, Bindings)
  <2>1. Fit(es[x])
    BY <1>1, <1>2
  <2>2. f \in Expressions /\ DOMAIN f.args = DOMAIN es[x].args
    BY <1>2, <1>3
  <2>3. ColumnsIn(f) \subseteq ColumnsIn(es[x]) \cup {c}
    BY <1>3, <2>2 DEF ColumnsIn, Range
  <2>4. d \in ColumnsIn(es[x])
    BY <1>2 DEF ColumnsIn, Range, d
  <2>5. TableOf(c) \in Range(Scanned(plan))
    BY <1>2, <2>1, <2>4 DEF Fit
  <2>6. Term(lp, c).alias \in Nat
    <3>1. Term(lp, c) = Ref(Alias(plan, TableOf(c)), c[2]) /\ Alias(plan, TableOf(c)) \in Nat
      BY <2>5, ColumnsAliased
    <3>. QED BY <3>1 DEF Ref
  <2>7. f.op = "in" => f.args # <<>> /\ f.args[1] \in Columns
    <3>. SUFFICES ASSUME f.op = "in" PROVE f.args # <<>> /\ f.args[1] \in Columns
      OBVIOUS
    <3>1. es[x].args # <<>> /\ es[x].args[1] \in Columns
      BY <1>3, <2>1 DEF Fit, Writable
    <3>2. es[x].args \in Seq(Operands)
      BY <2>1, OperandsWritten DEF Fit
    <3>3. 1 \in DOMAIN es[x].args
      BY <3>1, <3>2
    <3>4. f.args # <<>>
      BY <2>2, <3>3
    <3>. QED BY <1>3, <3>1, <3>3, <3>4
  <2>8. Fit(f)
    BY <2>1, <2>2, <2>3, <2>5, <2>6, <2>7 DEF Fit, Writable
  <2>9. Among(f.args, Bindings) = Among(es[x].args, Bindings)
    <3>1. c \notin Bindings /\ d \notin Bindings
      BY <1>2, CatalogAssumption
    <3>. DEFINE One(y) == IF y \in Bindings THEN <<y>> ELSE <<>>
    <3>2. \A j \in DOMAIN f.args : One(f.args[j]) = One(es[x].args[j])
      BY <1>2, <1>3, <2>2, <3>1 DEF d
    <3>3. [j \in DOMAIN f.args |-> One(f.args[j])] = [j \in DOMAIN es[x].args |-> One(es[x].args[j])]
      <4>. HIDE DEF One
      <4>. QED BY <2>2, <3>2
    <3>. QED BY <3>3 DEF Among
  <2>. QED BY <2>8, <2>9
<1>6. /\ \A k \in 1..Len(ws) : Among(ws[k].args, Bindings) = Among(es[k].args, Bindings)
      /\ \A e \in Range(ws) : Fit(e)
  <2>1. \A k \in 1..Len(ws) : Among(ws[k].args, Bindings) = Among(es[k].args, Bindings)
    BY <1>3, <1>5
  <2>2. DOMAIN ws = 1..Len(ws)
    BY <1>3
  <2>3. \A k \in 1..Len(ws) : Fit(ws[k])
    BY <1>1, <1>2, <1>3, <1>5 DEF Range
  <2>. QED BY <2>1, <2>2, <2>3 DEF Range
<1>7. Bound(D) = Bound(C)
  <2>0. ws \in Seq(Expressions) /\ Range(D) = Range(on) \cup Range(ws) \cup Range(hs)
    BY <1>1, <1>3, RangeInside
  <2>1. /\ D \in Seq(Expressions)
        /\ Len(D) = (Len(on) + Len(ws)) + Len(hs)
        /\ \A i \in 1..Len(on) : D[i] = on[i]
        /\ \A i \in 1..Len(ws) : D[Len(on) + i] = ws[i]
        /\ \A i \in 1..Len(hs) : D[(Len(on) + Len(ws)) + i] = hs[i]
    BY <1>1, <2>0, Inside
  <2>2. /\ C \in Seq(Expressions) /\ Range(C) = Range(on) \cup Range(es) \cup Range(hs)
        /\ Len(C) = (Len(on) + Len(es)) + Len(hs)
        /\ Len(on) \in Nat /\ Len(es) \in Nat /\ Len(hs) \in Nat
        /\ \A i \in 1..Len(on) : C[i] = on[i]
        /\ \A i \in 1..Len(es) : C[Len(on) + i] = es[i]
        /\ \A i \in 1..Len(hs) : C[(Len(on) + Len(es)) + i] = hs[i]
    BY <1>1, Inside, RangeInside
  <2>3. (\A e \in Range(D) : Writable(lp, e)) /\ (\A e \in Range(C) : Writable(lp, e))
    BY <1>1, <1>6, <2>0, <2>2 DEF Fit
  <2>. DEFINE p == Len(on)
              q == Len(es)
              r == Len(hs)
  <2>4. /\ p \in Nat /\ q \in Nat /\ r \in Nat /\ Len(C) = (p + q) + r /\ Len(D) = (p + q) + r
        /\ \A i \in 1..p : D[i] = C[i]
        /\ \A i \in 1..q : D[p + i] = ws[i] /\ C[p + i] = es[i]
        /\ \A i \in 1..r : D[(p + q) + i] = C[(p + q) + i]
        /\ \A i \in 1..q : Among(ws[i].args, Bindings) = Among(es[i].args, Bindings)
    BY <1>3, <1>6, <2>1, <2>2
  <2>. HIDE DEF p, q, r
  <2>5. \A i \in 1..Len(C) : Among(D[i].args, Bindings) = Among(C[i].args, Bindings)
    <3>. SUFFICES ASSUME NEW i \in 1..Len(C)
                  PROVE  Among(D[i].args, Bindings) = Among(C[i].args, Bindings)
      OBVIOUS
    <3>1. CASE i \in 1..p
      BY <2>4, <3>1
    <3>2. CASE i - p \in 1..q
      <4>1. p + (i - p) = i
        BY <2>4
      <4>2. Among(D[p + (i - p)].args, Bindings) = Among(C[p + (i - p)].args, Bindings)
        BY ONLY <2>4, <3>2
      <4>. QED BY ONLY <4>1, <4>2
    <3>3. CASE i - (p + q) \in 1..r
      <4>1. (p + q) + (i - (p + q)) = i
        BY <2>4
      <4>2. Among(D[(p + q) + (i - (p + q))].args, Bindings) = Among(C[(p + q) + (i - (p + q))].args, Bindings)
        BY ONLY <2>4, <3>3
      <4>. QED BY ONLY <4>1, <4>2
    <3>4. i \in 1..p \/ i - p \in 1..q \/ i - (p + q) \in 1..r
      BY <2>4
    <3>. QED BY <3>1, <3>2, <3>3, <3>4
  <2>6. C \in Seq(Expressions) /\ D \in Seq(Expressions) /\ Len(D) = Len(C)
    BY <2>1, <2>2, <2>4
  <2>. QED BY <2>3, <2>5, <2>6, BoundAlike
<1>8. ColumnsOf(Required) \subseteq AllColumnsIn(ws)
  <2>1. /\ \A b \in ColumnsOf(Range(ws)) : TableOf(b) \in Range(Scanned(plan))
        /\ \A b \in ColumnsOf(Range(hs)) : TableOf(b) \in Range(Scanned(plan))
    BY <1>1, <1>6 DEF ColumnsOf, Fit
  <2>2. Evident(plan, lp, AllColumnsIn(ws), AllColumnsIn(hs))
    BY <1>1, <1>3, <1>4, <2>1, VariedEvident
  <2>. QED BY <2>2, ColumnsRequired
<1>9. Required \subseteq Range(ws)
  <2>1. \A k \in 1..Len(es) : k # x => es[k] \in Range(ws)
    <3>1. DOMAIN ws = 1..Len(es)
      BY <1>3
    <3>. QED BY <1>3, <3>1 DEF Range
  <2>2. d \in ColumnsIn(es[x])
    BY <1>2 DEF ColumnsIn, Range, d
  <2>. QED BY <1>1, <1>2, <1>3, <1>8, <2>1, <2>2, RequiredStay
<1>10. \A e \in Range(ws) : Writable(lp, e) /\ \A b \in ColumnsIn(e) : TableOf(b) \in Range(Scanned(plan))
  BY <1>6 DEF Fit
<1>. QED BY <1>3, <1>4, <1>7, <1>9, <1>10, VariedGoverned DEF D, C, hs

-----------------------------------------------------------------------------
(* The defects, kind by kind.                                                 *)

WithWhere(text, w) == [text EXCEPT !.where = w]
WithHaving(text, h) == [text EXCEPT !.having = h]
WithConjunct(text, i, e) == [text EXCEPT !.where[i] = e]
OnWithout(text, k, i) == [text EXCEPT !.relations[k].on = RemoveAt(@, i)]
Doubled(text) == [text EXCEPT !.statements = 2]
Starred(text) == [text EXCEPT !.items = <<Predicate("star", <<>>)>> \o @]
WithOperator(text, i, op) == [text EXCEPT !.items[i].op = op]
WithTable(text, k, t) == [text EXCEPT !.relations[k].table = t]
Crossed(text, k) == [text EXCEPT !.relations[k].on = <<>>]

\* The term with another column of its relation.
Beside(x, c) == Ref(x.alias, c[2])

Dropped(d, text) ==
  \/ /\ d[1] = "where"
     /\ \E i \in DOMAIN text.where : d[2] = WithWhere(text, RemoveAt(text.where, i))
  \/ \E i \in DOMAIN text.having : d[2] = WithHaving(text, RemoveAt(text.having, i))
  \/ \E k \in DOMAIN text.relations : \E i \in DOMAIN text.relations[k].on : d[2] = OnWithout(text, k, i)

Replaced(d, text) ==
  \/ d[2] = Doubled(text) \/ d[2] = Starred(text)
  \/ \E i \in DOMAIN text.items : text.items[i].op = "sum" /\ d[2] = WithOperator(text, i, "sum_distinct")
  \/ \E i \in DOMAIN text.items : text.items[i].op = "date_trunc" /\ d[2] = WithOperator(text, i, "foreign")
  \/ \E k \in DOMAIN text.relations : \E t \in Tables \cup {"nowhere"} : d[2] = WithTable(text, k, t)
  \/ \E k \in 2..Len(text.relations) : d[2] = Crossed(text, k)

Termed(d, text) ==
  \E i \in DOMAIN text.where : \E a \in DOMAIN text.where[i].args :
    LET e == text.where[i] IN
    \/ d[2] = WithConjunct(text, i, WithArg(e, a, Inline))
    \/ /\ d[1] = "column" /\ e.args[a] # Placeholder
       /\ \E c \in Columns :
            /\ TableOf(c) = text.relations[e.args[a].alias + 1].table
            /\ d[2] = WithConjunct(text, i, WithArg(e, a, Beside(e.args[a], c)))

LEMMA DroppedAre ==
  ASSUME NEW text, NEW d \in DroppedConjuncts(text)
  PROVE  Dropped(d, text)
<1>. DEFINE ons(k) == {<<"on", OnWithout(text, k, i)>> : i \in DOMAIN text.relations[k].on}
            ws == {<<"where", WithWhere(text, RemoveAt(text.where, i))>> : i \in DOMAIN text.where}
            hs == {<<"having", WithHaving(text, RemoveAt(text.having, i))>> : i \in DOMAIN text.having}
<1>1. DroppedConjuncts(text) = ws \cup hs \cup UNION {ons(k) : k \in DOMAIN text.relations}
  BY DEF DroppedConjuncts, WithWhere, WithHaving, OnWithout
<1>2. CASE d \in ws
  BY <1>2 DEF Dropped
<1>3. CASE d \in hs
  BY <1>3 DEF Dropped
<1>4. CASE d \in UNION {ons(k) : k \in DOMAIN text.relations}
  BY <1>4 DEF Dropped
<1>. HIDE DEF ons, ws, hs
<1>. QED BY <1>1, <1>2, <1>3, <1>4

LEMMA ReplacedAre ==
  ASSUME NEW text, NEW d \in ReplacedParts(text)
  PROVE  Replaced(d, text)
<1>. DEFINE A == {<<"statement", Doubled(text)>>, <<"star", Starred(text)>>}
            B == {<<"distinct", WithOperator(text, i, "sum_distinct")>> :
                    i \in {k \in DOMAIN text.items : text.items[k].op = "sum"}}
            C == {<<"function", WithOperator(text, i, "foreign")>> :
                    i \in {k \in DOMAIN text.items : text.items[k].op = "date_trunc"}}
            D == {<<"table", WithTable(text, k, t)>> : k \in DOMAIN text.relations, t \in Tables \cup {"nowhere"}}
            E == {<<"cartesian", Crossed(text, k)>> : k \in 2..Len(text.relations)}
<1>1. ReplacedParts(text) = A \cup B \cup C \cup D \cup E
  BY DEF ReplacedParts, Doubled, Starred, WithOperator, WithTable, Crossed
<1>2. CASE d \in A
  BY <1>2 DEF Replaced
<1>3. CASE d \in B
  BY <1>3 DEF Replaced
<1>4. CASE d \in C
  BY <1>4 DEF Replaced
<1>5. CASE d \in D
  BY <1>5 DEF Replaced
<1>6. CASE d \in E
  BY <1>6 DEF Replaced
<1>. HIDE DEF A, B, C, D, E
<1>. QED BY <1>1, <1>2, <1>3, <1>4, <1>5, <1>6

LEMMA TermedAre ==
  ASSUME NEW text, NEW d \in ReplacedTerms(text)
  PROVE  Termed(d, text)
<1>. DEFINE x(i) == text.where[i]
            inlined(i, a) == {<<"inline", WithConjunct(text, i, WithArg(x(i), a, Inline))>>}
            near(i, a) == {b \in Columns : TableOf(b) = text.relations[x(i).args[a].alias + 1].table}
            moved(i, a) ==
              {<<"column", WithConjunct(text, i, WithArg(x(i), a, Beside(x(i).args[a], c)))>> : c \in near(i, a)}
            edits(i, a) == IF x(i).args[a] = Placeholder THEN inlined(i, a) ELSE moved(i, a)
            all(i) == UNION {edits(i, a) : a \in DOMAIN x(i).args}
<1>1. ReplacedTerms(text) = UNION {all(i) : i \in DOMAIN text.where}
  BY DEF ReplacedTerms, WithConjunct, Beside
<1>. HIDE DEF all
<1>2. PICK i \in DOMAIN text.where : d \in all(i)
  BY <1>1
<1>. HIDE DEF edits
<1>3. PICK a \in DOMAIN x(i).args : d \in edits(i, a)
  BY <1>2 DEF all
<1>. HIDE DEF inlined, moved
<1>4. CASE x(i).args[a] = Placeholder
  <2>1. d \in inlined(i, a)
    BY <1>3, <1>4 DEF edits
  <2>2. d[2] = WithConjunct(text, i, WithArg(x(i), a, Inline))
    BY <2>1 DEF inlined
  <2>. QED BY <2>2 DEF Termed
<1>5. CASE x(i).args[a] # Placeholder
  <2>1. d \in moved(i, a)
    BY <1>3, <1>5 DEF edits
  <2>2. PICK c \in near(i, a) :
          d = <<"column", WithConjunct(text, i, WithArg(x(i), a, Beside(x(i).args[a], c)))>>
    BY <2>1 DEF moved
  <2>. QED BY <1>5, <2>2 DEF Termed
<1>. QED BY <1>4, <1>5

LEMMA EditsAre ==
  ASSUME NEW text, NEW d \in Edits(text), d[1] \notin Invisible
  PROVE  d[2] # text /\ (Dropped(d, text) \/ Replaced(d, text) \/ Termed(d, text))
<1>1. d[2] # text
  BY DEF Edits
<1>2. \A u \in Unnoticed(text) : u[1] \in Invisible
  BY DEF Unnoticed, Invisible
<1>3. d \in DroppedConjuncts(text) \/ d \in ReplacedParts(text) \/ d \in ReplacedTerms(text)
  BY <1>2 DEF Edits
<1>. QED BY <1>1, <1>3, DroppedAre, ReplacedAre, TermedAre

-----------------------------------------------------------------------------
(* What each kind of defect leaves, and the gate it does not pass.            *)

LEMMA PartsLeft ==
  ASSUME NEW lp, NEW text, text = Text(lp)
  PROVE  /\ Doubled(text).statements = 2
         /\ Starred(text).items = <<Predicate("star", <<>>)>> \o text.items
<1>. DEFINE i0 == text.items
            r0 == text.relations
            w0 == text.where
            g0 == text.group
            h0 == text.having
<1>1. text = [statements |-> 1, items |-> i0, relations |-> r0, where |-> w0, group |-> g0, having |-> h0]
  BY DEF Text
<1>. HIDE DEF i0, r0, w0, g0, h0
<1>2. /\ text.items = i0 /\ text.relations = r0 /\ text.where = w0 /\ text.group = g0
      /\ text.having = h0
  BY <1>1
<1>3. Doubled(text).statements = 2
  BY <1>1 DEF Doubled
<1>4. Starred(text).items = <<Predicate("star", <<>>)>> \o text.items
  BY <1>1 DEF Starred
<1>. QED BY ONLY <1>3, <1>4

LEMMA OperatorsLeft ==
  ASSUME NEW lp, NEW text, text = Text(lp), NEW i, NEW op
  PROVE  WithOperator(text, i, op).items = [text.items EXCEPT ![i].op = op]
<1>. DEFINE j0 == text.items
            r0 == text.relations
            w0 == text.where
            g0 == text.group
            h0 == text.having
<1>1. text = [statements |-> 1, items |-> j0, relations |-> r0, where |-> w0, group |-> g0, having |-> h0]
  BY DEF Text
<1>. HIDE DEF j0, r0, w0, g0, h0
<1>2. /\ text.items = j0 /\ text.relations = r0 /\ text.where = w0 /\ text.group = g0
      /\ text.having = h0
  BY <1>1
<1>. QED BY <1>1 DEF WithOperator

LEMMA TablesLeft ==
  ASSUME NEW lp, NEW text, text = Text(lp), NEW k, NEW t
  PROVE  /\ WithTable(text, k, t).relations = [text.relations EXCEPT ![k].table = t]
         /\ WithTable(text, k, t).items = text.items
         /\ WithTable(text, k, t).where = text.where
         /\ WithTable(text, k, t).having = text.having
         /\ WithTable(text, k, t).group = text.group
<1>. DEFINE i0 == text.items
            r0 == text.relations
            w0 == text.where
            g0 == text.group
            h0 == text.having
<1>1. text = [statements |-> 1, items |-> i0, relations |-> r0, where |-> w0, group |-> g0, having |-> h0]
  BY DEF Text
<1>. HIDE DEF i0, r0, w0, g0, h0
<1>2. /\ text.items = i0 /\ text.relations = r0 /\ text.where = w0 /\ text.group = g0
      /\ text.having = h0
  BY <1>1
<1>. QED BY <1>1 DEF WithTable

LEMMA ConjunctsLeft ==
  ASSUME NEW lp, NEW text, text = Text(lp)
  PROVE  /\ \A k : Crossed(text, k).relations = [text.relations EXCEPT ![k].on = <<>>]
         /\ \A k, i : OnWithout(text, k, i).relations =
                        [text.relations EXCEPT ![k].on = RemoveAt(text.relations[k].on, i)]
         /\ \A i, e : /\ WithConjunct(text, i, e) = WithWhere(text, [text.where EXCEPT ![i] = e])
                      /\ WithConjunct(text, i, e).where = [text.where EXCEPT ![i] = e]
                      /\ WithConjunct(text, i, e).relations = text.relations
                      /\ WithConjunct(text, i, e).having = text.having
<1>. DEFINE i0 == text.items
            r0 == text.relations
            w0 == text.where
            g0 == text.group
            h0 == text.having
<1>1. text = [statements |-> 1, items |-> i0, relations |-> r0, where |-> w0, group |-> g0, having |-> h0]
  BY DEF Text
<1>. HIDE DEF i0, r0, w0, g0, h0
<1>2. /\ text.items = i0 /\ text.relations = r0 /\ text.where = w0 /\ text.group = g0
      /\ text.having = h0
  BY <1>1
<1>3. \A k : Crossed(text, k).relations = [text.relations EXCEPT ![k].on = <<>>]
  BY <1>1 DEF Crossed
<1>4. \A k, i : OnWithout(text, k, i).relations =
                  [text.relations EXCEPT ![k].on = RemoveAt(text.relations[k].on, i)]
  BY <1>1 DEF OnWithout
<1>5. \A i, e : /\ WithConjunct(text, i, e).where = [text.where EXCEPT ![i] = e]
                /\ WithConjunct(text, i, e).relations = text.relations
                /\ WithConjunct(text, i, e).having = text.having
  BY <1>1 DEF WithConjunct
<1>6. \A i, e : WithConjunct(text, i, e) = WithWhere(text, [text.where EXCEPT ![i] = e])
  BY DEF WithConjunct, WithWhere
<1>. QED BY ONLY <1>3, <1>4, <1>5, <1>6

LEMMA ItemsBlocked ==
  ASSUME NEW lp, Compiled(lp), NEW text, text = Text(lp)
  PROVE  /\ ~SingleStatement(Doubled(text)) /\ ~NoStar(Starred(text))
         /\ \A i \in DOMAIN text.items :
              /\ text.items[i].op = "sum" => ~AggregatesSql(WithOperator(text, i, "sum_distinct"), plan)
              /\ ~FunctionsAllowed(WithOperator(text, i, "foreign"))
<1>. DEFINE n == Len(lp.group)
            Ws == {Written(lp, e) : e \in Expressions}
            star == Predicate("star", <<>>)
<1>1. /\ n \in Nat /\ DOMAIN text.items = 1..n + 1
      /\ \A i \in 1..n : text.items[i].op \in {"column", "date_trunc"}
      /\ text.items[n + 1].op = plan.measure.op
      /\ text.items \in Seq(Ws)
  BY ItemsWritten
<1>2. ~SingleStatement(Doubled(text))
  BY PartsLeft DEF SingleStatement
<1>3. ~NoStar(Starred(text))
  <2>1. Starred(text).items = <<star>> \o text.items
    BY PartsLeft
  <2>2. star.op = "star"
    BY DEF Predicate
  <2>. HIDE DEF star, Ws
  <2>3. <<star>> \o text.items \in Seq(Ws \cup {star}) /\ Range(<<star>> \o text.items) = Range(<<star>>) \cup Range(text.items)
    <3>. DEFINE S == Ws \cup {star}
                s == <<star>>
                t == text.items
    <3>1. s \in Seq(S) /\ t \in Seq(S)
      BY <1>1
    <3>. HIDE DEF S, s, t
    <3>2. s \o t \in Seq(S) /\ Range(s \o t) = Range(s) \cup Range(t)
      BY <3>1, RangeOfConcat
    <3>. QED BY <3>2 DEF S, s, t
  <2>4. star \in Range(<<star>>)
    BY DEF Range
  <2>. QED BY <2>1, <2>2, <2>3, <2>4 DEF NoStar, Items
<1>4. ASSUME NEW i \in DOMAIN text.items, NEW op
      PROVE  \E item \in Items(WithOperator(text, i, op)) : item.op = op
  <2>1. WithOperator(text, i, op).items = [text.items EXCEPT ![i].op = op]
    BY OperatorsLeft
  <2>2. text.items[i].op = text.items[i].op /\ "op" \in DOMAIN text.items[i]
    <3>1. text.items[i] \in Ws
      BY <1>1
    <3>. QED BY <3>1 DEF Written, Predicate
  <2>3. [text.items EXCEPT ![i].op = op][i].op = op
    BY <2>2
  <2>4. i \in DOMAIN [text.items EXCEPT ![i].op = op]
    OBVIOUS
  <2>. QED BY <2>1, <2>3, <2>4 DEF Items, Range
<1>5. ASSUME NEW i \in DOMAIN text.items, text.items[i].op = "sum"
      PROVE  ~AggregatesSql(WithOperator(text, i, "sum_distinct"), plan)
  <2>1. PICK item \in Items(WithOperator(text, i, "sum_distinct")) : item.op = "sum_distinct"
    BY <1>4
  <2>2. IsAggregate(item) /\ "distinct" \in Nodes[item.op]
    BY <2>1 DEF IsAggregate, Nodes, Aggregates
  <2>3. i = n + 1
    <3>1. i \in 1..n \/ i = n + 1
      BY <1>1
    <3>. QED BY <1>1, <1>5, <3>1
  <2>4. plan.measure.op = "sum"
    BY <1>1, <1>5, <2>3
  <2>. QED BY <2>2, <2>4 DEF AggregatesSql
<1>6. ASSUME NEW i \in DOMAIN text.items PROVE ~FunctionsAllowed(WithOperator(text, i, "foreign"))
  <2>1. PICK item \in Items(WithOperator(text, i, "foreign")) : item.op = "foreign"
    BY <1>4
  <2>2. "anonymous" \in Nodes[item.op]
    BY <2>1 DEF Nodes
  <2>. QED BY <2>2 DEF FunctionsAllowed
<1>. QED BY <1>2, <1>3, <1>5, <1>6

LEMMA JoinsBlocked ==
  ASSUME NEW lp, Compiled(lp), NEW text, text = Text(lp)
  PROVE  /\ \A k \in 2..Len(text.relations) : ~NoCartesian(Crossed(text, k))
         /\ \A k \in DOMAIN text.relations : \A i \in DOMAIN text.relations[k].on :
              ~JoinPredicatesSql(OnWithout(text, k, i), lp)
<1>. DEFINE n == Len(plan.joins)
            Of(j) == Relationships[j.rel].predicates
            rels == text.relations
<1>1. /\ n \in Nat /\ Len(rels) = n + 1 /\ DOMAIN rels = 1..n + 1 /\ rels[1].on = <<>>
      /\ \A j \in 1..n : rels[j + 1].on = AllWritten(lp, Of(plan.joins[j]))
      /\ DOMAIN lp.joins = 1..n
      /\ \A j \in 1..n : Of(lp.joins[j]) = Of(plan.joins[j]) /\ Of(plan.joins[j]) \in Seq(Expressions)
  BY RelationsWritten, PlanTyped, JoinsLowered DEF Compiled
<1>2. \A k \in DOMAIN rels : "on" \in DOMAIN rels[k]
  <2>. DEFINE first == [table |-> lp.base, type |-> "from", on |-> <<>>]
              One(j) == [table |-> j.to, type |-> j.type, on |-> AllWritten(lp, j.predicates)]
              rest == [j \in DOMAIN lp.joins |-> One(lp.joins[j])]
              All == {first} \cup {One(lp.joins[j]) : j \in DOMAIN lp.joins}
  <2>1. rels = <<first>> \o rest
    BY DEF Text
  <2>2. \A r \in All : "on" \in DOMAIN r
    OBVIOUS
  <2>3. <<first>> \in Seq(All) /\ rest \in Seq(All)
    BY <1>1
  <2>. HIDE DEF first, One, rest, All, rels
  <2>4. rels \in Seq(All)
    BY <2>1, <2>3
  <2>. QED BY <2>2, <2>4
<1>. HIDE DEF n, Of, rels
<1>3. ASSUME NEW k \in 2..Len(rels) PROVE ~NoCartesian(Crossed(text, k))
  <2>1. Crossed(text, k).relations = [rels EXCEPT ![k].on = <<>>]
    BY ConjunctsLeft DEF rels
  <2>2. k \in 1..n + 1 /\ k \in DOMAIN rels
    BY <1>1
  <2>3. [rels EXCEPT ![k].on = <<>>][k].on = <<>>
    BY <1>2, <2>2
  <2>4. Len([rels EXCEPT ![k].on = <<>>]) = n + 1
    BY <1>1
  <2>5. k \in 2..Len([rels EXCEPT ![k].on = <<>>])
    BY <1>1, <2>4
  <2>. QED BY <2>1, <2>3, <2>5 DEF NoCartesian
<1>4. ASSUME NEW k \in DOMAIN rels, NEW i \in DOMAIN rels[k].on
      PROVE  ~JoinPredicatesSql(OnWithout(text, k, i), lp)
  <2>. DEFINE on == rels[k].on
              cut == [rels EXCEPT ![k].on = RemoveAt(on, i)]
  <2>1. OnWithout(text, k, i).relations = cut
    BY ConjunctsLeft DEF rels
  <2>2. k # 1
    BY <1>1, <1>4
  <2>3. k - 1 \in 1..n /\ (k - 1) + 1 = k
    BY <1>1, <2>2
  <2>. DEFINE es == Of(plan.joins[k - 1])
  <2>4. on = AllWritten(lp, es) /\ es \in Seq(Expressions)
    <3>1. rels[(k - 1) + 1].on = AllWritten(lp, Of(plan.joins[k - 1]))
      BY <1>1, <2>3
    <3>. QED BY <1>1, <2>3, <3>1
  <2>5. cut[k].on = RemoveAt(on, i)
    BY <1>2
  <2>. HIDE DEF cut, es, on
  <2>6. on \in Seq(Writings(lp)) /\ Len(on) = Len(es) /\ Len(es) \in Nat
    BY <2>4, PredicatesWritten
  <2>7. i \in 1..Len(on)
    BY <2>6 DEF on
  <2>8. Len(RemoveAt(on, i)) = Len(on) - 1
    BY <2>6, <2>7, RemovedAt
  <2>9. Len(cut[(k - 1) + 1].on) # Len(Of(lp.joins[k - 1]))
    <3>1. Of(lp.joins[k - 1]) = es
      BY ONLY <1>1, <2>3 DEF es
    <3>2. Len(cut[(k - 1) + 1].on) = Len(on) - 1
      BY ONLY <2>3, <2>5, <2>8
    <3>. QED BY ONLY <2>6, <3>1, <3>2
  <2>. QED BY <1>1, <2>1, <2>3, <2>9 DEF JoinPredicatesSql, Of
<1>. QED BY <1>3, <1>4 DEF rels

\* A rule that HAVING lacks, and a string in the place of a value.
LEMMA HavingBlocked ==
  ASSUME NEW lp, Compiled(lp), LooksUp(Clauses(lp)), TellsApart(plan), NEW text, text = Text(lp),
         NEW x \in DOMAIN text.having, NEW T, T = WithHaving(text, RemoveAt(text.having, x))
  PROVE  ~ObligationsSql(T, plan, lp)
<1>. SUFFICES ASSUME ObligationsSql(T, plan, lp) PROVE FALSE
  OBVIOUS
<1>. DEFINE ws == lp.where
            es == lp.having
            hs == RemoveAt(es, x)
<1>1. /\ es \in Seq(Expressions) /\ ws \in Seq(Expressions)
      /\ es = Placed(plan, "after_aggregation") /\ AsBound(plan)
      /\ \A e \in Range(ws) \cup Range(es) : \A c \in ColumnsIn(e) : TableOf(c) \in Range(Scanned(plan))
  BY ClausesVaried, ColumnsScanned DEF Compiled
<1>2. text.having = AllWritten(lp, es) /\ T = [text EXCEPT !.having = RemoveAt(text.having, x)]
  BY OneVaried, Zenon DEF WithHaving
<1>3. x \in 1..Len(es) /\ DOMAIN es = 1..Len(es)
  <2>1. DOMAIN AllWritten(lp, es) = DOMAIN es
    BY <1>1, WrittenInOrder
  <2>. QED BY <1>1, <1>2, <2>1
<1>4. T = Varied(lp, ws, hs)
  <2>1. RemoveAt(AllWritten(lp, es), x) = AllWritten(lp, hs)
    <3>. HIDE DEF es
    <3>. QED BY <1>1, <1>3, WrittenWithout
  <2>. HIDE DEF hs, es
  <2>2. T = [Text(lp) EXCEPT !.having = AllWritten(lp, hs)]
    BY <1>2, <2>1
  <2>3. Varied(lp, ws, hs) = [[Text(lp) EXCEPT !.where = AllWritten(lp, lp.where)] EXCEPT !.having = AllWritten(lp, hs)]
    BY DEF Varied
  <2>. QED BY <2>2, <2>3, OneVaried, Zenon
<1>. HIDE DEF ws, es, hs
<1>5. hs \in Seq(Expressions) /\ Range(hs) \subseteq Range(es)
  <2>1. hs \in Seq(Expressions)
    BY <1>1, <1>3, RemovedAt DEF hs
  <2>2. Range(hs) \subseteq Range(es)
    BY <1>1, <1>3, RemovedRest DEF hs
  <2>. QED BY <2>1, <2>2
<1>6. ColumnsOf(PlacedAt("after_aggregation")) \subseteq AllColumnsIn(hs)
  <2>1. /\ \A c \in ColumnsOf(Range(ws)) : TableOf(c) \in Range(Scanned(plan))
        /\ \A c \in ColumnsOf(Range(hs)) : TableOf(c) \in Range(Scanned(plan))
    BY <1>1, <1>5 DEF ColumnsOf
  <2>2. Evident(plan, lp, AllColumnsIn(ws), AllColumnsIn(hs))
    BY <1>1, <1>4, <1>5, <2>1, VariedEvident
  <2>. QED BY <2>2, ColumnsRequired
<1>7. es[x] \in PlacedAt("after_aggregation")
  <2>1. Range(es) = PlacedAt("after_aggregation")
    BY <1>1, ObligationsPlaced
  <2>. QED BY <1>3, <2>1 DEF Range
<1>8. PICK d \in ColumnsIn(es[x]) : OneOperand(d, es)
  <2>1. ColumnsIn(es[x]) # {} /\ \A d \in ColumnsIn(es[x]) : d \in ColumnsOf(PlacedAt("after_aggregation"))
    BY <1>7, RequiredApart DEF ColumnsOf
  <2>. QED BY <1>1, <2>1, RequiredApart
<1>9. d \notin AllColumnsIn(hs)
  BY <1>1, <1>3, <1>8, RemovedLoses DEF hs
<1>. QED BY <1>6, <1>7, <1>9 DEF ColumnsOf

LEMMA InlineBlocked ==
  ASSUME NEW lp, Compiled(lp), NEW text, text = Text(lp), NEW i \in DOMAIN text.where,
         NEW a \in DOMAIN text.where[i].args, NEW q,
         NEW T, T = WithConjunct(text, i, WithArg(text.where[i], a, Inline))
  PROVE  ~ParametersGate(T, q)
<1>. DEFINE e == WithArg(text.where[i], a, Inline)
            on == FlattenSeq([k \in DOMAIN text.relations |-> text.relations[k].on])
            W == Writings(lp)
            S == W \cup {e}
            w == [text.where EXCEPT ![i] = e]
            h == text.having
<1>1. /\ lp.where \in Seq(Expressions) /\ lp.having \in Seq(Expressions)
      /\ FlattenSeq(Joined(lp)) \in Seq(Expressions)
  <2>1. AsBound(plan) /\ lp = Lower(plan) /\ KeysFound
        /\ lp.where = Where(plan) /\ lp.having = Placed(plan, "after_aggregation")
    BY ColumnsScanned DEF Compiled
  <2>2. Joined(lp) \in Seq(Seq(Expressions))
    BY <2>1, JoinedInOrder
  <2>. QED BY <2>1, <2>2, WhereTouched, ObligationsPlaced, RangeOfFlatten
<1>2. /\ text.where = AllWritten(lp, lp.where) /\ h = AllWritten(lp, lp.having)
      /\ on = AllWritten(lp, FlattenSeq(Joined(lp)))
  <2>1. text.where = AllWritten(lp, lp.where) /\ h = AllWritten(lp, lp.having)
    BY OneVaried, Zenon
  <2>2. on = AllWritten(lp, FlattenSeq(Joined(lp)))
    BY TextWritten
  <2>. QED BY <2>1, <2>2
<1>. HIDE DEF on, h, W
<1>3. text.where \in Seq(W) /\ h \in Seq(W) /\ on \in Seq(W)
  BY <1>1, <1>2, PredicatesWritten DEF W
<1>4. T.where = w /\ T.having = h /\ T.relations = text.relations
  BY ConjunctsLeft DEF h
<1>5. Inline \in Range(e.args)
  <2>1. text.where[i] \in W
    BY <1>3
  <2>2. PICK u \in Expressions : text.where[i] = Written(lp, u)
    BY <2>1 DEF W, Writings
  <2>3. "args" \in DOMAIN text.where[i]
    BY <2>2 DEF Written, Predicate
  <2>4. e.args = [text.where[i].args EXCEPT ![a] = Inline]
    BY <2>3 DEF WithArg
  <2>5. a \in DOMAIN e.args /\ e.args[a] = Inline
    BY <2>4
  <2>. QED BY <2>5 DEF Range
<1>. HIDE DEF e
<1>6. w \in Seq(S) /\ h \in Seq(S) /\ on \in Seq(S) /\ e \in Range(w)
  <2>1. w \in Seq(S)
    BY <1>3
  <2>2. i \in DOMAIN w /\ w[i] = e
    OBVIOUS
  <2>. QED BY <1>3, <2>1, <2>2 DEF Range
<1>7. TextClauses(T) = (on \o w) \o h
  BY <1>4 DEF TextClauses, on
<1>. HIDE DEF w, S
<1>8. Range((on \o w) \o h) = Range(on) \cup Range(w) \cup Range(h)
  BY <1>6, RangeInside
<1>. QED BY <1>5, <1>6, <1>7, <1>8 DEF ParametersGate

\* The relations of the text are records.
LEMMA RelationsTyped ==
  ASSUME NEW lp, Compiled(lp), NEW text, text = Text(lp), NEW k \in DOMAIN text.relations
  PROVE  /\ text.relations[k] = [table |-> text.relations[k].table, type |-> text.relations[k].type,
                                 on |-> text.relations[k].on]
         /\ \E S : text.relations \in Seq(S)
<1>. DEFINE first == [table |-> lp.base, type |-> "from", on |-> <<>>]
            One(j) == [table |-> j.to, type |-> j.type, on |-> AllWritten(lp, j.predicates)]
            rest == [j \in DOMAIN lp.joins |-> One(lp.joins[j])]
            All == {first} \cup {One(lp.joins[j]) : j \in DOMAIN lp.joins}
            rels == text.relations
<1>1. rels = <<first>> \o rest
  BY DEF Text
<1>2. \A r \in All : r = [table |-> r.table, type |-> r.type, on |-> r.on]
  OBVIOUS
<1>3. <<first>> \in Seq(All) /\ rest \in Seq(All)
  <2>1. Len(plan.joins) \in Nat /\ DOMAIN lp.joins = 1..Len(plan.joins)
    BY PlanTyped, JoinsLowered DEF Compiled
  <2>. QED BY <2>1
<1>4. k \in DOMAIN rels
  OBVIOUS
<1>. HIDE DEF first, One, rest, All, rels
<1>5. rels \in Seq(All)
  BY <1>1, <1>3
<1>6. rels[k] \in All
  BY <1>4, <1>5
<1>. QED BY <1>2, <1>5, <1>6 DEF rels

LEMMA RelationsKept ==
  ASSUME NEW lp, NEW text, text = Text(lp)
  PROVE  [text EXCEPT !.relations = text.relations] = text
<1>. DEFINE i0 == text.items
            r0 == text.relations
            w0 == text.where
            g0 == text.group
            h0 == text.having
<1>1. text = [statements |-> 1, items |-> i0, relations |-> r0, where |-> w0, group |-> g0, having |-> h0]
  BY DEF Text
<1>. HIDE DEF i0, w0, g0, h0, r0
<1>2. [text EXCEPT !.relations = r0] = text
  BY <1>1
<1>. QED BY <1>2 DEF r0

\* Another table in the place of a scanned one.
LEMMA TableBlocked ==
  ASSUME NEW lp, Compiled(lp), TellsApart(plan), NEW text, text = Text(lp),
         NEW k \in DOMAIN text.relations, NEW t, NEW T, T = WithTable(text, k, t), T # text,
         NEW q, q.tables = Compile(lp).tables, q.columns = Compile(lp).columns,
         TablesGate(T, q)
  PROVE  ~ColumnsGate(T, q)
<1>. SUFFICES ASSUME ColumnsGate(T, q) PROVE FALSE
  OBVIOUS
<1>. DEFINE u == Scanned(plan)[k]
            rels == text.relations
            used == Referenced(lp)
            all == text.items \o TextClauses(text) \o text.group
<1>1. /\ DOMAIN rels = DOMAIN Scanned(plan) /\ rels[k].table = u /\ u \in Range(Scanned(plan))
      /\ AsBound(plan) /\ lp = Lower(plan)
      /\ DOMAIN lp.alias = Range(Scanned(plan))
      /\ \A c \in used : c \in Columns /\ TableOf(c) \in Range(Scanned(plan))
      /\ used \subseteq Columns
  <2>1. AsBound(plan) /\ lp = Lower(plan) /\ used \subseteq Columns
    BY DEF Compiled, Referenced, ColumnsIn, AllColumnsIn
  <2>2. DOMAIN rels = DOMAIN Scanned(plan) /\ rels[k].table = u /\ k \in DOMAIN Scanned(plan)
    BY <2>1, RelationsWritten, ScansNumbered
  <2>. QED BY <2>1, <2>2, ColumnsScanned DEF Range
<1>. DEFINE b == rels[k].table
            y == rels[k].type
            o == rels[k].on
<1>2. rels[k] = [table |-> b, type |-> y, on |-> o]
  BY RelationsTyped
<1>3. /\ T.relations = [rels EXCEPT ![k].table = t] /\ T.items = text.items
      /\ T.where = text.where /\ T.having = text.having /\ T.group = text.group
  BY TablesLeft
<1>4. k \in DOMAIN rels
  OBVIOUS
<1>. HIDE DEF u, rels, used, all, b, y, o
<1>5. /\ DOMAIN T.relations = DOMAIN rels /\ T.relations[k] = [table |-> t, type |-> y, on |-> o]
      /\ \A j \in DOMAIN rels : j # k => T.relations[j] = rels[j]
  BY <1>2, <1>3, <1>4
<1>6. k \in DOMAIN T.relations /\ T.relations[k].table = t
      /\ \A j \in DOMAIN rels : T.relations[j].on = rels[j].on
  BY <1>2, <1>4, <1>5 DEF o
<1>7. t # u
  <2>. SUFFICES ASSUME t = u PROVE T = text
    OBVIOUS
  <2>1. b = u
    BY <1>1 DEF b
  <2>2. \A j \in DOMAIN rels : T.relations[j] = rels[j]
    BY <1>2, <1>5, <2>1
  <2>3. [rels EXCEPT ![k].table = t] = rels
    <3>1. [rels EXCEPT ![k].table = t][k] = rels[k]
      BY <1>3, <1>4, <2>2
    <3>2. rels = [j \in DOMAIN rels |-> rels[j]]
      <4>1. \E S : rels \in Seq(S)
        BY RelationsTyped DEF rels
      <4>. QED BY <4>1
    <3>. QED BY <1>3, <2>2, <3>2
  <2>4. WithTable(text, k, t) = [text EXCEPT !.relations = [rels EXCEPT ![k].table = t]]
    BY DEF WithTable, rels
  <2>5. [text EXCEPT !.relations = rels] = text
    BY RelationsKept DEF rels
  <2>. QED BY <2>3, <2>4, <2>5
<1>8. t \in Range(Scanned(plan))
  <2>1. T.relations[k] \in Range(T.relations)
    BY <1>6 DEF Range
  <2>2. t \in q.tables
    BY <1>6, <2>1 DEF TablesGate
  <2>3. Compile(lp).tables = {TableOf(c) : c \in used} \cup DOMAIN lp.alias
    BY DEF Compile, used
  <2>. QED BY <1>1, <2>2, <2>3
<1>9. PICK c \in used : TableOf(c) = u /\ <<t, c[2]>> \notin used
  BY <1>1, <1>7, <1>8 DEF TellsApart, used
<1>10. TextClauses(T) = TextClauses(text)
  <2>1. [i \in DOMAIN T.relations |-> T.relations[i].on] = [i \in DOMAIN rels |-> rels[i].on]
    BY <1>5, <1>6
  <2>. QED BY <1>3, <2>1 DEF TextClauses, rels
<1>11. T.items \o TextClauses(T) \o T.group = all
  BY <1>3, <1>10 DEF all
<1>. DEFINE x == Term(lp, c)
            n == Alias(plan, u)
<1>12. x \in Refs(all)
  BY <1>9, ColumnsWritten DEF used, all
<1>13. x = Ref(n, c[2]) /\ n \in Nat
  BY <1>1, <1>9, ColumnsAliased
<1>14. n + 1 = k
  <2>1. n + 1 \in DOMAIN Scanned(plan) /\ Scanned(plan)[n + 1] = u
    BY <1>1, ScansNumbered
  <2>. QED BY <1>1, <1>4, <2>1 DEF AsBound, u
<1>15. ColumnId(T, x) = <<t, c[2]>>
  BY <1>6, <1>13, <1>14 DEF ColumnId, Ref
<1>16. ColumnId(T, x) \in TextColumns(T, all)
  BY <1>12 DEF TextColumns
<1>17. q.columns = used
  BY DEF Compile, used
<1>. QED BY <1>9, <1>11, <1>15, <1>16, <1>17 DEF ColumnsGate

\* The text with another column is what the compiler writes for the predicates with it.
LEMMA WrittenMoved ==
  ASSUME NEW lp, NEW es \in Seq(Expressions), NEW x \in 1..Len(es), NEW a \in DOMAIN es[x].args,
         NEW c, NEW y, Term(lp, c) = y
  PROVE  [AllWritten(lp, es) EXCEPT ![x] = WithArg(Written(lp, es[x]), a, y)]
           = AllWritten(lp, Moved(es, x, a, c))
<1>. DEFINE e == es[x]
            f == WithArg(e, a, c)
            v == Written(lp, e)
            u == WithArg(v, a, y)
<1>1. e \in Expressions /\ DOMAIN es = 1..Len(es) /\ Len(es) \in Nat
  OBVIOUS
<1>2. f = [op |-> e.op, args |-> [e.args EXCEPT ![a] = c]]
  <2>1. e = [op |-> e.op, args |-> e.args]
    BY <1>1 DEF Expressions
  <2>. HIDE DEF e
  <2>. QED BY <2>1 DEF WithArg
<1>3. v = [op |-> e.op, args |-> [k \in DOMAIN e.args |-> Term(lp, e.args[k])]]
  BY DEF Written, Predicate
<1>4. u = [op |-> e.op, args |-> [[k \in DOMAIN e.args |-> Term(lp, e.args[k])] EXCEPT ![a] = y]]
  <2>. HIDE DEF v, e
  <2>. QED BY <1>3 DEF WithArg
<1>5. Written(lp, f) = [op |-> f.op, args |-> [k \in DOMAIN f.args |-> Term(lp, f.args[k])]]
  BY DEF Written, Predicate
<1>6. u = Written(lp, f)
  <2>. DEFINE A == e.args
              B == [A EXCEPT ![a] = c]
  <2>1. f.op = e.op /\ f.args = B
    BY <1>2
  <2>. HIDE DEF A, e, f
  <2>2. [[k \in DOMAIN A |-> Term(lp, A[k])] EXCEPT ![a] = y] = [k \in DOMAIN B |-> Term(lp, B[k])]
    OBVIOUS
  <2>. QED BY <1>4, <1>5, <2>1, <2>2 DEF A
<1>. DEFINE ms == Moved(es, x, a, c)
<1>7. ms = [es EXCEPT ![x] = f]
  BY DEF Moved
<1>. HIDE DEF e, f, v, u, ms
<1>8. [[k \in DOMAIN es |-> Written(lp, es[k])] EXCEPT ![x] = u] = [k \in DOMAIN ms |-> Written(lp, ms[k])]
  BY <1>6, <1>7
<1>. QED BY <1>8 DEF AllWritten, ms, u, v, e

\* Whatever the text counts is the tenant's and meets the rules.
Restricted(text, values) ==
  \A w : \A env \in Counted(text, values, w) :
    OfTenant(ReadingOf(env)) /\ Governed(ReadingOf(env), "before_aggregation")

\* A column of the same relation has a term beside that of another.
LEMMA TermsBeside ==
  ASSUME NEW lp, Compiled(lp), NEW d \in Columns, TableOf(d) \in Range(Scanned(plan)),
         NEW y, y = Term(lp, d), NEW c \in Columns,
         TableOf(c) = Text(lp).relations[y.alias + 1].table
  PROVE  TableOf(c) = TableOf(d) /\ Term(lp, c) = Beside(y, c)
<1>1. ColumnId(Text(lp), y) = d /\ y = Ref(Alias(plan, TableOf(d)), d[2])
  BY TermsDenote, ColumnsAliased
<1>. DEFINE k == y.alias + 1
            t == Text(lp).relations[k].table
<1>2. ColumnId(Text(lp), y) = <<t, y.name>>
  BY DEF ColumnId
<1>. HIDE DEF t
<1>3. TableOf(d) = t
  BY <1>1, <1>2 DEF TableOf
<1>4. TableOf(c) = TableOf(d)
  BY <1>3 DEF t
<1>5. Term(lp, c) = Ref(Alias(plan, TableOf(d)), c[2])
  BY <1>4, ColumnsAliased
<1>6. y.alias = Alias(plan, TableOf(d))
  BY <1>1 DEF Ref
<1>. QED BY <1>4, <1>5, <1>6 DEF Beside

LEMMA MovedNowhere ==
  ASSUME NEW es \in Seq(Expressions), NEW x \in 1..Len(es), NEW a \in DOMAIN es[x].args
  PROVE  Moved(es, x, a, es[x].args[a]) = es
<1>. DEFINE e == es[x]
            A == e.args
            d == A[a]
<1>1. e \in Expressions
  OBVIOUS
<1>2. e = [op |-> e.op, args |-> A] /\ A = [k \in DOMAIN A |-> A[k]]
  BY <1>1 DEF Expressions
<1>. HIDE DEF e, A
<1>3. [A EXCEPT ![a] = d] = A
  BY <1>2
<1>4. [e EXCEPT !.args = [A EXCEPT ![a] = d]] = e
  BY <1>2, <1>3
<1>5. WithArg(e, a, d) = e
  BY <1>4 DEF WithArg, A
<1>6. [es EXCEPT ![x] = es[x]] = es
  OBVIOUS
<1>. QED BY <1>5, <1>6 DEF Moved, e, A

LEMMA ColumnRestricted ==
  ASSUME NEW lp, Compiled(lp), LooksUp(Clauses(lp)), TellsApart(plan), NEW text, text = Text(lp),
         NEW x \in DOMAIN text.where, NEW a \in DOMAIN text.where[x].args,
         text.where[x].args[a] # Placeholder, NEW c \in Columns,
         TableOf(c) = text.relations[text.where[x].args[a].alias + 1].table,
         NEW T, T # text,
         T = WithConjunct(text, x, WithArg(text.where[x], a, Beside(text.where[x].args[a], c))),
         ObligationsSql(T, plan, lp)
  PROVE  Restricted(T, Bound(Clauses(lp)))
<1>. DEFINE es == lp.where
            v == text.where[x]
            y == v.args[a]
            z == Beside(y, c)
            W == [text.where EXCEPT ![x] = WithArg(v, a, z)]
            where == text.where
<1>1. /\ T = WithWhere(text, W) /\ where = AllWritten(lp, es)
      /\ x \in DOMAIN where /\ v = where[x] /\ a \in DOMAIN v.args /\ y # Placeholder
      /\ W = [where EXCEPT ![x] = WithArg(v, a, z)]
      /\ TableOf(c) = Text(lp).relations[y.alias + 1].table
      /\ T # Text(lp) /\ text = Text(lp)
  <2>1. T = WithWhere(text, W)
    BY ConjunctsLeft
  <2>2. where = AllWritten(lp, es)
    BY OneVaried, Zenon
  <2>. HIDE DEF es, W
  <2>. QED BY <2>1, <2>2 DEF W
<1>2. /\ es \in Seq(Expressions)
      /\ \A e \in Range(es) :
           Writable(lp, e) /\ \A b \in ColumnsIn(e) : TableOf(b) \in Range(Scanned(plan))
  BY ClausesVaried
<1>. HIDE DEF es, y, z, W, where, v
<1>. DEFINE d == es[x].args[a]
            ms == Moved(es, x, a, c)
<1>3. /\ x \in 1..Len(es) /\ es[x] \in Range(es) /\ v = Written(lp, es[x])
  <2>1. /\ DOMAIN AllWritten(lp, es) = DOMAIN es
        /\ \A i \in DOMAIN es : AllWritten(lp, es)[i] = Written(lp, es[i])
    BY ONLY <1>2, WrittenInOrder
  <2>2. DOMAIN es = 1..Len(es)
    BY ONLY <1>2
  <2>. QED BY ONLY <1>1, <2>1, <2>2 DEF Range
<1>4. a \in DOMAIN es[x].args /\ y = Term(lp, d) /\ d \in Columns
  <2>1. Written(lp, es[x]).args = [i \in DOMAIN es[x].args |-> Term(lp, es[x].args[i])]
    BY ONLY DEF Written, Predicate
  <2>2. a \in DOMAIN es[x].args /\ y = Term(lp, d)
    BY ONLY <1>1, <1>3, <2>1 DEF y
  <2>. QED BY ONLY <1>1, <2>2, Zenon DEF Term
<1>5. TableOf(d) \in Range(Scanned(plan))
  <2>1. d \in ColumnsIn(es[x])
    BY ONLY <1>4 DEF ColumnsIn, Range
  <2>. QED BY ONLY <1>2, <1>3, <2>1
<1>. HIDE DEF d
<1>6. TableOf(c) = TableOf(d) /\ Term(lp, c) = z
  BY <1>1, <1>4, <1>5, TermsBeside DEF z
<1>7. W = AllWritten(lp, ms)
  <2>1. [AllWritten(lp, es) EXCEPT ![x] = WithArg(Written(lp, es[x]), a, z)] = AllWritten(lp, ms)
    BY ONLY <1>2, <1>3, <1>4, <1>6, WrittenMoved
  <2>. QED BY ONLY <1>1, <1>3, <2>1
<1>. HIDE DEF ms
<1>8. T = Varied(lp, ms, lp.having)
  <2>1. T = [Text(lp) EXCEPT !.where = AllWritten(lp, ms)]
    BY ONLY <1>1, <1>7 DEF WithWhere
  <2>. QED BY ONLY <2>1, OneVaried, Zenon DEF Varied
<1>9. c # d
  <2>. SUFFICES ASSUME c = d PROVE FALSE
    OBVIOUS
  <2>1. ms = es
    BY ONLY <1>2, <1>3, <1>4, c = d, MovedNowhere DEF d, ms
  <2>2. [Text(lp) EXCEPT !.where = AllWritten(lp, es)] = Text(lp)
    BY WhereKept DEF es
  <2>. QED BY ONLY <1>1, <1>7, <2>1, <2>2 DEF WithWhere
<1>10. ASSUME NEW w, NEW env \in Counted(T, Bound(Clauses(lp)), w)
       PROVE  OfTenant(ReadingOf(env)) /\ Governed(ReadingOf(env), "before_aggregation")
  BY <1>3, <1>4, <1>6, <1>8, <1>9, MovedGoverned, Zenon DEF es, d, ms
<1>. QED BY <1>10 DEF Restricted

\* A conjunct that WHERE lacks.
LEMMA WhereRestricted ==
  ASSUME NEW lp, Compiled(lp), LooksUp(Clauses(lp)), TellsApart(plan), NEW text, text = Text(lp),
         NEW x \in DOMAIN text.where, NEW T, T = WithWhere(text, RemoveAt(text.where, x)),
         ObligationsSql(T, plan, lp),
         Len(Placeholders(TextClauses(T))) = Len(Bound(Clauses(lp)))
  PROVE  Restricted(T, Bound(Clauses(lp)))
<1>1. T = [Text(lp) EXCEPT !.where = RemoveAt(@, x)]
  BY DEF WithWhere
<1>2. ASSUME NEW w, NEW env \in Counted(T, Bound(Clauses(lp)), w)
      PROVE  OfTenant(ReadingOf(env)) /\ Governed(ReadingOf(env), "before_aggregation")
  BY <1>1, LackingGoverned
<1>. QED BY <1>2 DEF Restricted

\* The compiled query with another text.
LEMMA TextReplaced ==
  ASSUME NEW lp, NEW T, NEW q, q = [Compile(lp) EXCEPT !.text = T]
  PROVE  /\ q.text = T /\ q.values = Bound(Clauses(lp))
         /\ q.columns = Compile(lp).columns /\ q.tables = Compile(lp).tables
<1>. DEFINE v0 == Bound(Clauses(lp))
            c0 == Referenced(lp)
            t0 == {TableOf(c) : c \in Referenced(lp)} \cup DOMAIN lp.alias
            x0 == Text(lp)
<1>1. Compile(lp) = [text |-> x0, values |-> v0, columns |-> c0, tables |-> t0]
  BY DEF Compile
<1>. HIDE DEF v0, c0, t0, x0
<1>2. q.text = T /\ q.values = v0 /\ q.columns = c0 /\ q.tables = t0
  BY <1>1
<1>3. Compile(lp).columns = c0 /\ Compile(lp).tables = t0
  BY <1>1
<1>. QED BY <1>2, <1>3 DEF v0

\* The gates let a defective text pass only when a conjunct of WHERE is gone or looks at
\* another column, and then what is counted is governed all the same.
LEMMA DefectsPassed ==
  ASSUME NEW lp, Compiled(lp), LooksUp(Clauses(lp)), TellsApart(plan), NEW text, text = Text(lp),
         NEW d \in Edits(text), d[1] \notin Invisible,
         NEW q, q = [Compile(lp) EXCEPT !.text = d[2]],
         Passes(q.text, q, lp, plan, ScopeOfRequest, closed)
  PROVE  d[1] \in {"column", "where"} /\ Restricted(q.text, q.values)
<1>. DEFINE T == d[2]
<1>1. /\ q.text = T /\ q.values = Bound(Clauses(lp))
      /\ q.columns = Compile(lp).columns /\ q.tables = Compile(lp).tables
  <2>1. q = [Compile(lp) EXCEPT !.text = T]
    OBVIOUS
  <2>. HIDE DEF T
  <2>2. /\ q.values = Bound(Clauses(lp))
        /\ q.columns = Compile(lp).columns /\ q.tables = Compile(lp).tables
    BY ONLY <2>1, TextReplaced, Zenon
  <2>3. q.text = T
    BY ONLY <2>1, TextReplaced
  <2>. QED BY <2>2, <2>3
<1>2. /\ SingleStatement(T) /\ FunctionsAllowed(T) /\ NoStar(T) /\ ParametersGate(T, q)
      /\ TablesGate(T, q) /\ ColumnsGate(T, q) /\ NoCartesian(T)
      /\ JoinPredicatesSql(T, lp) /\ AggregatesSql(T, plan) /\ ObligationsSql(T, plan, lp)
  BY <1>1 DEF Passes
<1>3. T # text /\ (Dropped(d, text) \/ Replaced(d, text) \/ Termed(d, text))
  BY EditsAre
<1>. HIDE DEF T
<1>4. CASE Dropped(d, text)
  <2>1. ASSUME d[1] = "where",
               NEW x \in DOMAIN text.where, T = WithWhere(text, RemoveAt(text.where, x))
        PROVE  Restricted(T, Bound(Clauses(lp)))
    <3>1. Len(Placeholders(TextClauses(T))) = Len(Bound(Clauses(lp)))
      BY <1>1, <1>2 DEF ParametersGate
    <3>. QED BY <1>2, <2>1, <3>1, WhereRestricted
  <2>2. ASSUME NEW x \in DOMAIN text.having, T = WithHaving(text, RemoveAt(text.having, x))
        PROVE  FALSE
    BY <1>2, <2>2, HavingBlocked
  <2>3. ASSUME NEW k \in DOMAIN text.relations, NEW i \in DOMAIN text.relations[k].on,
               T = OnWithout(text, k, i)
        PROVE  FALSE
    BY <1>2, <2>3, JoinsBlocked
  <2>. QED BY <1>1, <1>4, <2>1, <2>2, <2>3 DEF Dropped, T
<1>5. CASE Replaced(d, text)
  <2>1. T # Doubled(text) /\ T # Starred(text)
    BY <1>2, ItemsBlocked
  <2>2. \A i \in DOMAIN text.items :
          /\ text.items[i].op = "sum" => T # WithOperator(text, i, "sum_distinct")
          /\ T # WithOperator(text, i, "foreign")
    BY <1>2, ItemsBlocked
  <2>3. \A k \in 2..Len(text.relations) : T # Crossed(text, k)
    BY <1>2, JoinsBlocked
  <2>4. ASSUME NEW k \in DOMAIN text.relations, NEW t, T = WithTable(text, k, t) PROVE FALSE
    BY <1>1, <1>2, <1>3, <2>4, TableBlocked
  <2>. QED BY <1>5, <2>1, <2>2, <2>3, <2>4 DEF Replaced, T
<1>6. CASE Termed(d, text)
  <2>1. PICK x \in DOMAIN text.where : \E a \in DOMAIN text.where[x].args :
          LET e == text.where[x] IN
          \/ T = WithConjunct(text, x, WithArg(e, a, Inline))
          \/ /\ d[1] = "column" /\ e.args[a] # Placeholder
             /\ \E c \in Columns :
                  /\ TableOf(c) = text.relations[e.args[a].alias + 1].table
                  /\ T = WithConjunct(text, x, WithArg(e, a, Beside(e.args[a], c)))
    BY <1>6, Zenon DEF Termed, T
  <2>2. PICK a \in DOMAIN text.where[x].args :
          \/ T = WithConjunct(text, x, WithArg(text.where[x], a, Inline))
          \/ /\ d[1] = "column" /\ text.where[x].args[a] # Placeholder
             /\ \E c \in Columns :
                  /\ TableOf(c) = text.relations[text.where[x].args[a].alias + 1].table
                  /\ T = WithConjunct(text, x, WithArg(text.where[x], a, Beside(text.where[x].args[a], c)))
    BY ONLY <2>1, Zenon
  <2>3. T # WithConjunct(text, x, WithArg(text.where[x], a, Inline))
    BY <1>2, InlineBlocked
  <2>4. PICK c \in Columns :
          /\ TableOf(c) = text.relations[text.where[x].args[a].alias + 1].table
          /\ T = WithConjunct(text, x, WithArg(text.where[x], a, Beside(text.where[x].args[a], c)))
    BY ONLY <2>2, <2>3, Zenon
  <2>5. d[1] = "column" /\ text.where[x].args[a] # Placeholder
    BY ONLY <2>2, <2>3, Zenon
  <2>6. Restricted(T, Bound(Clauses(lp)))
    BY <1>2, <1>3, <2>4, <2>5, ColumnRestricted, Zenon
  <2>. QED BY <1>1, <2>5, <2>6
<1>. QED BY <1>3, <1>4, <1>5, <1>6

-----------------------------------------------------------------------------
(* What became of the text.                                                   *)

\* The text is edited once at most, before it is judged, and only what the gates let pass
\* is attested and executed.
Defective ==
  /\ pc \in {"bound", "lowered"} => edit = "none"
  /\ pc \in Judged /\ edit # "none" =>
       \E d \in Edits(Text(logical)) :
         d[1] = edit /\ compiled = [Compile(logical) EXCEPT !.text = d[2]]
  /\ pc \in {"validated", "attested", "answered"} =>
       Passes(compiled.text, compiled, logical, plan, ScopeOfRequest, closed)

LEMMA DefectiveStep == Inv /\ Defective /\ [Next]_vars => Defective'
<1>. SUFFICES ASSUME Inv, Defective, [Next]_vars PROVE Defective'
  OBVIOUS
<1>. DEFINE Good(p, q, l, c) == Passes(q.text, q, l, p, ScopeOfRequest, c)
            Made(k, q, l) == \E d \in Edits(Text(l)) :
                               d[1] = k /\ q = [Compile(l) EXCEPT !.text = d[2]]
<1>1. /\ pc \in {"bound", "lowered"} => edit = "none"
      /\ pc \in Judged /\ edit # "none" => Made(edit, compiled, logical)
      /\ pc \in {"validated", "attested", "answered"} => Good(plan, compiled, logical, closed)
  BY DEF Defective
<1>2. SUFFICES /\ pc' \in {"bound", "lowered"} => edit' = "none"
               /\ pc' \in Judged /\ edit' # "none" => Made(edit', compiled', logical')
               /\ pc' \in {"validated", "attested", "answered"} =>
                    Good(plan', compiled', logical', closed')
  BY DEF Defective, Passes, AuthorizationGate, MetricIntegrity, ObligationsGate, ObligationsSql
<1>. HIDE DEF Good, Made
<1>3. CASE LowerPlan
  BY <1>1, <1>3 DEF LowerPlan, Judged
<1>4. CASE CompilePlan
  BY <1>1, <1>4 DEF CompilePlan, Judged
<1>5. CASE EditText
  <2>1. /\ pc = "compiled" /\ edit = "none" /\ UNCHANGED <<plan, closed, logical, pc>>
        /\ \E e \in Edits(compiled.text) : edit' = e[1] /\ compiled' = [compiled EXCEPT !.text = e[2]]
    BY <1>5 DEF EditText
  <2>2. compiled = Compile(logical) /\ compiled.text = Text(logical)
    BY <2>1 DEF Inv, Judged, Compile
  <2>3. Made(edit', compiled', logical)
    BY <2>1, <2>2 DEF Made
  <2>. QED BY <2>1, <2>3 DEF Judged
<1>6. CASE Validate
  <2>1. /\ pc = "compiled" /\ pc' \in {"validated", "blocked"}
        /\ UNCHANGED <<plan, closed, logical, compiled, edit>>
        /\ pc' = "validated" => Good(plan, compiled, logical, closed)
    BY <1>6 DEF Validate, Good
  <2>. QED BY <1>1, <2>1 DEF Judged
<1>7. CASE Attest \/ Execute
  <2>1. /\ pc \in {"validated", "attested"}
        /\ pc' \in {"attested", "unproven", "failed", "answered"}
        /\ UNCHANGED <<plan, closed, logical, compiled, edit>>
    BY <1>7 DEF Attest, Execute
  <2>. QED BY <1>1, <2>1 DEF Judged
<1>8. CASE UNCHANGED vars
  <2>1. UNCHANGED <<plan, closed, logical, compiled, edit, pc>>
    BY <1>8 DEF vars
  <2>. QED BY <1>1, <2>1
<1>. QED BY <1>3, <1>4, <1>5, <1>6, <1>7, <1>8 DEF Next

LEMMA Governing ==
  ASSUME Inv, Defective, Resolves(plan), TellsApart(plan)
  PROVE  DefectsStayGoverned
<1>. SUFFICES ASSUME pc = "answered", edit \notin Invisible \cup {"none"}
              PROVE  /\ edit \in {"column", "where"}
                     /\ Restricted(compiled.text, compiled.values)
  BY DEF DefectsStayGoverned, Restricted
<1>1. Compiled(logical) /\ LooksUp(Clauses(logical))
  BY DEF Inv, Judged, Compiled, Resolves, LooksUp
<1>2. PICK d \in Edits(Text(logical)) :
        d[1] = edit /\ compiled = [Compile(logical) EXCEPT !.text = d[2]]
  BY DEF Defective, Judged
<1>3. Passes(compiled.text, compiled, logical, plan, ScopeOfRequest, closed)
  BY DEF Defective
<1>4. d[1] \notin Invisible
  BY <1>2
<1>5. d[1] \in {"column", "where"} /\ Restricted(compiled.text, compiled.values)
  BY <1>1, <1>2, <1>3, <1>4, DefectsPassed
<1>. QED BY <1>2, <1>5

\* Where the columns of the rules, of the tenant keys and of the tables tell them apart,
\* whatever single defect the text has but an exchange: what runs counts rows of the
\* principal's tenant that meet every mandatory rule.
THEOREM DefectsAlwaysGoverned ==
  Spec => [](Resolves(plan) /\ TellsApart(plan) => DefectsStayGoverned)
<1>1. Init => Defective
  BY DEF Init, Defective, Judged
<1>2. Spec => []Inv /\ []Defective
  BY <1>1, InvInit, InvStep, DefectiveStep, PTL DEF Spec
<1>3. Inv /\ Defective => (Resolves(plan) /\ TellsApart(plan) => DefectsStayGoverned)
  BY Governing
<1>. QED BY <1>2, <1>3, PTL
===============================================================================
