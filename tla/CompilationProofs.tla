-------------------------- MODULE CompilationProofs --------------------------
(***************************************************************************)
(* What the gates think of a text as it was compiled, for any catalog and   *)
(* any plans the binder makes: the columns of the text are those the plan    *)
(* touches, each gate but those about permissions and records has nothing to *)
(* report, and so the acceptable plans pass and no others; each value fills   *)
(* the placeholder it was bound for.                                         *)
(***************************************************************************)
EXTENDS Compilation, FiniteSetTheorems, WellFoundedInduction, TLAPS

-----------------------------------------------------------------------------
(* Sequences of sequences.                                                    *)

LEMMA LeastNumber ==
  ASSUME NEW S, S \subseteq Nat, S # {}
  PROVE  \E n \in S : \A m \in S : n <= m
<1>. DEFINE R == {p \in Nat \X Nat : p[1] < p[2]}
<1>1. IsWellFoundedOn(R, Nat)
  BY NatLessThanWellFounded DEF OpToRel
<1>2. \A m, n \in Nat : m < n => <<m, n>> \in R
  OBVIOUS
<1>. HIDE DEF R
<1>3. PICK n \in S : \A m \in S : ~(<<m, n>> \in R)
  BY <1>1, WFMin
<1>4. ASSUME NEW m \in S PROVE n <= m
  <2>1. m \in Nat /\ n \in Nat
    OBVIOUS
  <2>2. ~(m < n)
    BY <1>2, <1>3, <2>1
  <2>. QED BY <2>1, <2>2
<1>. QED BY <1>4

LEMMA RangeOfConcat ==
  ASSUME NEW S, NEW s \in Seq(S), NEW t \in Seq(S)
  PROVE  s \o t \in Seq(S) /\ Range(s \o t) = Range(s) \cup Range(t)
<1>1. /\ s \o t \in Seq(S) /\ Len(s \o t) = Len(s) + Len(t)
      /\ DOMAIN (s \o t) = 1..Len(s) + Len(t)
      /\ DOMAIN s = 1..Len(s) /\ DOMAIN t = 1..Len(t) /\ Len(s) \in Nat /\ Len(t) \in Nat
  OBVIOUS
<1>2. /\ \A i \in DOMAIN s : i \in DOMAIN (s \o t) /\ (s \o t)[i] = s[i]
      /\ \A i \in DOMAIN t : i + Len(s) \in DOMAIN (s \o t) /\ (s \o t)[i + Len(s)] = t[i]
  BY <1>1
<1>3. ASSUME NEW i \in DOMAIN (s \o t) PROVE (s \o t)[i] \in Range(s) \cup Range(t)
  <2>1. CASE i <= Len(s)
    <3>1. i \in DOMAIN s
      BY <1>1, <2>1
    <3>. QED BY <1>2, <3>1 DEF Range
  <2>2. CASE ~(i <= Len(s))
    <3>1. i - Len(s) \in DOMAIN t /\ (i - Len(s)) + Len(s) = i
      BY <1>1, <2>2
    <3>. QED BY <1>2, <3>1 DEF Range
  <2>. QED BY <2>1, <2>2
<1>4. ASSUME NEW x \in Range(s) \cup Range(t) PROVE x \in Range(s \o t)
  BY <1>2, <1>4 DEF Range
<1>. QED BY <1>1, <1>3, <1>4 DEF Range

\* How far FlattenSeq got after m of the sequences.
Flat(ss, f, m) == f = [i \in 1..m |-> IF i = 1 THEN ss[i] ELSE f[i - 1] \o ss[i]]

Flattens(ss, m) == \E f : Flat(ss, f, m)

LEMMA FlatExists ==
  ASSUME NEW S, NEW ss \in Seq(Seq(S))
  PROVE  Flattens(ss, Len(ss))
<1>. DEFINE Bad == {m \in 0..Len(ss) : ~Flattens(ss, m)}
<1>. SUFFICES ASSUME Bad # {} PROVE FALSE
  <2>1. Len(ss) \in 0..Len(ss)
    OBVIOUS
  <2>. QED BY <2>1
<1>1. PICK m \in Bad : \A k \in Bad : m <= k
  <2>1. Bad \subseteq Nat
    OBVIOUS
  <2>. HIDE DEF Bad
  <2>. QED BY <2>1, LeastNumber
<1>2. m \in Nat /\ m <= Len(ss) /\ ~Flattens(ss, m)
  OBVIOUS
<1>3. m # 0
  <2>. DEFINE e == [i \in 1..0 |-> <<>>]
  <2>1. Flat(ss, e, 0)
    BY DEF Flat
  <2>2. Flattens(ss, 0)
    BY <2>1 DEF Flattens
  <2>. QED BY <1>2, <2>2
<1>4. PICK f : Flat(ss, f, m - 1)
  <2>1. m - 1 \in 0..Len(ss)
    BY <1>2, <1>3
  <2>2. m - 1 \notin Bad
    <3>1. ~(m <= m - 1)
      BY <1>2
    <3>. QED BY <1>1, <3>1
  <2>3. Flattens(ss, m - 1)
    BY <2>1, <2>2
  <2>. QED BY <2>3 DEF Flattens
<1>. DEFINE g == [i \in 1..m |-> IF i = 1 THEN ss[i] ELSE f[i - 1] \o ss[i]]
<1>5. \A i \in 1..(m - 1) : g[i] = f[i]
  <2>1. \A i \in 1..(m - 1) : i \in 1..m
    BY <1>2
  <2>2. \A i \in 1..(m - 1) : f[i] = IF i = 1 THEN ss[i] ELSE f[i - 1] \o ss[i]
    BY <1>4 DEF Flat
  <2>. QED BY <2>1, <2>2
<1>6. \A i \in 1..m : i # 1 => g[i - 1] = f[i - 1]
  <2>1. \A i \in 1..m : i # 1 => i - 1 \in 1..(m - 1)
    BY <1>2
  <2>. HIDE DEF g
  <2>. QED BY <1>5, <2>1
<1>7. g = [i \in 1..m |-> IF i = 1 THEN ss[i] ELSE g[i - 1] \o ss[i]]
  <2>1. \A i \in 1..m : g[i] = IF i = 1 THEN ss[i] ELSE g[i - 1] \o ss[i]
    <3>. SUFFICES ASSUME NEW i \in 1..m
                  PROVE  g[i] = IF i = 1 THEN ss[i] ELSE g[i - 1] \o ss[i]
      OBVIOUS
    <3>1. g[i] = IF i = 1 THEN ss[i] ELSE f[i - 1] \o ss[i]
      OBVIOUS
    <3>. HIDE DEF g
    <3>. QED BY <1>6, <3>1
  <2>2. g = [i \in 1..m |-> g[i]]
    OBVIOUS
  <2>. HIDE DEF g
  <2>. QED BY <2>1, <2>2
<1>8. Flattens(ss, m)
  <2>. HIDE DEF g
  <2>. QED BY <1>7 DEF Flattens, Flat
<1>. QED BY <1>2, <1>8

\* Everything that is in one of the sequences, and nothing else.
LEMMA RangeOfFlatten ==
  ASSUME NEW S, NEW ss \in Seq(Seq(S))
  PROVE  /\ FlattenSeq(ss) \in Seq(S)
         /\ Range(FlattenSeq(ss)) = UNION {Range(ss[i]) : i \in DOMAIN ss}
<1>1. /\ Len(ss) \in Nat /\ DOMAIN ss = 1..Len(ss)
      /\ \A i \in 1..Len(ss) : ss[i] \in Seq(S)
  OBVIOUS
<1>2. CASE Len(ss) = 0
  <2>1. ss = <<>> /\ FlattenSeq(ss) = ss
    BY <1>2 DEF FlattenSeq
  <2>2. Range(ss) = {} /\ UNION {Range(ss[i]) : i \in DOMAIN ss} = {}
    BY <1>1, <1>2 DEF Range
  <2>3. <<>> \in Seq(S)
    OBVIOUS
  <2>4. FlattenSeq(ss) \in Seq(S)
    BY <2>1, <2>3
  <2>5. Range(FlattenSeq(ss)) = Range(ss)
    BY <2>1
  <2>. QED BY <2>2, <2>4, <2>5
<1>3. CASE Len(ss) # 0
  <2>1. PICK f : Flat(ss, f, Len(ss)) /\ FlattenSeq(ss) = f[Len(ss)]
    <3>. DEFINE h == CHOOSE f : Flat(ss, f, Len(ss))
    <3>1. Flat(ss, h, Len(ss))
      BY FlatExists DEF Flattens
    <3>2. FlattenSeq(ss) = h[Len(ss)]
      BY <1>3 DEF FlattenSeq, Flat
    <3>. QED BY <3>1, <3>2
  <2>2. /\ f[1] = ss[1]
        /\ \A i \in 2..Len(ss) : f[i] = f[i - 1] \o ss[i]
    <3>1. \A i \in 1..Len(ss) : f[i] = IF i = 1 THEN ss[i] ELSE f[i - 1] \o ss[i]
      BY <2>1 DEF Flat
    <3>2. 1 \in 1..Len(ss) /\ \A i \in 2..Len(ss) : i \in 1..Len(ss) /\ i # 1
      BY <1>1, <1>3
    <3>. QED BY <3>1, <3>2
  <2>. DEFINE Parts(m) == UNION {Range(ss[i]) : i \in 1..m}
              Good(m) == f[m] \in Seq(S) /\ Range(f[m]) = Parts(m)
              Bad == {m \in 1..Len(ss) : ~Good(m)}
  <2>3. Bad = {}
    <3>. SUFFICES ASSUME Bad # {} PROVE FALSE
      OBVIOUS
    <3>1. PICK m \in Bad : \A k \in Bad : m <= k
      <4>1. Bad \subseteq Nat
        OBVIOUS
      <4>. HIDE DEF Bad
      <4>. QED BY <4>1, LeastNumber
    <3>2. m \in 1..Len(ss) /\ ~Good(m)
      OBVIOUS
    <3>3. Good(1)
      <4>1. Parts(1) = Range(ss[1])
        OBVIOUS
      <4>. QED BY <1>1, <1>3, <2>2, <4>1
    <3>4. m # 1
      BY <3>2, <3>3
    <3>5. m - 1 \in 1..Len(ss) /\ m \in 2..Len(ss)
      BY <1>1, <3>2, <3>4
    <3>6. Good(m - 1)
      <4>1. ~(m <= m - 1)
        BY <1>1, <3>2
      <4>2. m - 1 \notin Bad
        <5>. HIDE DEF Bad
        <5>. QED BY <3>1, <4>1
      <4>. HIDE DEF Good
      <4>. QED BY <3>5, <4>2
    <3>7. f[m] \in Seq(S) /\ Range(f[m]) = Parts(m - 1) \cup Range(ss[m])
      <4>1. f[m] = f[m - 1] \o ss[m] /\ ss[m] \in Seq(S)
        BY <1>1, <2>2, <3>2, <3>5
      <4>. QED BY <3>6, <4>1, RangeOfConcat
    <3>8. Parts(m) = Parts(m - 1) \cup Range(ss[m])
      <4>1. 1..m = 1..(m - 1) \cup {m}
        BY <1>1, <3>5
      <4>. QED BY <4>1
    <3>. QED BY <3>2, <3>7, <3>8
  <2>4. Good(Len(ss))
    <3>1. Len(ss) \in 1..Len(ss)
      BY <1>1, <1>3
    <3>. QED BY <2>3, <3>1
  <2>. QED BY <1>1, <2>1, <2>4
<1>. QED BY <1>2, <1>3

-----------------------------------------------------------------------------
(* The parts of a logical plan.                                               *)

\* The columns of a set of expressions.
ColumnsOf(E) == UNION {ColumnsIn(e) : e \in E}

LEMMA ColumnsOfParts ==
  /\ \A es : AllColumnsIn(es) = ColumnsOf(Range(es))
  /\ \A E, F : ColumnsOf(E \cup F) = ColumnsOf(E) \cup ColumnsOf(F)
  /\ \A e : ColumnsOf({e}) = ColumnsIn(e)
  /\ ColumnsOf({}) = {}
BY DEF ColumnsOf, AllColumnsIn

Joins == [rel : DOMAIN Relationships, to : Tables, preserves : {TRUE}]

LEMMA PlanTyped ==
  ASSUME AsBound(plan)
  PROVE  /\ plan.base \in Tables
         /\ plan.joins \in Seq(Joins) /\ Len(plan.joins) \in Nat
         /\ DOMAIN plan.joins = 1..Len(plan.joins)
         /\ \A i \in DOMAIN plan.joins :
              /\ plan.joins[i].rel \in DOMAIN Relationships /\ plan.joins[i].to \in Tables
              /\ plan.joins[i].preserves
              /\ Relationships[plan.joins[i].rel].predicates \in Seq(Expressions)
         /\ plan.measure \in Expressions /\ plan.measure.op \in MeasureOperators
         /\ plan.population \in Seq(Expressions)
<1>1. /\ plan.joins \in Seq(Joins) /\ Len(plan.joins) \in Nat
      /\ DOMAIN plan.joins = 1..Len(plan.joins)
  <2>1. plan.joins \in Seq(Joins)
    BY DEF AsBound, Joins
  <2>. QED BY <2>1
<1>2. \A i \in DOMAIN plan.joins : plan.joins[i] \in Joins
  BY <1>1
<1>3. \A i \in DOMAIN plan.joins :
        /\ plan.joins[i].rel \in DOMAIN Relationships /\ plan.joins[i].to \in Tables
        /\ plan.joins[i].preserves
        /\ Relationships[plan.joins[i].rel].predicates \in Seq(Expressions)
  BY <1>2, CatalogAssumption DEF Joins
<1>. QED BY <1>1, <1>3, PublishedAssumption DEF AsBound

\* The scans, and the numbers they give to tables.
LEMMA ScansNumbered ==
  ASSUME AsBound(plan)
  PROVE  /\ Scanned(plan) \in Seq(Tables) /\ Len(Scanned(plan)) = Len(plan.joins) + 1
         /\ DOMAIN Scanned(plan) = 1..Len(plan.joins) + 1
         /\ Scanned(plan)[1] = plan.base
         /\ \A i \in DOMAIN plan.joins : Scanned(plan)[i + 1] = plan.joins[i].to
         /\ Range(Scanned(plan)) \subseteq Tables
         /\ \A t \in Range(Scanned(plan)) :
              /\ Alias(plan, t) \in Nat
              /\ Alias(plan, t) + 1 \in DOMAIN Scanned(plan)
              /\ Scanned(plan)[Alias(plan, t) + 1] = t
<1>. DEFINE tos == [i \in DOMAIN plan.joins |-> plan.joins[i].to]
<1>1. tos \in Seq(Tables) /\ Len(tos) = Len(plan.joins)
  BY PlanTyped
<1>2. <<plan.base>> \in Seq(Tables) /\ Len(<<plan.base>>) = 1
  BY PlanTyped
<1>3. Scanned(plan) = <<plan.base>> \o tos
  BY DEF Scanned
<1>4. \A i \in DOMAIN plan.joins : tos[i] = plan.joins[i].to
  OBVIOUS
<1>. HIDE DEF tos
<1>5. /\ Scanned(plan) \in Seq(Tables) /\ Len(Scanned(plan)) = Len(plan.joins) + 1
      /\ DOMAIN Scanned(plan) = 1..Len(plan.joins) + 1
  BY <1>1, <1>2, <1>3, PlanTyped
<1>6. /\ Scanned(plan)[1] = plan.base
      /\ \A i \in DOMAIN plan.joins : Scanned(plan)[i + 1] = plan.joins[i].to
  BY <1>1, <1>2, <1>3, <1>4, PlanTyped
<1>7. ASSUME NEW t \in Range(Scanned(plan))
      PROVE  /\ Alias(plan, t) \in Nat
             /\ Alias(plan, t) + 1 \in DOMAIN Scanned(plan)
             /\ Scanned(plan)[Alias(plan, t) + 1] = t
  <2>. DEFINE k == CHOOSE i \in DOMAIN Scanned(plan) : Scanned(plan)[i] = t
  <2>1. k \in DOMAIN Scanned(plan) /\ Scanned(plan)[k] = t
    BY DEF Range
  <2>2. Alias(plan, t) = k - 1
    BY DEF Alias
  <2>. HIDE DEF k
  <2>3. k \in Nat /\ k >= 1
    BY <1>5, <2>1, PlanTyped
  <2>4. (k - 1) + 1 = k /\ k - 1 \in Nat
    BY <2>3
  <2>. QED BY <2>1, <2>2, <2>4
<1>8. Range(Scanned(plan)) \subseteq Tables
  <2>1. \A i \in DOMAIN Scanned(plan) : Scanned(plan)[i] \in Tables
    BY <1>5
  <2>. QED BY <2>1 DEF Range
<1>. QED BY <1>5, <1>6, <1>7, <1>8

\* The tables to be isolated are those that are tagged.
LEMMA TenantTablesTagged ==
  ASSUME AsBound(plan)
  PROVE  /\ TenantTables(plan) \in Seq(Tables)
         /\ NeedsTenant(plan) =>
              Range(TenantTables(plan)) =
                {t \in Range(Scanned(plan)) : "tenant_scoped" \in Catalog[t].tags}
         /\ Range(TenantTables(plan)) \subseteq Range(Scanned(plan))
<1>. DEFINE Tagged == {t \in Tables : "tenant_scoped" \in Catalog[t].tags}
            One(t) == IF t \in Tagged THEN <<t>> ELSE <<>>
            ones == [i \in DOMAIN Scanned(plan) |-> One(Scanned(plan)[i])]
<1>1. CASE ~NeedsTenant(plan)
  <2>1. TenantTables(plan) = <<>>
    BY <1>1 DEF TenantTables
  <2>2. Range(<<>>) = {} /\ <<>> \in Seq(Tables)
    BY DEF Range
  <2>. QED BY <1>1, <2>1, <2>2
<1>2. CASE NeedsTenant(plan)
  <2>1. TenantTables(plan) = FlattenSeq(ones)
    BY <1>2 DEF TenantTables, Among
  <2>2. \A t \in Tables : One(t) \in Seq(Tables)
    OBVIOUS
  <2>3. \A t : Range(One(t)) = IF t \in Tagged THEN {t} ELSE {}
    BY DEF Range
  <2>4. /\ DOMAIN ones = DOMAIN Scanned(plan)
        /\ \A i \in DOMAIN Scanned(plan) : ones[i] = One(Scanned(plan)[i])
    OBVIOUS
  <2>. HIDE DEF One
  <2>5. ones \in Seq(Seq(Tables))
    <3>1. \A i \in 1..(Len(plan.joins) + 1) : One(Scanned(plan)[i]) \in Seq(Tables)
      BY <2>2, ScansNumbered
    <3>2. ones = [i \in 1..(Len(plan.joins) + 1) |-> One(Scanned(plan)[i])]
      BY ScansNumbered
    <3>. QED BY <3>1, <3>2, PlanTyped
  <2>. HIDE DEF ones
  <2>6. /\ FlattenSeq(ones) \in Seq(Tables)
        /\ Range(FlattenSeq(ones)) = UNION {Range(ones[i]) : i \in DOMAIN ones}
    BY <2>5, RangeOfFlatten
  <2>7. Range(FlattenSeq(ones)) =
          {t \in Range(Scanned(plan)) : "tenant_scoped" \in Catalog[t].tags}
    <3>1. Range(FlattenSeq(ones)) = UNION {Range(One(Scanned(plan)[i])) : i \in DOMAIN Scanned(plan)}
      BY <2>4, <2>6
    <3>2. Range(FlattenSeq(ones)) = UNION {Range(One(t)) : t \in Range(Scanned(plan))}
      BY <3>1 DEF Range
    <3>3. Range(FlattenSeq(ones)) = {t \in Range(Scanned(plan)) : t \in Tagged}
      BY <2>3, <3>2
    <3>. QED BY <3>3, ScansNumbered
  <2>. QED BY <1>2, <2>1, <2>6, <2>7
<1>. QED BY <1>1, <1>2

LEMMA ObligationsTyped ==
  ASSUME AsBound(plan)
  PROVE  /\ Len(plan.obligations) \in Nat
         /\ DOMAIN plan.obligations = 1..Len(plan.obligations)
         /\ \A i \in DOMAIN plan.obligations :
              plan.obligations[i].predicate \in Seq(Expressions)
         /\ \A o \in Range(plan.obligations) :
              o.placement \in {"before_aggregation", "after_aggregation"}
<1>. DEFINE Obligations == [rule : STRING, predicate : Seq(Expressions),
                            placement : {"before_aggregation", "after_aggregation"}]
            os == plan.obligations
<1>1. os \in Seq(Obligations)
  BY DEF AsBound
<1>2. \A o \in Obligations : /\ o.predicate \in Seq(Expressions)
                            /\ o.placement \in {"before_aggregation", "after_aggregation"}
  OBVIOUS
<1>. HIDE DEF Obligations, os
<1>3. Len(os) \in Nat /\ DOMAIN os = 1..Len(os) /\ \A i \in DOMAIN os : os[i] \in Obligations
  BY <1>1
<1>. QED BY <1>2, <1>3 DEF Range, os

\* The predicates of the obligations at one placement.
PlacedAt(placement) ==
  UNION {Range(o.predicate) : o \in {u \in Range(plan.obligations) : u.placement = placement}}

LEMMA ObligationsPlaced ==
  ASSUME AsBound(plan), NEW placement
  PROVE  /\ Placed(plan, placement) \in Seq(Expressions)
         /\ Range(Placed(plan, placement)) = PlacedAt(placement)
<1>. DEFINE os == plan.obligations
            Own(o) == IF o.placement = placement THEN o.predicate ELSE <<>>
            ps == [i \in DOMAIN os |-> Own(os[i])]
<1>2. /\ Len(os) \in Nat /\ DOMAIN os = 1..Len(os)
      /\ \A i \in DOMAIN os : os[i].predicate \in Seq(Expressions)
  BY ObligationsTyped
<1>3. ps \in Seq(Seq(Expressions))
  <2>1. \A i \in 1..Len(os) : Own(os[i]) \in Seq(Expressions)
    BY <1>2
  <2>. HIDE DEF Own, os
  <2>2. ps = [i \in 1..Len(os) |-> Own(os[i])]
    BY <1>2
  <2>. QED BY <1>2, <2>1, <2>2
<1>4. Placed(plan, placement) = FlattenSeq(ps)
  BY DEF Placed
<1>5. /\ DOMAIN ps = DOMAIN os
      /\ \A i \in DOMAIN os : ps[i] = Own(os[i])
  OBVIOUS
<1>. HIDE DEF ps
<1>6. /\ FlattenSeq(ps) \in Seq(Expressions)
      /\ Range(FlattenSeq(ps)) = UNION {Range(ps[i]) : i \in DOMAIN ps}
  BY <1>3, RangeOfFlatten
<1>7. UNION {Range(ps[i]) : i \in DOMAIN ps} = PlacedAt(placement)
  <2>1. Range(<<>>) = {}
    BY DEF Range
  <2>2. \A i \in DOMAIN os :
          Range(ps[i]) = IF os[i].placement = placement THEN Range(os[i].predicate) ELSE {}
    BY <1>5, <2>1
  <2>3. Range(os) = {os[i] : i \in DOMAIN os}
    BY DEF Range
  <2>. HIDE DEF os
  <2>4. PlacedAt(placement) =
          UNION {Range(o.predicate) : o \in {u \in Range(os) : u.placement = placement}}
    BY DEF PlacedAt, os
  <2>. QED BY <1>5, <2>2, <2>3, <2>4
<1>. QED BY <1>4, <1>6, <1>7

-----------------------------------------------------------------------------
(* Its predicates, and the columns they touch.                                *)

LEMMA OneColumn ==
  ASSUME NEW op \in Operators, NEW c \in Columns, NEW n \in {"p_tenant", "p_time_start", "p_time_end"}
  PROVE  /\ Predicate(op, <<c>>) \in Expressions
         /\ ColumnsIn(Predicate(op, <<c>>)) = {c}
         /\ Predicate(op, <<c, <<"parameter", n>>>>) \in Expressions
         /\ ColumnsIn(Predicate(op, <<c, <<"parameter", n>>>>)) = {c}
<1>. DEFINE p == <<"parameter", n>>
<1>1. p \in Bindings /\ p \notin Columns
  BY CatalogAssumption
<1>. HIDE DEF p
<1>2. <<c>> \in Seq(Columns \cup Bindings) /\ <<c, p>> \in Seq(Columns \cup Bindings)
  BY <1>1
<1>3. Range(<<c>>) = {c} /\ Range(<<c, p>>) = {c, p}
  BY DEF Range
<1>4. /\ Predicate(op, <<c>>) \in Expressions /\ Predicate(op, <<c, p>>) \in Expressions
      /\ Predicate(op, <<c>>).args = <<c>> /\ Predicate(op, <<c, p>>).args = <<c, p>>
  BY <1>2 DEF Predicate, Expressions
<1>5. ColumnsIn(Predicate(op, <<c>>)) = {c} /\ ColumnsIn(Predicate(op, <<c, p>>)) = {c}
  BY <1>1, <1>3, <1>4 DEF ColumnsIn
<1>. QED BY <1>4, <1>5 DEF p

\* Lowering finds a key for every table it isolates.
KeysFound == \A t \in Range(TenantTables(plan)) : Catalog[t].tenant_key # NoKey

Keys == {Catalog[t].tenant_key : t \in Range(TenantTables(plan))}

LEMMA KeysOfTables ==
  ASSUME AsBound(plan), KeysFound, NEW t \in Range(TenantTables(plan))
  PROVE  /\ t \in Tables
         /\ Catalog[t].tenant_key \in Columns /\ TableOf(Catalog[t].tenant_key) = t
<1>1. t \in Tables
  BY TenantTablesTagged, ScansNumbered
<1>2. Catalog[t].tenant_key # NoKey
  BY DEF KeysFound
<1>. QED BY <1>1, <1>2, CatalogAssumption

LEMMA TenantTouched ==
  ASSUME AsBound(plan), KeysFound
  PROVE  /\ TenantPredicates(plan) \in Seq(Expressions)
         /\ ColumnsOf(Range(TenantPredicates(plan))) = Keys
<1>. DEFINE ts == TenantTables(plan)
            Eq(t) == Predicate("eq", <<Catalog[t].tenant_key, <<"parameter", "p_tenant">>>>)
<1>1. Len(ts) \in Nat /\ DOMAIN ts = 1..Len(ts)
  BY TenantTablesTagged
<1>2. \A t \in Range(ts) : Eq(t) \in Expressions /\ ColumnsIn(Eq(t)) = {Catalog[t].tenant_key}
  <2>1. \A t \in Range(ts) : Catalog[t].tenant_key \in Columns
    BY KeysOfTables
  <2>2. "eq" \in Operators
    BY DEF Operators, Comparisons
  <2>. QED BY <2>1, <2>2, OneColumn
<1>3. TenantPredicates(plan) = [i \in 1..Len(ts) |-> Eq(ts[i])]
  BY <1>1 DEF TenantPredicates
<1>4. \A i \in 1..Len(ts) : ts[i] \in Range(ts)
  BY <1>1 DEF Range
<1>5. Range(ts) = {ts[i] : i \in 1..Len(ts)}
  BY <1>1 DEF Range
<1>. HIDE DEF Eq, ts
<1>6. TenantPredicates(plan) \in Seq(Expressions)
  BY <1>1, <1>2, <1>3, <1>4
<1>7. Range(TenantPredicates(plan)) = {Eq(t) : t \in Range(ts)}
  <2>1. Range(TenantPredicates(plan)) = {Eq(ts[i]) : i \in 1..Len(ts)}
    BY <1>3 DEF Range
  <2>. QED BY <1>5, <2>1
<1>8. ColumnsOf({Eq(t) : t \in Range(ts)}) = {Catalog[t].tenant_key : t \in Range(ts)}
  BY <1>2 DEF ColumnsOf
<1>. QED BY <1>6, <1>7, <1>8 DEF Keys, ts

Times == {t.column : t \in Range(plan.time)}

LEMMA TimeTouched ==
  ASSUME AsBound(plan)
  PROVE  /\ TimePredicates(plan) \in Seq(Expressions)
         /\ ColumnsOf(Range(TimePredicates(plan))) = Times
<1>1. CASE plan.time = <<>>
  <2>1. TimePredicates(plan) = <<>>
    BY <1>1 DEF TimePredicates
  <2>2. Range(<<>>) = {} /\ <<>> \in Seq(Expressions)
    BY DEF Range
  <2>. QED BY <1>1, <2>1, <2>2 DEF Times, ColumnsOf
<1>2. CASE plan.time # <<>>
  <2>1. PICK c \in Columns, b \in BOOLEAN : plan.time = <<[column |-> c, bucket |-> b]>>
    <3>1. plan.time \in {<<[column |-> c, bucket |-> b]>> : c \in Columns, b \in BOOLEAN}
      BY <1>2 DEF AsBound
    <3>. QED BY <3>1
  <2>. DEFINE p == Predicate("gte", <<c, <<"parameter", "p_time_start">>>>)
              q == Predicate("lt", <<c, <<"parameter", "p_time_end">>>>)
  <2>2. plan.time[1].column = c
    BY <2>1
  <2>3. TimePredicates(plan) = <<p, q>>
    BY <1>2, <2>2 DEF TimePredicates
  <2>4. p \in Expressions /\ q \in Expressions /\ ColumnsIn(p) = {c} /\ ColumnsIn(q) = {c}
    <3>1. "gte" \in Operators /\ "lt" \in Operators
      BY DEF Operators, Comparisons
    <3>. QED BY <3>1, OneColumn
  <2>. HIDE DEF p, q
  <2>5. <<p, q>> \in Seq(Expressions) /\ Range(<<p, q>>) = {p, q}
    BY <2>4 DEF Range
  <2>6. Times = {c}
    <3>1. Range(plan.time) = {[column |-> c, bucket |-> b]}
      BY <2>1 DEF Range
    <3>. QED BY <3>1 DEF Times
  <2>. QED BY <2>3, <2>4, <2>5, <2>6 DEF ColumnsOf
<1>. QED BY <1>1, <1>2

LEMMA WhereTouched ==
  ASSUME AsBound(plan), KeysFound
  PROVE  /\ Where(plan) \in Seq(Expressions)
         /\ Range(Where(plan)) =
              Range(TenantPredicates(plan)) \cup Range(TimePredicates(plan))
                \cup Range(plan.population) \cup PlacedAt("before_aggregation")
                \cup Range(plan.filters)
<1>. DEFINE a == TenantPredicates(plan)
            b == TimePredicates(plan)
            c == plan.population
            d == Placed(plan, "before_aggregation")
            e == plan.filters
<1>1. /\ a \in Seq(Expressions) /\ b \in Seq(Expressions) /\ c \in Seq(Expressions)
      /\ d \in Seq(Expressions) /\ e \in Seq(Expressions)
  BY TenantTouched, TimeTouched, ObligationsPlaced, PlanTyped DEF AsBound
<1>2. Where(plan) = a \o b \o c \o d \o e
  BY DEF Where
<1>3. Range(d) = PlacedAt("before_aggregation")
  BY ObligationsPlaced
<1>. HIDE DEF a, b, c, d, e
<1>. DEFINE ab == a \o b
            abc == ab \o c
            abcd == abc \o d
<1>4. ab \in Seq(Expressions) /\ Range(ab) = Range(a) \cup Range(b)
  BY <1>1, RangeOfConcat
<1>. HIDE DEF ab
<1>5. abc \in Seq(Expressions) /\ Range(abc) = Range(ab) \cup Range(c)
  BY <1>1, <1>4, RangeOfConcat
<1>. HIDE DEF abc
<1>6. abcd \in Seq(Expressions) /\ Range(abcd) = Range(abc) \cup Range(d)
  BY <1>1, <1>5, RangeOfConcat
<1>. HIDE DEF abcd
<1>7. abcd \o e \in Seq(Expressions) /\ Range(abcd \o e) = Range(abcd) \cup Range(e)
  BY <1>1, <1>6, RangeOfConcat
<1>8. Where(plan) = abcd \o e
  BY <1>2 DEF ab, abc, abcd
<1>9. Range(Where(plan)) = Range(a) \cup Range(b) \cup Range(c) \cup Range(d) \cup Range(e)
  BY <1>4, <1>5, <1>6, <1>7, <1>8
<1>. QED BY <1>3, <1>7, <1>8, <1>9 DEF a, b, c, e

\* What is grouped by are columns, none of them aggregated.
LEMMA GroupsTouched ==
  ASSUME AsBound(plan)
  PROVE  /\ Grouped(plan) \in Seq(Expressions) /\ Len(Grouped(plan)) = plan.grain
         /\ \A e \in Range(Grouped(plan)) :
              e.op \in {"column", "date_trunc"} /\ \E c \in Columns : e.args = <<c>>
         /\ Range(plan.dimensions) \subseteq ColumnsOf(Range(Grouped(plan)))
         /\ ColumnsOf(Range(Grouped(plan))) \subseteq Range(plan.dimensions) \cup Times
<1>. DEFINE ds == plan.dimensions
            bucketed == plan.time # <<>> /\ plan.time[1].bucket
            bucket == IF bucketed THEN <<Predicate("date_trunc", <<plan.time[1].column>>)>>
                      ELSE <<>>
            By(c) == Predicate("column", <<c>>)
            columns == [i \in DOMAIN ds |-> By(ds[i])]
<1>1. Grouped(plan) = bucket \o columns
  BY DEF Grouped
<1>2. /\ bucket \in Seq(Expressions) /\ Len(bucket) = IF bucketed THEN 1 ELSE 0
      /\ \A e \in Range(bucket) : /\ e.op = "date_trunc" /\ ColumnsIn(e) \subseteq Times
                                  /\ \E c \in Columns : e.args = <<c>>
  <2>1. CASE ~bucketed
    <3>1. bucket = <<>>
      BY <2>1
    <3>. HIDE DEF bucket
    <3>. QED BY <2>1, <3>1 DEF Range
  <2>2. CASE bucketed
    <3>. DEFINE c == plan.time[1].column
                e == Predicate("date_trunc", <<c>>)
    <3>1. c \in Columns /\ c \in Times
      <4>1. PICK x \in Columns, b \in BOOLEAN : plan.time = <<[column |-> x, bucket |-> b]>>
        <5>1. plan.time # <<>>
          BY <2>2
        <5>. HIDE DEF bucketed, bucket
        <5>2. plan.time \in {<<[column |-> x, bucket |-> b]>> : x \in Columns, b \in BOOLEAN}
          BY <5>1 DEF AsBound
        <5>. QED BY <5>2
      <4>. QED BY <4>1 DEF Times, Range
    <3>. HIDE DEF c
    <3>2. e \in Expressions /\ e.op = "date_trunc" /\ ColumnsIn(e) = {c} /\ e.args = <<c>>
      <4>1. "date_trunc" \in Operators /\ e.op = "date_trunc" /\ e.args = <<c>>
        BY DEF Predicate, Operators
      <4>. QED BY <3>1, <4>1, OneColumn
    <3>3. bucket = <<e>>
      BY <2>2 DEF c
    <3>. HIDE DEF bucket, e
    <3>4. Range(<<e>>) = {e} /\ <<e>> \in Seq(Expressions) /\ Len(<<e>>) = 1
      BY <3>2 DEF Range
    <3>. QED BY <2>2, <3>1, <3>2, <3>3, <3>4
  <2>. QED BY <2>1, <2>2
<1>3. ds \in Seq(Columns)
  BY DEF AsBound
<1>4. Len(ds) \in Nat /\ DOMAIN ds = 1..Len(ds) /\ \A i \in DOMAIN ds : ds[i] \in Columns
  BY <1>3
<1>5. \A c \in Columns : /\ By(c) \in Expressions /\ By(c).op = "column" /\ ColumnsIn(By(c)) = {c}
                         /\ By(c).args = <<c>>
  <2>1. "column" \in Operators /\ \A c : By(c).op = "column" /\ By(c).args = <<c>>
    BY DEF Predicate, Operators
  <2>. QED BY <2>1, OneColumn
<1>6. columns = [i \in 1..Len(ds) |-> By(ds[i])]
  BY <1>4
<1>7. plan.grain = Len(ds) + (IF bucketed THEN 1 ELSE 0)
  BY DEF AsBound
<1>. HIDE DEF bucket, bucketed, By, ds
<1>8. columns \in Seq(Expressions) /\ Len(columns) = Len(ds)
  BY <1>4, <1>5, <1>6
<1>9. Range(columns) = {By(c) : c \in Range(ds)} /\ Range(ds) \subseteq Columns
  BY <1>4, <1>6 DEF Range
<1>. HIDE DEF columns
<1>10. /\ bucket \o columns \in Seq(Expressions)
       /\ Len(bucket \o columns) = Len(bucket) + Len(columns)
       /\ Range(bucket \o columns) = Range(bucket) \cup Range(columns)
  <2>1. /\ bucket \o columns \in Seq(Expressions)
        /\ Len(bucket \o columns) = Len(bucket) + Len(columns)
    <3>1. bucket \in Seq(Expressions) /\ columns \in Seq(Expressions)
      BY <1>2, <1>8
    <3>. QED BY <3>1
  <2>2. Range(bucket \o columns) = Range(bucket) \cup Range(columns)
    <3>1. bucket \in Seq(Expressions) /\ columns \in Seq(Expressions)
      BY <1>2, <1>8
    <3>. QED BY <3>1, RangeOfConcat
  <2>. QED BY <2>1, <2>2
<1>11. \A e \in Range(Grouped(plan)) :
         e.op \in {"column", "date_trunc"} /\ \E c \in Columns : e.args = <<c>>
  BY <1>1, <1>2, <1>5, <1>9, <1>10
<1>12. ColumnsOf(Range(columns)) = Range(ds)
  BY <1>5, <1>9 DEF ColumnsOf
<1>13. ColumnsOf(Range(bucket)) \subseteq Times
  BY <1>2 DEF ColumnsOf
<1>14. Len(Grouped(plan)) = plan.grain
  BY <1>1, <1>2, <1>4, <1>7, <1>8, <1>10
<1>15. ColumnsOf(Range(Grouped(plan))) = ColumnsOf(Range(bucket)) \cup ColumnsOf(Range(columns))
  BY <1>1, <1>10, ColumnsOfParts
<1>. QED BY <1>1, <1>10, <1>11, <1>12, <1>13, <1>14, <1>15 DEF ds

-----------------------------------------------------------------------------
(* The logical plan as a whole.                                               *)

\* The conditions of the joins.
Conditions == UNION {Range(Relationships[j.rel].predicates) : j \in Range(plan.joins)}

LEMMA JoinsLowered ==
  ASSUME AsBound(plan), NEW lp, lp = Lower(plan)
  PROVE  /\ Len(lp.joins) = Len(plan.joins) /\ DOMAIN lp.joins = 1..Len(plan.joins)
         /\ \A i \in 1..Len(plan.joins) :
              /\ lp.joins[i].rel = plan.joins[i].rel /\ lp.joins[i].to = plan.joins[i].to
              /\ lp.joins[i].preserves = plan.joins[i].preserves
              /\ lp.joins[i].predicates = Relationships[plan.joins[i].rel].predicates
              /\ lp.joins[i].type = Relationships[plan.joins[i].rel].type
<1>. DEFINE One(j) == [rel |-> j.rel, to |-> j.to, type |-> Relationships[j.rel].type,
                       preserves |-> j.preserves,
                       predicates |-> Relationships[j.rel].predicates]
<1>1. lp.joins = [i \in DOMAIN plan.joins |-> One(plan.joins[i])]
  BY DEF Lower
<1>2. \A j : /\ One(j).rel = j.rel /\ One(j).to = j.to /\ One(j).preserves = j.preserves
             /\ One(j).predicates = Relationships[j.rel].predicates
             /\ One(j).type = Relationships[j.rel].type
  OBVIOUS
<1>. HIDE DEF One
<1>3. Len(plan.joins) \in Nat /\ DOMAIN plan.joins = 1..Len(plan.joins)
  BY PlanTyped
<1>4. Len(lp.joins) = Len(plan.joins) /\ DOMAIN lp.joins = 1..Len(plan.joins)
  BY <1>1, <1>3
<1>. QED BY <1>1, <1>2, <1>3, <1>4

LEMMA ConditionsCompiled ==
  ASSUME AsBound(plan), NEW lp, lp = Lower(plan)
  PROVE  LET es == FlattenSeq([i \in DOMAIN lp.joins |-> lp.joins[i].predicates]) IN
         es \in Seq(Expressions) /\ Range(es) = Conditions
<1>. DEFINE ps == [i \in DOMAIN lp.joins |-> lp.joins[i].predicates]
            Of(j) == Relationships[j.rel].predicates
<1>1. ps = [i \in 1..Len(plan.joins) |-> Of(plan.joins[i])]
  BY JoinsLowered
<1>2. /\ Len(plan.joins) \in Nat
      /\ \A i \in 1..Len(plan.joins) : Of(plan.joins[i]) \in Seq(Expressions)
  BY PlanTyped
<1>. HIDE DEF ps, Of
<1>3. ps \in Seq(Seq(Expressions)) /\ DOMAIN ps = 1..Len(plan.joins)
  BY <1>1, <1>2
<1>4. /\ FlattenSeq(ps) \in Seq(Expressions)
      /\ Range(FlattenSeq(ps)) = UNION {Range(ps[i]) : i \in DOMAIN ps}
  BY <1>3, RangeOfFlatten
<1>5. UNION {Range(ps[i]) : i \in DOMAIN ps} = Conditions
  <2>1. Range(plan.joins) = {plan.joins[i] : i \in 1..Len(plan.joins)}
    BY PlanTyped DEF Range
  <2>2. Conditions = UNION {Range(Of(j)) : j \in Range(plan.joins)}
    BY DEF Conditions, Of
  <2>3. {Range(ps[i]) : i \in DOMAIN ps} = {Range(Of(plan.joins[i])) : i \in 1..Len(plan.joins)}
    BY <1>1, <1>3
  <2>4. {Range(Of(j)) : j \in Range(plan.joins)}
          = {Range(Of(plan.joins[i])) : i \in 1..Len(plan.joins)}
    BY <2>1
  <2>. QED BY <2>2, <2>3, <2>4
<1>. QED BY <1>4, <1>5 DEF ps

LEMMA ClausesTouched ==
  ASSUME AsBound(plan), KeysFound
  PROVE  /\ Clauses(Lower(plan)) \in Seq(Expressions)
         /\ Range(Clauses(Lower(plan))) =
              Conditions \cup Range(Where(plan)) \cup PlacedAt("after_aggregation")
<1>. DEFINE lp == Lower(plan)
            on == FlattenSeq([i \in DOMAIN lp.joins |-> lp.joins[i].predicates])
            where == Where(plan)
            having == Placed(plan, "after_aggregation")
            both == on \o where
<1>1. lp.where = where /\ lp.having = having
  BY DEF Lower
<1>2. Clauses(lp) = both \o having
  BY <1>1 DEF Clauses
<1>3. on \in Seq(Expressions) /\ Range(on) = Conditions
  BY ConditionsCompiled
<1>4. /\ where \in Seq(Expressions) /\ having \in Seq(Expressions)
      /\ Range(having) = PlacedAt("after_aggregation")
  BY WhereTouched, ObligationsPlaced
<1>. HIDE DEF lp, on, where, having
<1>5. both \in Seq(Expressions) /\ Range(both) = Range(on) \cup Range(where)
  BY <1>3, <1>4, RangeOfConcat
<1>. HIDE DEF both
<1>6. /\ both \o having \in Seq(Expressions)
      /\ Range(both \o having) = Range(both) \cup Range(having)
  BY <1>4, <1>5, RangeOfConcat
<1>. QED BY <1>2, <1>3, <1>4, <1>5, <1>6 DEF lp, where

\* The compiler meets the columns of the measure and those the answer depends on.
LEMMA ReferencedTouched ==
  ASSUME AsBound(plan), KeysFound
  PROVE  Referenced(Lower(plan)) = ColumnsIn(plan.measure) \cup Touched
<1>. DEFINE lp == Lower(plan)
            Ruled == UNION {AllColumnsIn(o.predicate) : o \in Range(plan.obligations)}
            Joined == UNION {AllColumnsIn(Relationships[j.rel].predicates) : j \in Range(plan.joins)}
            own == ColumnsOf(Range(plan.population)) \cup ColumnsOf(Range(plan.filters))
            groups == ColumnsOf(Range(Grouped(plan)))
            dims == Range(plan.dimensions)
<1>1. lp.measure = plan.measure /\ lp.group = Grouped(plan)
  BY DEF Lower
<1>2. Referenced(lp) = ColumnsIn(plan.measure) \cup groups \cup ColumnsOf(Range(Clauses(lp)))
  BY <1>1, ColumnsOfParts DEF Referenced
<1>3. AllColumnsIn(plan.population \o plan.filters) = own
  <2>1. plan.population \in Seq(Expressions) /\ plan.filters \in Seq(Expressions)
    BY PlanTyped DEF AsBound
  <2>2. Range(plan.population \o plan.filters) = Range(plan.population) \cup Range(plan.filters)
    BY <2>1, RangeOfConcat
  <2>. QED BY <2>2, ColumnsOfParts
<1>4. Touched = own \cup Ruled \cup Joined \cup dims \cup Times \cup Keys
  <2>1. Touched = AllColumnsIn(plan.population \o plan.filters)
                    \cup Ruled \cup Joined \cup dims \cup Times \cup Keys
    BY DEF Touched, Times, Keys
  <2>. HIDE DEF own, Ruled, Joined, dims
  <2>. QED BY <1>3, <2>1
<1>5. ColumnsOf(PlacedAt("before_aggregation")) \cup ColumnsOf(PlacedAt("after_aggregation")) = Ruled
  <2>1. \A o \in Range(plan.obligations) :
          o.placement \in {"before_aggregation", "after_aggregation"}
    BY ObligationsTyped
  <2>2. \A o : AllColumnsIn(o.predicate) = ColumnsOf(Range(o.predicate))
    BY ColumnsOfParts
  <2>. QED BY <2>1, <2>2 DEF PlacedAt, ColumnsOf
<1>6. ColumnsOf(Conditions) = Joined
  BY DEF Conditions, ColumnsOf, AllColumnsIn
<1>7. ColumnsOf(Range(Where(plan))) =
        Keys \cup Times \cup own \cup ColumnsOf(PlacedAt("before_aggregation"))
  <2>. DEFINE A == Range(TenantPredicates(plan))
              B == Range(TimePredicates(plan))
              C == Range(plan.population)
              D == PlacedAt("before_aggregation")
              F == Range(plan.filters)
  <2>1. Range(Where(plan)) = A \cup B \cup C \cup D \cup F
    BY WhereTouched
  <2>2. ColumnsOf(A) = Keys /\ ColumnsOf(B) = Times
    BY TenantTouched, TimeTouched
  <2>3. own = ColumnsOf(C) \cup ColumnsOf(F)
    OBVIOUS
  <2>. HIDE DEF A, B, C, D, F, own
  <2>4. ColumnsOf(A \cup B \cup C \cup D \cup F) =
          ColumnsOf(A) \cup ColumnsOf(B) \cup ColumnsOf(C) \cup ColumnsOf(D) \cup ColumnsOf(F)
    BY DEF ColumnsOf
  <2>. QED BY <2>1, <2>2, <2>3, <2>4 DEF D
<1>8. ColumnsOf(Range(Clauses(lp))) =
        Joined \cup ColumnsOf(Range(Where(plan))) \cup ColumnsOf(PlacedAt("after_aggregation"))
  <2>. DEFINE B == Range(Where(plan))
              D == PlacedAt("after_aggregation")
  <2>1. Range(Clauses(lp)) = Conditions \cup B \cup D
    BY ClausesTouched
  <2>. HIDE DEF B, D, Joined
  <2>2. ColumnsOf(Conditions \cup B \cup D) = ColumnsOf(Conditions) \cup ColumnsOf(B) \cup ColumnsOf(D)
    BY DEF ColumnsOf
  <2>. QED BY <1>6, <2>1, <2>2 DEF B, D
<1>9. dims \subseteq groups /\ groups \subseteq dims \cup Times
  BY GroupsTouched
<1>. HIDE DEF lp, Ruled, Joined, own, groups, dims
<1>10. Referenced(lp) = ColumnsIn(plan.measure) \cup Touched
  BY <1>2, <1>4, <1>5, <1>7, <1>8, <1>9
<1>. QED BY <1>10 DEF lp

-----------------------------------------------------------------------------
(* The text, read again.                                                      *)

LEMMA RelationsWritten ==
  ASSUME AsBound(plan), NEW lp, lp = Lower(plan), NEW text, text = Text(lp)
  PROVE  /\ Len(text.relations) = Len(plan.joins) + 1
         /\ DOMAIN text.relations = 1..Len(plan.joins) + 1
         /\ \A i \in DOMAIN Scanned(plan) : text.relations[i].table = Scanned(plan)[i]
         /\ text.relations[1].on = <<>> /\ text.relations[1].type = "from"
         /\ \A i \in 1..Len(plan.joins) :
              /\ text.relations[i + 1].on =
                   AllWritten(lp, Relationships[plan.joins[i].rel].predicates)
              /\ text.relations[i + 1].type = Relationships[plan.joins[i].rel].type
<1>. DEFINE first == [table |-> lp.base, type |-> "from", on |-> <<>>]
            One(j) == [table |-> j.to, type |-> j.type, on |-> AllWritten(lp, j.predicates)]
            rest == [i \in DOMAIN lp.joins |-> One(lp.joins[i])]
            All == {first} \cup {One(lp.joins[i]) : i \in DOMAIN lp.joins}
<1>1. text.relations = <<first>> \o rest
  BY DEF Text
<1>2. first.table = plan.base /\ first.on = <<>> /\ first.type = "from"
  BY DEF Lower
<1>3. \A j : One(j).table = j.to /\ One(j).on = AllWritten(lp, j.predicates) /\ One(j).type = j.type
  OBVIOUS
<1>4. Len(plan.joins) \in Nat /\ DOMAIN lp.joins = 1..Len(plan.joins)
  BY PlanTyped, JoinsLowered
<1>5. <<first>> \in Seq(All) /\ Len(<<first>>) = 1 /\ <<first>>[1] = first
  OBVIOUS
<1>6. /\ \A i \in 1..Len(plan.joins) : One(lp.joins[i]) \in All
      /\ rest = [i \in 1..Len(plan.joins) |-> One(lp.joins[i])]
  BY <1>4
<1>. HIDE DEF first, One, All
<1>7. /\ rest \in Seq(All) /\ Len(rest) = Len(plan.joins)
      /\ \A i \in 1..Len(plan.joins) : rest[i] = One(lp.joins[i])
  BY <1>4, <1>6
<1>. HIDE DEF rest
<1>8. /\ Len(text.relations) = Len(plan.joins) + 1
      /\ DOMAIN text.relations = 1..Len(plan.joins) + 1
      /\ text.relations[1] = first
      /\ \A i \in 1..Len(plan.joins) : text.relations[i + 1] = One(lp.joins[i])
  BY <1>1, <1>4, <1>5, <1>7
<1>9. \A i \in 1..Len(plan.joins) :
        /\ text.relations[i + 1].table = plan.joins[i].to
        /\ text.relations[i + 1].on = AllWritten(lp, Relationships[plan.joins[i].rel].predicates)
        /\ text.relations[i + 1].type = Relationships[plan.joins[i].rel].type
  <2>1. \A i \in 1..Len(plan.joins) :
          /\ text.relations[i + 1].table = lp.joins[i].to
          /\ text.relations[i + 1].on = AllWritten(lp, lp.joins[i].predicates)
          /\ text.relations[i + 1].type = lp.joins[i].type
    BY <1>3, <1>8
  <2>2. \A i \in 1..Len(plan.joins) :
          /\ lp.joins[i].to = plan.joins[i].to
          /\ lp.joins[i].predicates = Relationships[plan.joins[i].rel].predicates
          /\ lp.joins[i].type = Relationships[plan.joins[i].rel].type
    BY JoinsLowered
  <2>. QED BY <2>1, <2>2
<1>10. ASSUME NEW i \in DOMAIN Scanned(plan) PROVE text.relations[i].table = Scanned(plan)[i]
  <2>1. CASE i = 1
    BY <1>2, <1>8, <2>1, ScansNumbered
  <2>2. CASE i # 1
    <3>1. i - 1 \in 1..Len(plan.joins) /\ (i - 1) + 1 = i
      BY <1>4, <2>2, ScansNumbered
    <3>2. text.relations[(i - 1) + 1].table = plan.joins[i - 1].to
      BY <1>9, <3>1
    <3>3. i - 1 \in DOMAIN plan.joins
      BY <3>1, PlanTyped
    <3>4. Scanned(plan)[(i - 1) + 1] = plan.joins[i - 1].to
      BY <3>3, ScansNumbered
    <3>. QED BY <3>1, <3>2, <3>4
  <2>. QED BY <2>1, <2>2
<1>. QED BY <1>2, <1>8, <1>9, <1>10

\* A term denotes the column it was written for.
LEMMA TermsDenote ==
  ASSUME AsBound(plan), NEW lp, lp = Lower(plan), NEW x
  PROVE  /\ x \notin Columns => Term(lp, x) = Placeholder
         /\ x \in Columns /\ TableOf(x) \in Range(Scanned(plan)) =>
              /\ Term(lp, x).alias \in Nat /\ ColumnId(Text(lp), Term(lp, x)) = x
              /\ Term(lp, x) = Ref(Term(lp, x).alias, x[2])
<1>1. x \notin Columns => Term(lp, x) = Placeholder
  BY DEF Term
<1>2. ASSUME x \in Columns, TableOf(x) \in Range(Scanned(plan))
      PROVE  /\ Term(lp, x).alias \in Nat /\ ColumnId(Text(lp), Term(lp, x)) = x
             /\ Term(lp, x) = Ref(Term(lp, x).alias, x[2])
  <2>. DEFINE a == Alias(plan, TableOf(x))
  <2>1. lp.alias[TableOf(x)] = a
    BY <1>2 DEF Lower
  <2>2. Term(lp, x) = Ref(a, x[2])
    BY <1>2, <2>1 DEF Term
  <2>3. Term(lp, x).alias = a /\ Term(lp, x).name = x[2]
    BY <2>2 DEF Ref
  <2>4. /\ a \in Nat /\ a + 1 \in DOMAIN Scanned(plan)
        /\ Scanned(plan)[a + 1] = TableOf(x)
    BY <1>2, ScansNumbered
  <2>. HIDE DEF a
  <2>5. Text(lp).relations[a + 1].table = TableOf(x)
    BY <2>4, RelationsWritten
  <2>6. x = <<TableOf(x), x[2]>>
    BY <1>2, CatalogAssumption DEF TableOf
  <2>7. ColumnId(Text(lp), Term(lp, x)) = <<TableOf(x), x[2]>>
    BY <2>3, <2>5 DEF ColumnId
  <2>. QED BY <2>2, <2>3, <2>4, <2>6, <2>7
<1>. QED BY <1>1, <1>2

\* The columns of what was written are those of what it was written for.
LEMMA ReadBack ==
  ASSUME AsBound(plan), NEW lp, lp = Lower(plan), NEW E, NEW ws,
         Range(ws) = {Written(lp, e) : e \in E},
         \A c \in ColumnsOf(E) : TableOf(c) \in Range(Scanned(plan))
  PROVE  TextColumns(Text(lp), ws) = ColumnsOf(E)
<1>1. \A e : Range(Written(lp, e).args) = {Term(lp, y) : y \in Range(e.args)}
  <2>. SUFFICES ASSUME NEW e
                PROVE  Range(Written(lp, e).args) = {Term(lp, y) : y \in Range(e.args)}
    OBVIOUS
  <2>1. Written(lp, e).args = [i \in DOMAIN e.args |-> Term(lp, e.args[i])]
    BY DEF Written, Predicate
  <2>. QED BY <2>1 DEF Range
<1>2. ASSUME NEW c \in TextColumns(Text(lp), ws) PROVE c \in ColumnsOf(E)
  <2>1. PICK e \in E : \E x \in Range(Written(lp, e).args) :
          x.alias >= 0 /\ c = ColumnId(Text(lp), x)
    BY DEF TextColumns, Refs
  <2>2. PICK y \in Range(e.args) :
          Term(lp, y).alias >= 0 /\ c = ColumnId(Text(lp), Term(lp, y))
    <3>1. Range(Written(lp, e).args) = {Term(lp, y) : y \in Range(e.args)}
      BY <1>1
    <3>2. PICK x \in Range(Written(lp, e).args) : x.alias >= 0 /\ c = ColumnId(Text(lp), x)
      BY <2>1
    <3>3. PICK y \in Range(e.args) : x = Term(lp, y)
      BY <3>1, <3>2
    <3>. QED BY <3>2, <3>3
  <2>3. y \in Columns
    <3>1. ~(Placeholder.alias >= 0)
      BY DEF Placeholder, Ref
    <3>. QED BY <2>2, <3>1, TermsDenote
  <2>4. y \in ColumnsOf(E)
    BY <2>3 DEF ColumnsOf, ColumnsIn
  <2>. QED BY <2>2, <2>3, <2>4, TermsDenote
<1>3. ASSUME NEW c \in ColumnsOf(E) PROVE c \in TextColumns(Text(lp), ws)
  <2>1. PICK e \in E : c \in Range(e.args) /\ c \in Columns
    BY DEF ColumnsOf, ColumnsIn
  <2>2. /\ Term(lp, c) \in Range(Written(lp, e).args)
        /\ Term(lp, c).alias \in Nat /\ ColumnId(Text(lp), Term(lp, c)) = c
    BY <1>1, <2>1, TermsDenote
  <2>3. Term(lp, c).alias >= 0 /\ Written(lp, e) \in Range(ws)
    BY <2>2
  <2>. QED BY <2>2, <2>3 DEF TextColumns, Refs
<1>. QED BY <1>2, <1>3

LEMMA TermsRead ==
  ASSUME AsBound(plan), NEW lp, lp = Lower(plan), NEW E, NEW ws,
         Range(ws) = {Written(lp, e) : e \in E},
         NEW c \in ColumnsOf(E), TableOf(c) \in Range(Scanned(plan))
  PROVE  Term(lp, c) \in Refs(ws)
<1>1. PICK e \in E : c \in Range(e.args) /\ c \in Columns
  BY DEF ColumnsOf, ColumnsIn
<1>2. PICK i \in DOMAIN e.args : e.args[i] = c
  BY <1>1 DEF Range
<1>3. Written(lp, e).args = [k \in DOMAIN e.args |-> Term(lp, e.args[k])]
  BY DEF Written, Predicate
<1>4. Term(lp, c) \in Range(Written(lp, e).args)
  BY <1>2, <1>3 DEF Range
<1>5. Term(lp, c).alias \in Nat
  BY <1>1, TermsDenote
<1>6. Term(lp, c).alias >= 0 /\ Written(lp, e) \in Range(ws)
  BY <1>1, <1>5
<1>. QED BY <1>4, <1>6 DEF Refs

LEMMA WrittenInOrder ==
  ASSUME NEW lp, NEW es \in Seq(Expressions)
  PROVE  /\ AllWritten(lp, es) \in Seq({Written(lp, e) : e \in Expressions})
         /\ Len(AllWritten(lp, es)) = Len(es) /\ DOMAIN AllWritten(lp, es) = DOMAIN es
         /\ \A i \in DOMAIN es : AllWritten(lp, es)[i] = Written(lp, es[i])
         /\ Range(AllWritten(lp, es)) = {Written(lp, e) : e \in Range(es)}
<1>. DEFINE Ws == {Written(lp, e) : e \in Expressions}
<1>1. /\ Len(es) \in Nat /\ DOMAIN es = 1..Len(es) /\ \A i \in 1..Len(es) : es[i] \in Expressions
  OBVIOUS
<1>2. AllWritten(lp, es) = [i \in 1..Len(es) |-> Written(lp, es[i])]
  BY <1>1 DEF AllWritten
<1>3. \A i \in 1..Len(es) : Written(lp, es[i]) \in Ws
  BY <1>1
<1>. HIDE DEF Ws
<1>4. AllWritten(lp, es) \in Seq(Ws) /\ Len(AllWritten(lp, es)) = Len(es)
  BY <1>1, <1>2, <1>3
<1>5. Range(AllWritten(lp, es)) = {Written(lp, es[i]) : i \in 1..Len(es)}
  BY <1>2 DEF Range
<1>6. Range(es) = {es[i] : i \in 1..Len(es)}
  BY <1>1 DEF Range
<1>. QED BY <1>1, <1>2, <1>4, <1>5, <1>6 DEF Ws

\* A plan that was lowered and compiled.
Compiled(lp) ==
  /\ AsBound(plan) /\ Lowers(plan, closed.discover)
  /\ lp = Lower(plan) /\ Compiles(lp, Supplied) /\ Conditioned(lp)

\* Whatever the text refers to is scanned.
LEMMA ColumnsScanned ==
  ASSUME NEW lp, Compiled(lp)
  PROVE  /\ KeysFound /\ DOMAIN lp.alias = Range(Scanned(plan))
         /\ lp.where = Where(plan) /\ lp.having = Placed(plan, "after_aggregation")
         /\ lp.group = Grouped(plan) /\ lp.measure = plan.measure
         /\ \A c \in Referenced(lp) : TableOf(c) \in Range(Scanned(plan))
<1>1. KeysFound
  BY DEF Compiled, Lowers, KeysFound
<1>2. /\ DOMAIN lp.alias = Range(Scanned(plan))
      /\ lp.where = Where(plan) /\ lp.having = Placed(plan, "after_aggregation")
      /\ lp.group = Grouped(plan) /\ lp.measure = plan.measure
  BY DEF Compiled, Lower
<1>. QED BY <1>1, <1>2 DEF Compiled, Compiles

\* The predicates that are read in the text are those that were compiled.
LEMMA ClausesRead ==
  ASSUME NEW lp, Compiled(lp)
  PROVE  /\ TextClauses(Text(lp)) \in Seq({Written(lp, e) : e \in Expressions})
         /\ Range(TextClauses(Text(lp))) = {Written(lp, e) : e \in Range(Clauses(lp))}
<1>. DEFINE text == Text(lp)
            Ws == {Written(lp, e) : e \in Expressions}
            Wr(E) == {Written(lp, e) : e \in E}
            ons == [i \in DOMAIN text.relations |-> text.relations[i].on]
            Of(j) == Relationships[j.rel].predicates
            n == Len(plan.joins)
<1>1. /\ n \in Nat /\ Len(text.relations) = n + 1 /\ DOMAIN text.relations = 1..n + 1
      /\ ons[1] = <<>>
      /\ \A i \in 1..n : /\ ons[i + 1] = AllWritten(lp, Of(plan.joins[i]))
                         /\ Of(plan.joins[i]) \in Seq(Expressions)
  <2>1. /\ n \in Nat /\ Len(text.relations) = n + 1 /\ DOMAIN text.relations = 1..n + 1
        /\ text.relations[1].on = <<>>
        /\ \A i \in 1..n : text.relations[i + 1].on = AllWritten(lp, Of(plan.joins[i]))
    BY RelationsWritten, PlanTyped DEF Compiled
  <2>2. \A i \in 1..n : Of(plan.joins[i]) \in Seq(Expressions)
    BY PlanTyped DEF Compiled
  <2>. HIDE DEF text, Of, n
  <2>3. 1 \in 1..n + 1 /\ \A i \in 1..n : i + 1 \in 1..n + 1
    BY <2>1
  <2>. QED BY <2>1, <2>2, <2>3
<1>2. /\ text.where = AllWritten(lp, lp.where) /\ text.having = AllWritten(lp, lp.having)
      /\ TextClauses(text) = FlattenSeq(ons) \o text.where \o text.having
  BY DEF Text, TextClauses
<1>3. /\ lp.where \in Seq(Expressions) /\ lp.having \in Seq(Expressions)
      /\ Range(Clauses(lp)) = Conditions \cup Range(lp.where) \cup Range(lp.having)
  BY ColumnsScanned, WhereTouched, ObligationsPlaced, ClausesTouched DEF Compiled
<1>4. DOMAIN ons = 1..n + 1 /\ ons = [i \in 1..n + 1 |-> ons[i]]
  BY <1>1
<1>5. Conditions = UNION {Range(Of(plan.joins[i])) : i \in 1..n}
  <2>1. Range(plan.joins) = {plan.joins[i] : i \in 1..n}
    BY PlanTyped DEF Range, Compiled
  <2>2. {Range(Of(j)) : j \in Range(plan.joins)} = {Range(Of(plan.joins[i])) : i \in 1..n}
    BY <2>1
  <2>. QED BY <2>2 DEF Conditions
<1>. HIDE DEF text, ons, Of, n
<1>6. \A i \in 1..n : /\ ons[i + 1] \in Seq(Ws)
                      /\ Range(ons[i + 1]) = Wr(Range(Of(plan.joins[i])))
  BY <1>1, WrittenInOrder
<1>7. <<>> \in Seq(Ws) /\ Range(<<>>) = {}
  BY DEF Range
<1>8. \A i \in 1..n + 1 : i = 1 \/ (i - 1 \in 1..n /\ (i - 1) + 1 = i)
  BY <1>1
<1>. HIDE DEF Ws
<1>9. \A i \in 1..n + 1 : ons[i] \in Seq(Ws)
  BY <1>1, <1>6, <1>7, <1>8
<1>10. ons \in Seq(Seq(Ws))
  BY <1>1, <1>4, <1>9
<1>11. FlattenSeq(ons) \in Seq(Ws) /\ Range(FlattenSeq(ons)) = UNION {Range(ons[i]) : i \in 1..n + 1}
  BY <1>4, <1>10, RangeOfFlatten
<1>12. UNION {Range(ons[i]) : i \in 1..n + 1} = Wr(Conditions)
  <2>1. ASSUME NEW i \in 1..n + 1, NEW w \in Range(ons[i]) PROVE w \in Wr(Conditions)
    <3>1. i - 1 \in 1..n /\ (i - 1) + 1 = i
      BY <1>1, <1>7, <1>8, <2>1
    <3>2. w \in Wr(Range(Of(plan.joins[i - 1])))
      BY <1>6, <2>1, <3>1
    <3>. QED BY <1>5, <3>1, <3>2
  <2>2. ASSUME NEW e \in Conditions PROVE \E i \in 1..n + 1 : Written(lp, e) \in Range(ons[i])
    <3>1. PICK i \in 1..n : e \in Range(Of(plan.joins[i]))
      BY <1>5
    <3>2. i + 1 \in 1..n + 1 /\ Written(lp, e) \in Range(ons[i + 1])
      <4>1. i + 1 \in 1..n + 1
        BY <1>1
      <4>2. Range(ons[i + 1]) = Wr(Range(Of(plan.joins[i])))
        BY <1>6
      <4>. QED BY <3>1, <4>1, <4>2
    <3>. QED BY <3>2
  <2>. QED BY <2>1, <2>2
<1>13. /\ text.where \in Seq(Ws) /\ text.having \in Seq(Ws)
       /\ Range(text.where) = Wr(Range(lp.where)) /\ Range(text.having) = Wr(Range(lp.having))
  <2>1. \A es \in Seq(Expressions) :
          AllWritten(lp, es) \in Seq(Ws) /\ Range(AllWritten(lp, es)) = Wr(Range(es))
    BY WrittenInOrder DEF Ws
  <2>. HIDE DEF Wr
  <2>. QED BY <1>2, <1>3, <2>1
<1>. DEFINE both == FlattenSeq(ons) \o text.where
<1>14. both \in Seq(Ws) /\ Range(both) = Range(FlattenSeq(ons)) \cup Range(text.where)
  BY <1>11, <1>13, RangeOfConcat
<1>15. TextClauses(text) = both \o text.having
  BY <1>2
<1>. HIDE DEF both
<1>16. /\ both \o text.having \in Seq(Ws)
       /\ Range(both \o text.having) = Range(both) \cup Range(text.having)
  BY <1>13, <1>14, RangeOfConcat
<1>17. Range(TextClauses(text)) = Wr(Conditions) \cup Wr(Range(lp.where)) \cup Wr(Range(lp.having))
  BY <1>11, <1>12, <1>13, <1>14, <1>15, <1>16
<1>18. Wr(Range(Clauses(lp))) = Wr(Conditions) \cup Wr(Range(lp.where)) \cup Wr(Range(lp.having))
  BY <1>3
<1>. QED BY <1>15, <1>16, <1>17, <1>18 DEF Ws, text

-----------------------------------------------------------------------------
(* The gates, one group after the other.                                      *)

LEMMA ItemsWritten ==
  ASSUME NEW lp, Compiled(lp)
  PROVE  /\ Len(lp.group) \in Nat /\ Len(Text(lp).group) = Len(lp.group)
         /\ DOMAIN Text(lp).items = 1..Len(lp.group) + 1
         /\ \A i \in 1..Len(lp.group) : Text(lp).items[i].op \in {"column", "date_trunc"}
         /\ Text(lp).items[Len(lp.group) + 1].op = plan.measure.op
         /\ Text(lp).items \in Seq({Written(lp, e) : e \in Expressions})
         /\ Text(lp).group \in Seq({Written(lp, e) : e \in Expressions})
         /\ Range(Text(lp).items) = {Written(lp, e) : e \in Range(lp.group) \cup {plan.measure}}
         /\ Range(Text(lp).group) = {Written(lp, e) : e \in Range(lp.group)}
<1>. DEFINE es == Append(lp.group, lp.measure)
            n == Len(lp.group)
            text == Text(lp)
<1>1. /\ lp.group \in Seq(Expressions) /\ lp.measure = plan.measure
      /\ \A e \in Range(lp.group) : e.op \in {"column", "date_trunc"}
  BY ColumnsScanned, GroupsTouched DEF Compiled
<1>2. plan.measure \in Expressions
  BY PlanTyped DEF Compiled
<1>3. text.items = AllWritten(lp, es) /\ text.group = AllWritten(lp, lp.group)
  BY DEF Text
<1>4. /\ n \in Nat /\ DOMAIN lp.group = 1..n
      /\ es \in Seq(Expressions) /\ Len(es) = n + 1 /\ DOMAIN es = 1..n + 1
      /\ es[n + 1] = plan.measure
      /\ \A i \in 1..n : es[i] = lp.group[i]
  BY <1>1, <1>2
<1>5. \A i \in 1..n : es[i].op \in {"column", "date_trunc"}
  BY <1>1, <1>4 DEF Range
<1>6. Range(es) = Range(lp.group) \cup {plan.measure}
  <2>1. 1..n + 1 = 1..n \cup {n + 1}
    BY <1>4
  <2>2. Range(es) = {es[i] : i \in 1..n + 1} /\ Range(lp.group) = {lp.group[i] : i \in 1..n}
    BY <1>4 DEF Range
  <2>. HIDE DEF es
  <2>3. Range(es) = {es[i] : i \in 1..n} \cup {es[n + 1]}
    BY <2>1, <2>2
  <2>4. {es[i] : i \in 1..n} = {lp.group[i] : i \in 1..n}
    BY <1>4
  <2>. QED BY <1>4, <2>2, <2>3, <2>4
<1>7. \A e : Written(lp, e).op = e.op
  BY DEF Written, Predicate
<1>. HIDE DEF es, n, text
<1>8. /\ DOMAIN text.items = 1..n + 1
      /\ \A i \in 1..n + 1 : text.items[i] = Written(lp, es[i])
      /\ text.items \in Seq({Written(lp, e) : e \in Expressions})
      /\ Range(text.items) = {Written(lp, e) : e \in Range(es)}
  <2>1. /\ DOMAIN AllWritten(lp, es) = DOMAIN es
        /\ \A i \in DOMAIN es : AllWritten(lp, es)[i] = Written(lp, es[i])
        /\ AllWritten(lp, es) \in Seq({Written(lp, e) : e \in Expressions})
        /\ Range(AllWritten(lp, es)) = {Written(lp, e) : e \in Range(es)}
    BY <1>4, WrittenInOrder
  <2>. QED BY <1>3, <1>4, <2>1
<1>9. /\ Len(text.group) = n
      /\ text.group \in Seq({Written(lp, e) : e \in Expressions})
      /\ Range(text.group) = {Written(lp, e) : e \in Range(lp.group)}
  <2>1. /\ Len(AllWritten(lp, lp.group)) = Len(lp.group)
        /\ AllWritten(lp, lp.group) \in Seq({Written(lp, e) : e \in Expressions})
        /\ Range(AllWritten(lp, lp.group)) = {Written(lp, e) : e \in Range(lp.group)}
    BY <1>1, WrittenInOrder
  <2>. QED BY <1>3, <2>1 DEF n
<1>10. /\ \A i \in 1..n : text.items[i].op \in {"column", "date_trunc"}
       /\ text.items[n + 1].op = plan.measure.op
  BY <1>4, <1>5, <1>7, <1>8
<1>. QED BY <1>4, <1>6, <1>8, <1>9, <1>10 DEF n, text

\* What parsing the operators of measures yields.
LEMMA MeasureNodes ==
  ASSUME NEW op \in MeasureOperators
  PROVE  /\ op # "star" /\ "anonymous" \notin Nodes[op]
         /\ Nodes[op] \cap Aggregates # {}
         /\ "distinct" \in Nodes[op] => op = "count_distinct"
         /\ Nodes[op] \subseteq AllowedNodes <=> op # "ratio_null"
<1>1. CASE op = "sum" BY <1>1 DEF Nodes, Aggregates, AllowedNodes
<1>2. CASE op = "avg" BY <1>2 DEF Nodes, Aggregates, AllowedNodes
<1>3. CASE op = "count" BY <1>3 DEF Nodes, Aggregates, AllowedNodes
<1>4. CASE op = "count_rows" BY <1>4 DEF Nodes, Aggregates, AllowedNodes
<1>5. CASE op = "count_distinct" BY <1>5 DEF Nodes, Aggregates, AllowedNodes
<1>6. CASE op = "ratio" BY <1>6 DEF Nodes, Aggregates, AllowedNodes
<1>7. CASE op = "ratio_null" BY <1>7 DEF Nodes, Aggregates, AllowedNodes
<1>8. CASE op = "min" BY <1>8 DEF Nodes, Aggregates, AllowedNodes
<1>9. CASE op = "max" BY <1>9 DEF Nodes, Aggregates, AllowedNodes
<1>. QED
  BY <1>1, <1>2, <1>3, <1>4, <1>5, <1>6, <1>7, <1>8, <1>9 DEF MeasureOperators

LEMMA GroupNodes ==
  ASSUME NEW op \in {"column", "date_trunc"}
  PROVE  /\ op # "star" /\ "anonymous" \notin Nodes[op] /\ "distinct" \notin Nodes[op]
         /\ Nodes[op] \cap Aggregates = {} /\ Nodes[op] \subseteq AllowedNodes
<1>1. CASE op = "column" BY <1>1 DEF Nodes, Aggregates, AllowedNodes
<1>2. CASE op = "date_trunc" BY <1>2 DEF Nodes, Aggregates, AllowedNodes
<1>. QED BY <1>1, <1>2

LEMMA SyntaxAccepted ==
  ASSUME NEW lp, Compiled(lp), NEW text, text = Text(lp)
  PROVE  /\ SingleStatement(text) /\ FunctionsAllowed(text) /\ NoStar(text)
         /\ NodesAllowed(text) <=> plan.measure.op # "ratio_null"
         /\ AggregatesSql(text, plan) /\ GroupByGate(text)
<1>. DEFINE n == Len(lp.group)
            m == plan.measure.op
<1>1. /\ n \in Nat /\ Len(text.group) = n /\ DOMAIN text.items = 1..n + 1
      /\ \A i \in 1..n : text.items[i].op \in {"column", "date_trunc"}
      /\ text.items[n + 1].op = m
  BY ItemsWritten
<1>2. m \in MeasureOperators
  BY PlanTyped DEF Compiled
<1>. HIDE DEF n
<1>3. /\ \A item \in Items(text) : item.op \in {"column", "date_trunc"} \/ item.op = m
      /\ \E item \in Items(text) : item.op = m
  <2>1. \A i \in 1..n + 1 : i \in 1..n \/ i = n + 1
    BY <1>1
  <2>2. n + 1 \in DOMAIN text.items
    BY <1>1
  <2>. QED BY <1>1, <2>1, <2>2 DEF Items, Range
<1>. HIDE DEF m
<1>4. SingleStatement(text)
  BY DEF SingleStatement, Text
<1>5. FunctionsAllowed(text) /\ NoStar(text)
  BY <1>2, <1>3, MeasureNodes, GroupNodes DEF FunctionsAllowed, NoStar
<1>6. NodesAllowed(text) <=> m # "ratio_null"
  BY <1>2, <1>3, MeasureNodes, GroupNodes DEF NodesAllowed
<1>7. AggregatesSql(text, plan)
  BY <1>2, <1>3, MeasureNodes, GroupNodes DEF AggregatesSql, IsAggregate, m
<1>8. GroupByGate(text)
  <2>1. \A i \in 1..n : ~IsAggregate(text.items[i])
    BY <1>1, GroupNodes DEF IsAggregate
  <2>2. IsAggregate(text.items[n + 1])
    BY <1>1, <1>2, MeasureNodes DEF IsAggregate
  <2>3. {i \in DOMAIN text.items : ~IsAggregate(text.items[i])} = 1..n
    BY <1>1, <2>1, <2>2
  <2>4. Cardinality(1..n) = n
    BY <1>1, FS_Interval
  <2>. QED BY <1>1, <2>3, <2>4 DEF GroupByGate
<1>. QED BY <1>4, <1>5, <1>6, <1>7, <1>8 DEF m

\* The whole text refers to what the compiler noted, by the terms it wrote.
LEMMA ColumnsWritten ==
  ASSUME NEW lp, Compiled(lp), NEW text, text = Text(lp),
         NEW all, all = text.items \o TextClauses(text) \o text.group
  PROVE  /\ TextColumns(text, all) = Referenced(lp)
         /\ \A c \in Referenced(lp) : Term(lp, c) \in Refs(all)
<1>. DEFINE Ws == {Written(lp, e) : e \in Expressions}
            both == text.items \o TextClauses(text)
            E == Range(lp.group) \cup {plan.measure} \cup Range(Clauses(lp))
<1>1. /\ text.items \in Seq(Ws) /\ text.group \in Seq(Ws)
      /\ Range(text.items) = {Written(lp, e) : e \in Range(lp.group) \cup {plan.measure}}
      /\ Range(text.group) = {Written(lp, e) : e \in Range(lp.group)}
  BY ItemsWritten, ZenonT(30)
<1>2. /\ TextClauses(text) \in Seq(Ws)
      /\ Range(TextClauses(text)) = {Written(lp, e) : e \in Range(Clauses(lp))}
  BY ClausesRead
<1>3. /\ both \in Seq(Ws) /\ Range(both) = Range(text.items) \cup Range(TextClauses(text))
  <2>. HIDE DEF Ws
  <2>. QED BY <1>1, <1>2, RangeOfConcat
<1>4. /\ all \in Seq(Ws) /\ Range(all) = Range(both) \cup Range(text.group)
  <2>1. all = both \o text.group
    OBVIOUS
  <2>. HIDE DEF Ws, both
  <2>. QED BY <1>1, <1>3, <2>1, RangeOfConcat
<1>5. Range(all) = {Written(lp, e) : e \in E}
  <2>. HIDE DEF Ws, both
  <2>. QED BY <1>1, <1>2, <1>3, <1>4
<1>6. ColumnsOf(E) = Referenced(lp)
  <2>1. /\ Referenced(lp) = ColumnsIn(plan.measure) \cup ColumnsOf(Range(lp.group))
                              \cup ColumnsOf(Range(Clauses(lp)))
    BY ColumnsScanned, ColumnsOfParts DEF Referenced
  <2>2. ColumnsOf(E) = ColumnsOf(Range(lp.group)) \cup ColumnsIn(plan.measure)
                         \cup ColumnsOf(Range(Clauses(lp)))
    BY DEF ColumnsOf
  <2>. QED BY <2>1, <2>2
<1>7. \A c \in ColumnsOf(E) : TableOf(c) \in Range(Scanned(plan))
  BY <1>6, ColumnsScanned
<1>. HIDE DEF E
<1>8. AsBound(plan) /\ lp = Lower(plan)
  BY DEF Compiled
<1>9. TextColumns(Text(lp), all) = ColumnsOf(E)
  BY <1>5, <1>7, <1>8, ReadBack
<1>10. ASSUME NEW c \in ColumnsOf(E) PROVE Term(lp, c) \in Refs(all)
  BY <1>5, <1>7, <1>8, TermsRead
<1>. QED BY <1>6, <1>9, <1>10

LEMMA ColumnsAccepted ==
  ASSUME NEW lp, Compiled(lp)
  PROVE  ColumnsGate(Text(lp), Compile(lp))
<1>1. Referenced(lp) \subseteq Columns /\ Compile(lp).columns = Referenced(lp)
  BY DEF Referenced, ColumnsIn, AllColumnsIn, Compile
<1>. QED BY <1>1, ColumnsWritten DEF ColumnsGate

LEMMA ParametersAccepted ==
  ASSUME NEW lp, Compiled(lp)
  PROVE  ParametersGate(Text(lp), Compile(lp))
<1>1. Len(Placeholders(TextClauses(Text(lp)))) = Len(Compile(lp).values)
  BY DEF Compiled, Compiles, Compile
<1>2. ASSUME NEW w \in Range(TextClauses(Text(lp))) PROVE Inline \notin Range(w.args)
  <2>1. PICK e \in Range(Clauses(lp)) : w = Written(lp, e)
    BY ClausesRead
  <2>2. w.args = [i \in DOMAIN e.args |-> Term(lp, e.args[i])]
    BY <2>1 DEF Written, Predicate
  <2>3. ASSUME NEW x \in Range(e.args) PROVE Term(lp, x) # Inline
    <3>1. AsBound(plan) /\ lp = Lower(plan)
      BY DEF Compiled
    <3>2. CASE x \notin Columns
      BY <3>1, <3>2, TermsDenote DEF Placeholder, Inline, Ref
    <3>3. CASE x \in Columns
      <4>1. x \in Referenced(lp)
        BY <2>1, <3>3 DEF Referenced, AllColumnsIn, ColumnsIn
      <4>2. Term(lp, x).alias \in Nat
        BY <3>1, <3>3, <4>1, TermsDenote, ColumnsScanned
      <4>3. Inline.alias = -2
        BY DEF Inline, Ref
      <4>. QED BY <4>2, <4>3
    <3>. QED BY <3>2, <3>3
  <2>. QED BY <2>2, <2>3 DEF Range
<1>. QED BY <1>1, <1>2 DEF ParametersGate

LEMMA TablesAccepted ==
  ASSUME NEW lp, Compiled(lp)
  PROVE  TablesGate(Text(lp), Compile(lp)) <=>
           \A t \in Range(Scanned(plan)) : Catalog[t].certified
<1>. DEFINE rels == Text(lp).relations
<1>1. DOMAIN rels = DOMAIN Scanned(plan)
      /\ \A i \in DOMAIN Scanned(plan) : rels[i].table = Scanned(plan)[i]
  BY RelationsWritten, ScansNumbered DEF Compiled
<1>2. /\ Range(Scanned(plan)) \subseteq Tables
      /\ Range(Scanned(plan)) \subseteq Compile(lp).tables
  BY ScansNumbered, ColumnsScanned DEF Compiled, Compile
<1>. HIDE DEF rels
<1>3. /\ \A rel \in Range(rels) : rel.table \in Range(Scanned(plan))
      /\ \A t \in Range(Scanned(plan)) : \E rel \in Range(rels) : rel.table = t
  BY <1>1 DEF Range
<1>4. TablesGate(Text(lp), Compile(lp)) <=>
        \A rel \in Range(rels) : /\ rel.table \in Tables /\ rel.table \in Compile(lp).tables
                                 /\ Catalog[rel.table].certified
  BY DEF TablesGate, rels
<1>. QED BY <1>2, <1>3, <1>4

LEMMA JoinsAccepted ==
  ASSUME NEW lp, Compiled(lp), NEW text, text = Text(lp)
  PROVE  /\ NoCartesian(text) /\ JoinsApproved(lp)
         /\ JoinPredicatesSql(text, lp) /\ FanOutGate(plan, lp)
<1>. DEFINE n == Len(plan.joins)
            Of(j) == Relationships[j.rel].predicates
<1>1. /\ n \in Nat /\ DOMAIN plan.joins = 1..n
      /\ \A i \in 1..n : /\ plan.joins[i].rel \in DOMAIN Relationships
                         /\ plan.joins[i].preserves
                         /\ Of(plan.joins[i]) \in Seq(Expressions)
  BY PlanTyped DEF Compiled
<1>2. /\ Len(lp.joins) = n /\ DOMAIN lp.joins = 1..n
      /\ \A i \in 1..n : /\ lp.joins[i].rel = plan.joins[i].rel
                         /\ lp.joins[i].preserves = plan.joins[i].preserves
                         /\ lp.joins[i].predicates = Of(plan.joins[i])
  BY JoinsLowered DEF Compiled
<1>0. \A i \in 1..n : lp.joins[i].predicates # <<>>
  BY <1>2 DEF Compiled, Conditioned, Range
<1>3. /\ Len(text.relations) = n + 1
      /\ \A i \in 1..n : text.relations[i + 1].on = AllWritten(lp, Of(plan.joins[i]))
  BY RelationsWritten DEF Compiled
<1>. HIDE DEF n
<1>4. \A i \in 1..n : Len(text.relations[i + 1].on) = Len(Of(plan.joins[i]))
  <2>1. \A es \in Seq(Expressions) : Len(AllWritten(lp, es)) = Len(es)
    BY WrittenInOrder
  <2>. HIDE DEF Of
  <2>. QED BY <1>1, <1>3, <2>1
<1>5. JoinsApproved(lp)
  BY <1>1, <1>2 DEF JoinsApproved, Range
<1>6. JoinPredicatesSql(text, lp)
  BY <1>1, <1>2, <1>3, <1>4 DEF JoinPredicatesSql
<1>7. FanOutGate(plan, lp)
  BY <1>1, <1>2 DEF FanOutGate, Range
<1>8. \A i \in 1..n : text.relations[i + 1].on = <<>> <=> Of(plan.joins[i]) = <<>>
  <2>. SUFFICES ASSUME NEW i \in 1..n
                PROVE  text.relations[i + 1].on = <<>> <=> Of(plan.joins[i]) = <<>>
    OBVIOUS
  <2>. DEFINE es == Of(plan.joins[i])
              ws == AllWritten(lp, es)
              Ws == {Written(lp, e) : e \in Expressions}
  <2>1. es \in Seq(Expressions) /\ text.relations[i + 1].on = ws
    BY <1>1, <1>3
  <2>2. ws \in Seq(Ws) /\ Len(ws) = Len(es)
    BY <2>1, WrittenInOrder
  <2>. HIDE DEF es, ws, Ws
  <2>3. ws = <<>> <=> Len(ws) = 0
    BY <2>2
  <2>4. es = <<>> <=> Len(es) = 0
    BY <2>1
  <2>. QED BY <2>1, <2>2, <2>3, <2>4 DEF es
<1>. HIDE DEF Of
<1>9. \A i \in 1..n : Of(plan.joins[i]) # <<>>
  BY <1>0, <1>2
<1>10. NoCartesian(text)
  <2>1. \A i \in 2..n + 1 : i - 1 \in 1..n /\ (i - 1) + 1 = i
    BY <1>1
  <2>2. ASSUME NEW i \in 2..n + 1 PROVE text.relations[i].on # <<>>
    BY <1>8, <1>9, <2>1
  <2>. QED BY <1>3, <2>2 DEF NoCartesian
<1>. QED BY <1>5, <1>6, <1>7, <1>10

\* The gate on permissions is the one that reads the policy.
LEMMA PermissionsRead ==
  ASSUME NEW lp, Compiled(lp)
  PROVE  LET measured == ColumnsIn(plan.measure) IN
         AuthorizationGate(Compile(lp), plan, closed) <=>
           /\ measured \cap closed.read = {} /\ (Touched \ measured) \cap closed.use = {}
           /\ plan.metric \notin closed.metric
<1>. DEFINE measured == ColumnsIn(plan.measure)
            q == Compile(lp)
<1>1. q.columns = measured \cup Touched
  BY ColumnsScanned, ReferencedTouched DEF Compiled, Compile
<1>2. q.tables \cap closed.discover = {}
  <2>1. q.tables \subseteq Range(Scanned(plan))
    BY ColumnsScanned DEF Compile
  <2>2. Range(Scanned(plan)) \cap closed.discover = {}
    BY DEF Compiled, Lowers
  <2>. QED BY <2>1, <2>2
<1>3. AuthorizationGate(q, plan, closed) <=>
        /\ q.columns \cap measured \cap closed.read = {}
        /\ (q.columns \ measured) \cap closed.use = {}
        /\ q.tables \cap closed.discover = {} /\ plan.metric \notin closed.metric
  BY DEF AuthorizationGate
<1>. HIDE DEF q, measured
<1>4. q.columns \cap measured = measured /\ q.columns \ measured = Touched \ measured
  BY <1>1
<1>. QED BY <1>2, <1>3, <1>4 DEF q, measured

\* Every obligation is found where it was placed, tenant keys included.
LEMMA ObligationsEvident ==
  ASSUME NEW lp, Compiled(lp)
  PROVE  Evident(plan, lp, AllColumnsIn(lp.where), AllColumnsIn(lp.having))
<1>. DEFINE where == AllColumnsIn(lp.where)
            having == AllColumnsIn(lp.having)
<1>1. /\ where = ColumnsOf(Range(Where(plan)))
      /\ having = ColumnsOf(PlacedAt("after_aggregation"))
  BY ColumnsScanned, ColumnsOfParts, ObligationsPlaced DEF Compiled
<1>2. /\ PlacedAt("before_aggregation") \subseteq Range(Where(plan))
      /\ Range(TenantPredicates(plan)) \subseteq Range(Where(plan))
  BY ColumnsScanned, WhereTouched DEF Compiled
<1>3. ASSUME NEW o \in Range(plan.obligations)
      PROVE  AllColumnsIn(o.predicate) \subseteq
               IF o.placement = "before_aggregation" THEN where ELSE having
  <2>1. o.placement \in {"before_aggregation", "after_aggregation"}
    BY ObligationsTyped DEF Compiled
  <2>2. Range(o.predicate) \subseteq PlacedAt(o.placement)
    BY DEF PlacedAt
  <2>3. AllColumnsIn(o.predicate) \subseteq ColumnsOf(PlacedAt(o.placement))
    BY <2>2 DEF ColumnsOf, AllColumnsIn
  <2>4. ColumnsOf(PlacedAt("before_aggregation")) \subseteq ColumnsOf(Range(Where(plan)))
    BY <1>2 DEF ColumnsOf
  <2>. QED BY <1>1, <2>1, <2>3, <2>4
<1>4. ASSUME NEW o \in Range(plan.obligations), o.rule = "security.tenant_scope"
      PROVE  NeedsIsolation(lp) \subseteq Isolated(where)
  <2>. SUFFICES ASSUME NEW t \in NeedsIsolation(lp) PROVE t \in Isolated(where)
    OBVIOUS
  <2>1. t \in Range(TenantTables(plan))
    <3>1. NeedsTenant(plan)
      BY <1>4 DEF NeedsTenant
    <3>2. t \in Range(Scanned(plan)) /\ "tenant_scoped" \in Catalog[t].tags
      BY ColumnsScanned DEF NeedsIsolation
    <3>. QED BY <3>1, <3>2, TenantTablesTagged DEF Compiled
  <2>2. /\ Catalog[t].tenant_key \in Columns /\ TableOf(Catalog[t].tenant_key) = t
        /\ Catalog[t].tenant_key \in Keys
    BY <2>1, ColumnsScanned, KeysOfTables DEF Compiled, Keys
  <2>3. Keys \subseteq ColumnsOf(Range(Where(plan)))
    <3>1. ColumnsOf(Range(TenantPredicates(plan))) = Keys
      BY ColumnsScanned, TenantTouched DEF Compiled
    <3>. QED BY <1>2, <3>1 DEF ColumnsOf
  <2>4. Catalog[t].tenant_key \in TenantKeys
    BY <2>2, TenantKeysAssumption
  <2>. QED BY <1>1, <2>2, <2>3, <2>4 DEF Isolated
<1>. QED BY <1>3, <1>4 DEF Evident

LEMMA ObligationsAccepted ==
  ASSUME NEW lp, Compiled(lp)
  PROVE  ObligationsGate(plan, lp) /\ ObligationsSql(Text(lp), plan, lp)
<1>. DEFINE text == Text(lp)
<1>1. text.where = AllWritten(lp, lp.where) /\ text.having = AllWritten(lp, lp.having)
  BY DEF Text
<1>2. /\ lp.where \in Seq(Expressions) /\ lp.having \in Seq(Expressions)
      /\ Range(Clauses(lp)) = Conditions \cup Range(lp.where) \cup Range(lp.having)
  BY ColumnsScanned, WhereTouched, ObligationsPlaced, ClausesTouched DEF Compiled
<1>3. AsBound(plan) /\ lp = Lower(plan)
  BY DEF Compiled
<1>4. ASSUME NEW es \in {lp.where, lp.having}
      PROVE  TextColumns(text, AllWritten(lp, es)) = AllColumnsIn(es)
  <2>1. es \in Seq(Expressions) /\ Range(es) \subseteq Range(Clauses(lp))
    BY <1>2
  <2>2. ColumnsOf(Range(es)) \subseteq Referenced(lp)
    BY <2>1 DEF Referenced, AllColumnsIn, ColumnsOf
  <2>3. \A c \in ColumnsOf(Range(es)) : TableOf(c) \in Range(Scanned(plan))
    BY <2>2, ColumnsScanned
  <2>4. Range(AllWritten(lp, es)) = {Written(lp, e) : e \in Range(es)}
    BY <2>1, WrittenInOrder
  <2>5. TextColumns(Text(lp), AllWritten(lp, es)) = ColumnsOf(Range(es))
    BY <1>3, <2>3, <2>4, ReadBack
  <2>. QED BY <2>5, ColumnsOfParts
<1>5. Evident(plan, lp, AllColumnsIn(lp.where), AllColumnsIn(lp.having))
  BY ObligationsEvident
<1>6. /\ TextColumns(text, text.where) = AllColumnsIn(lp.where)
      /\ TextColumns(text, text.having) = AllColumnsIn(lp.having)
  BY <1>1, <1>4
<1>. HIDE DEF text
<1>. QED BY <1>5, <1>6 DEF ObligationsGate, ObligationsSql, text

LEMMA RestAccepted ==
  ASSUME NEW lp, Compiled(lp)
  PROVE  /\ MetricIntegrity(plan) /\ GrainGate(plan, lp) /\ PolicyEpochGate(plan, ScopeOfRequest)
         /\ TimeGate(plan) <=> \A t \in Range(plan.time) : t.column \in TimeRoles
<1>1. MetricIntegrity(plan) /\ PolicyEpochGate(plan, ScopeOfRequest)
  BY DEF Compiled, AsBound, MetricIntegrity, PolicyEpochGate
<1>2. GrainGate(plan, lp)
  BY ColumnsScanned, GroupsTouched DEF Compiled, GrainGate
<1>3. TimeGate(plan) <=> \A t \in Range(plan.time) : t.column \in TimeRoles
  <2>1. CASE plan.time = <<>>
    BY <2>1 DEF TimeGate, Range
  <2>2. CASE plan.time # <<>>
    <3>1. PICK c \in Columns, b \in BOOLEAN : plan.time = <<[column |-> c, bucket |-> b]>>
      <4>1. plan.time \in {<<[column |-> c, bucket |-> b]>> : c \in Columns, b \in BOOLEAN}
        BY <2>2 DEF AsBound, Compiled
      <4>. QED BY <4>1
    <3>2. plan.time[1].column = c /\ Range(plan.time) = {[column |-> c, bucket |-> b]}
      BY <3>1 DEF Range
    <3>. QED BY <2>2, <3>2 DEF TimeGate
  <2>. QED BY <2>1, <2>2
<1>. QED BY <1>1, <1>2, <1>3

\* Of what the compiler writes, the gates accept the acceptable plans and no others.
LEMMA GatesAgree ==
  ASSUME NEW lp, Compiled(lp)
  PROVE  Passes(Text(lp), Compile(lp), lp, plan, ScopeOfRequest, closed) <=> Acceptable
<1>. DEFINE text == Text(lp)
            q == Compile(lp)
            measured == ColumnsIn(plan.measure)
<1>1. /\ SingleStatement(text) /\ FunctionsAllowed(text) /\ NoStar(text)
      /\ NodesAllowed(text) <=> plan.measure.op # "ratio_null"
      /\ AggregatesSql(text, plan) /\ GroupByGate(text)
  BY SyntaxAccepted
<1>2. ParametersGate(text, q) /\ ColumnsGate(text, q)
  BY ParametersAccepted, ColumnsAccepted
<1>3. TablesGate(text, q) <=> \A t \in Range(Scanned(plan)) : Catalog[t].certified
  BY TablesAccepted
<1>4. /\ NoCartesian(text) /\ JoinsApproved(lp) /\ JoinPredicatesSql(text, lp) /\ FanOutGate(plan, lp)
  BY JoinsAccepted
<1>5. AuthorizationGate(q, plan, closed) <=>
        /\ measured \cap closed.read = {} /\ (Touched \ measured) \cap closed.use = {}
        /\ plan.metric \notin closed.metric
  BY PermissionsRead
<1>6. ObligationsGate(plan, lp) /\ ObligationsSql(text, plan, lp)
  BY ObligationsAccepted
<1>7. /\ MetricIntegrity(plan) /\ GrainGate(plan, lp) /\ PolicyEpochGate(plan, ScopeOfRequest)
      /\ TimeGate(plan) <=> \A t \in Range(plan.time) : t.column \in TimeRoles
  BY RestAccepted
<1>8. Acceptable <=>
        /\ measured \cap closed.read = {} /\ (Touched \ measured) \cap closed.use = {}
        /\ plan.metric \notin closed.metric /\ plan.measure.op # "ratio_null"
        /\ \A t \in Range(Scanned(plan)) : Catalog[t].certified
        /\ \A t \in Range(plan.time) : t.column \in TimeRoles
  BY DEF Acceptable
<1>. HIDE DEF text, q, measured
<1>9. Passes(text, q, lp, plan, ScopeOfRequest, closed) <=> Acceptable
  BY <1>1, <1>2, <1>3, <1>4, <1>5, <1>6, <1>7, <1>8 DEF Passes
<1>. QED BY <1>9 DEF text, q

-----------------------------------------------------------------------------
(* Where the elements of a flattened sequence stand.                          *)

\* The first m of the sequences, one after the other.
Upto(ss, m) == FlattenSeq([i \in 1..m |-> ss[i]])

\* Two ways to flatten the same beginning agree.
LEMMA FlatAgree ==
  ASSUME NEW ss, NEW tt, NEW f, NEW g, NEW m \in Nat, NEW n \in Nat, m <= n,
         Flat(ss, f, m), Flat(tt, g, n), \A i \in 1..m : ss[i] = tt[i]
  PROVE  \A i \in 1..m : f[i] = g[i]
<1>. DEFINE Bad == {i \in 1..m : f[i] # g[i]}
<1>. SUFFICES ASSUME Bad # {} PROVE FALSE
  OBVIOUS
<1>1. PICK k \in Bad : \A i \in Bad : k <= i
  <2>1. Bad \subseteq Nat
    OBVIOUS
  <2>. HIDE DEF Bad
  <2>. QED BY <2>1, LeastNumber
<1>2. k \in 1..m /\ f[k] # g[k]
  OBVIOUS
<1>3. /\ f[k] = IF k = 1 THEN ss[k] ELSE f[k - 1] \o ss[k]
      /\ g[k] = IF k = 1 THEN ss[k] ELSE g[k - 1] \o ss[k]
  <2>1. k \in 1..n /\ ss[k] = tt[k]
    BY <1>2
  <2>2. \A i \in 1..m : f[i] = IF i = 1 THEN ss[i] ELSE f[i - 1] \o ss[i]
    BY DEF Flat
  <2>3. \A i \in 1..n : g[i] = IF i = 1 THEN tt[i] ELSE g[i - 1] \o tt[i]
    BY DEF Flat
  <2>. HIDE DEF Bad
  <2>. QED BY <1>2, <2>1, <2>2, <2>3
<1>4. CASE k = 1
  BY <1>2, <1>3, <1>4
<1>5. CASE k # 1
  <2>1. k - 1 \in 1..m /\ ~(k <= k - 1)
    BY <1>2, <1>5
  <2>2. k - 1 \notin Bad
    <3>. HIDE DEF Bad
    <3>. QED BY <1>1, <2>1
  <2>3. f[k - 1] = g[k - 1]
    BY <2>1, <2>2
  <2>. QED BY <1>2, <1>3, <1>5, <2>3
<1>. QED BY <1>4, <1>5

\* Flattening goes on by one sequence at a time.
LEMMA FlattenStep ==
  ASSUME NEW S, NEW ss \in Seq(Seq(S))
  PROVE  /\ Upto(ss, 0) = <<>> /\ Upto(ss, Len(ss)) = FlattenSeq(ss)
         /\ \A m \in 1..Len(ss) : Upto(ss, m) = Upto(ss, m - 1) \o ss[m]
         /\ \A m \in 0..Len(ss) : Upto(ss, m) \in Seq(S)
<1>. DEFINE n == Len(ss)
            first(m) == [i \in 1..m |-> ss[i]]
<1>1. n \in Nat /\ \A i \in 1..n : ss[i] \in Seq(S)
  OBVIOUS
<1>2. \A m \in 0..n : first(m) \in Seq(Seq(S)) /\ Len(first(m)) = m
  <2>. SUFFICES ASSUME NEW m \in 0..n PROVE first(m) \in Seq(Seq(S)) /\ Len(first(m)) = m
    OBVIOUS
  <2>1. \A i \in 1..m : ss[i] \in Seq(S)
    BY <1>1
  <2>. QED BY <1>1, <2>1
<1>3. first(n) = ss
  BY <1>1
<1>4. PICK f : Flat(ss, f, n)
  BY FlatExists DEF Flattens
<1>5. Upto(ss, 0) = <<>>
  <2>1. Len(first(0)) = 0 /\ first(0) = <<>>
    BY <1>1, <1>2
  <2>. QED BY <2>1 DEF Upto, FlattenSeq
<1>6. ASSUME NEW m \in 1..n PROVE Upto(ss, m) = f[m]
  <2>. DEFINE h == CHOOSE x : Flat(first(m), x, m)
  <2>0. m \in Nat /\ m \in 0..n /\ m # 0
    BY <1>1
  <2>1. Flat(first(m), h, m)
    <3>1. Flattens(first(m), Len(first(m)))
      BY <1>2, <2>0, FlatExists
    <3>2. \E x : Flat(first(m), x, m)
      BY <1>2, <2>0, <3>1 DEF Flattens
    <3>. QED BY <3>2
  <2>2. FlattenSeq(first(m)) = h[m]
    BY <1>2, <2>0 DEF FlattenSeq, Flat
  <2>3. \A i \in 1..m : first(m)[i] = ss[i]
    OBVIOUS
  <2>. HIDE DEF h, first
  <2>4. h[m] = f[m]
    <3>1. m <= n /\ m \in 1..m
      BY <1>1
    <3>2. \A i \in 1..m : h[i] = f[i]
      <4>. DEFINE s == first(m)
      <4>1. Flat(s, h, m) /\ \A i \in 1..m : s[i] = ss[i]
        BY <2>1, <2>3
      <4>. HIDE DEF s, n
      <4>. QED BY <1>1, <1>4, <2>0, <3>1, <4>1, FlatAgree
    <3>. QED BY <3>1, <3>2
  <2>. QED BY <2>2, <2>4 DEF Upto, first
<1>7. \A m \in 0..n : Upto(ss, m) \in Seq(S)
  BY <1>2, RangeOfFlatten DEF Upto
<1>8. ASSUME NEW m \in 1..n PROVE Upto(ss, m) = Upto(ss, m - 1) \o ss[m]
  <2>1. f[m] = IF m = 1 THEN ss[m] ELSE f[m - 1] \o ss[m]
    BY <1>4 DEF Flat
  <2>2. CASE m = 1
    <3>1. <<>> \o ss[m] = ss[m]
      BY <1>1
    <3>. QED BY <1>5, <1>6, <2>1, <2>2, <3>1
  <2>3. CASE m # 1
    <3>1. m - 1 \in 1..n
      BY <1>1, <2>3
    <3>. QED BY <1>6, <2>1, <2>3, <3>1
  <2>. QED BY <2>2, <2>3
<1>. QED BY <1>3, <1>5, <1>7, <1>8 DEF Upto

Alike(ss, tt) == Len(ss) = Len(tt) /\ \A i \in 1..Len(ss) : Len(ss[i]) = Len(tt[i])

\* Sequences of equal lengths are equally long when they are flattened.
LEMMA FlattenLens ==
  ASSUME NEW S, NEW T, NEW ss \in Seq(Seq(S)), NEW tt \in Seq(Seq(T)),
         Alike(ss, tt)
  PROVE  \A m \in 0..Len(ss) : Len(Upto(ss, m)) = Len(Upto(tt, m))
<1>. DEFINE n == Len(ss)
            Bad == {m \in 0..n : Len(Upto(ss, m)) # Len(Upto(tt, m))}
<1>. SUFFICES ASSUME Bad # {} PROVE FALSE
  OBVIOUS
<1>1. PICK k \in Bad : \A i \in Bad : k <= i
  <2>1. Bad \subseteq Nat
    OBVIOUS
  <2>. HIDE DEF Bad
  <2>. QED BY <2>1, LeastNumber
<1>2. k \in 0..n /\ Len(Upto(ss, k)) # Len(Upto(tt, k)) /\ n \in Nat
  OBVIOUS
<1>3. k # 0
  BY <1>2, FlattenStep
<1>4. k \in 1..n /\ k - 1 \in 0..n /\ ~(k <= k - 1) /\ n = Len(tt)
  BY <1>2, <1>3 DEF Alike
<1>5. Len(Upto(ss, k - 1)) = Len(Upto(tt, k - 1))
  <2>1. k - 1 \notin Bad
    <3>. HIDE DEF Bad
    <3>. QED BY <1>1, <1>4
  <2>. QED BY <1>4, <2>1
<1>6. /\ Upto(ss, k) = Upto(ss, k - 1) \o ss[k] /\ Upto(ss, k - 1) \in Seq(S)
      /\ ss[k] \in Seq(S)
  <2>1. /\ \A m \in 1..n : Upto(ss, m) = Upto(ss, m - 1) \o ss[m]
        /\ \A m \in 0..n : Upto(ss, m) \in Seq(S)
    BY FlattenStep
  <2>2. ss[k] \in Seq(S)
    BY <1>4
  <2>. HIDE DEF n, Bad
  <2>. QED BY <1>4, <2>1, <2>2
<1>7. /\ Upto(tt, k) = Upto(tt, k - 1) \o tt[k] /\ Upto(tt, k - 1) \in Seq(T)
      /\ tt[k] \in Seq(T)
  <2>1. /\ \A m \in 1..Len(tt) : Upto(tt, m) = Upto(tt, m - 1) \o tt[m]
        /\ \A m \in 0..Len(tt) : Upto(tt, m) \in Seq(T)
    BY FlattenStep
  <2>2. tt[k] \in Seq(T)
    BY <1>4
  <2>. HIDE DEF n, Bad
  <2>. QED BY <1>4, <2>1, <2>2
<1>8. Len(Upto(ss, k)) = Len(Upto(ss, k - 1)) + Len(ss[k])
  BY <1>6
<1>9. Len(Upto(tt, k)) = Len(Upto(tt, k - 1)) + Len(tt[k])
  BY <1>7
<1>. QED BY <1>2, <1>4, <1>5, <1>8, <1>9 DEF Alike

\* An element of the i-th sequence comes after all of those before.
LEMMA FlattenAt ==
  ASSUME NEW S, NEW ss \in Seq(Seq(S)), NEW i \in 1..Len(ss), NEW j \in 1..Len(ss[i])
  PROVE  /\ Len(Upto(ss, i - 1)) + j \in 1..Len(FlattenSeq(ss))
         /\ FlattenSeq(ss)[Len(Upto(ss, i - 1)) + j] = ss[i][j]
<1>. DEFINE n == Len(ss)
            at == Len(Upto(ss, i - 1)) + j
            Good(m) == at \in 1..Len(Upto(ss, m)) /\ Upto(ss, m)[at] = ss[i][j]
            Bad == {m \in i..n : ~Good(m)}
<1>1. /\ n \in Nat /\ i \in Nat /\ i - 1 \in 0..n /\ i \in 0..n /\ n \in i..n /\ i..n \subseteq 1..n
      /\ \A m \in 1..n : ss[m] \in Seq(S)
  OBVIOUS
<1>2. Good(i)
  <2>1. Upto(ss, i) = Upto(ss, i - 1) \o ss[i] /\ Upto(ss, i - 1) \in Seq(S) /\ ss[i] \in Seq(S)
    BY <1>1, FlattenStep
  <2>2. \A s, t \in Seq(S) : \A x \in 1..Len(t) :
          Len(s) + x \in 1..Len(s \o t) /\ (s \o t)[Len(s) + x] = t[x]
    OBVIOUS
  <2>. QED BY <2>1, <2>2
<1>3. Bad = {}
  <2>. SUFFICES ASSUME Bad # {} PROVE FALSE
    OBVIOUS
  <2>1. PICK k \in Bad : \A m \in Bad : k <= m
    <3>1. Bad \subseteq Nat
      BY <1>1
    <3>. HIDE DEF Bad
    <3>. QED BY <3>1, LeastNumber
  <2>2. k \in i..n /\ ~Good(k)
    OBVIOUS
  <2>3. k # i
    BY <1>2, <2>2
  <2>4. k \in 1..n /\ k - 1 \in i..n /\ k - 1 \in 0..n /\ ~(k <= k - 1)
    BY <1>1, <2>2, <2>3
  <2>5. Good(k - 1)
    <3>1. k - 1 \notin Bad
      <4>. HIDE DEF Bad
      <4>. QED BY <2>1, <2>4
    <3>. HIDE DEF Good
    <3>. QED BY <2>4, <3>1
  <2>6. Upto(ss, k) = Upto(ss, k - 1) \o ss[k] /\ Upto(ss, k - 1) \in Seq(S) /\ ss[k] \in Seq(S)
    BY <1>1, <2>4, FlattenStep
  <2>7. \A s, t \in Seq(S) : \A x \in 1..Len(s) :
          x \in 1..Len(s \o t) /\ (s \o t)[x] = s[x]
    OBVIOUS
  <2>8. at \in 1..Len(Upto(ss, k)) /\ Upto(ss, k)[at] = Upto(ss, k - 1)[at]
    <3>1. /\ at \in 1..Len(Upto(ss, k - 1))
          /\ Upto(ss, k - 1) \in Seq(S) /\ ss[k] \in Seq(S)
      BY <2>5, <2>6
    <3>. HIDE DEF at
    <3>2. /\ at \in 1..Len(Upto(ss, k - 1) \o ss[k])
          /\ (Upto(ss, k - 1) \o ss[k])[at] = Upto(ss, k - 1)[at]
      BY <2>7, <3>1
    <3>. QED BY <2>6, <3>2
  <2>. QED BY <2>2, <2>5, <2>8
<1>4. Good(n)
  <2>. HIDE DEF Good
  <2>. QED BY <1>1, <1>3
<1>. QED BY <1>4, FlattenStep

\* Every element comes from one of the sequences.
LEMMA FlattenFrom ==
  ASSUME NEW S, NEW ss \in Seq(Seq(S)), NEW x \in 1..Len(FlattenSeq(ss))
  PROVE  \E i \in 1..Len(ss) : \E j \in 1..Len(ss[i]) : x = Len(Upto(ss, i - 1)) + j
<1>. DEFINE n == Len(ss)
            Past == {m \in 0..n : x <= Len(Upto(ss, m))}
<1>1. /\ n \in Nat /\ n \in 0..n /\ \A m \in 1..n : ss[m] \in Seq(S)
      /\ \A m \in 0..n : Upto(ss, m) \in Seq(S) /\ Len(Upto(ss, m)) \in Nat
  <2>1. \A m \in 0..n : Upto(ss, m) \in Seq(S)
    BY FlattenStep
  <2>2. \A s \in Seq(S) : Len(s) \in Nat
    OBVIOUS
  <2>. QED BY <2>1, <2>2
<1>2. FlattenSeq(ss) = Upto(ss, n)
  BY FlattenStep
<1>3. x \in Nat /\ x >= 1 /\ x <= Len(Upto(ss, n))
  BY <1>1, <1>2
<1>4. PICK i \in Past : \A m \in Past : i <= m
  <2>1. Past \subseteq Nat /\ n \in Past
    BY <1>1, <1>3
  <2>. HIDE DEF Past
  <2>. QED BY <2>1, LeastNumber
<1>5. i \in 0..n /\ x <= Len(Upto(ss, i))
  OBVIOUS
<1>6. i # 0
  <2>1. Upto(ss, 0) = <<>> /\ Len(<<>>) = 0
    BY FlattenStep
  <2>2. ~(x <= 0)
    BY <1>3
  <2>. QED BY <1>5, <2>1, <2>2
<1>7. i \in 1..n /\ i - 1 \in 0..n /\ ~(i <= i - 1)
  BY <1>1, <1>5, <1>6
<1>8. ~(x <= Len(Upto(ss, i - 1)))
  <2>1. i - 1 \notin Past
    <3>. HIDE DEF Past
    <3>. QED BY <1>4, <1>7
  <2>. QED BY <1>7, <2>1
<1>9. Len(Upto(ss, i)) = Len(Upto(ss, i - 1)) + Len(ss[i])
  <2>1. Upto(ss, i) = Upto(ss, i - 1) \o ss[i]
    BY <1>7, FlattenStep
  <2>. QED BY <1>1, <1>7, <2>1
<1>. DEFINE j == x - Len(Upto(ss, i - 1))
<1>10. j \in 1..Len(ss[i]) /\ x = Len(Upto(ss, i - 1)) + j
  <2>1. /\ Len(Upto(ss, i - 1)) \in Nat /\ Len(Upto(ss, i)) \in Nat /\ Len(ss[i]) \in Nat
    BY <1>1, <1>7
  <2>2. \A a, b, c \in Nat : b = a + c /\ x <= b /\ ~(x <= a) =>
          x - a \in 1..c /\ x = a + (x - a)
    BY <1>3
  <2>. QED BY <1>5, <1>8, <1>9, <2>1, <2>2
<1>. HIDE DEF j
<1>. QED BY <1>7, <1>10

\* A first sequence that is empty makes no difference.
LEMMA FlattenSkip ==
  ASSUME NEW S, NEW ss \in Seq(Seq(S)), NEW tt \in Seq(Seq(S)), NEW n \in Nat,
         n + 1 <= Len(ss), n <= Len(tt), ss[1] = <<>>, \A i \in 1..n : tt[i] = ss[i + 1]
  PROVE  \A m \in 0..n : Upto(tt, m) = Upto(ss, m + 1)
<1>. DEFINE Bad == {m \in 0..n : Upto(tt, m) # Upto(ss, m + 1)}
<1>. SUFFICES ASSUME Bad # {} PROVE FALSE
  OBVIOUS
<1>1. PICK k \in Bad : \A i \in Bad : k <= i
  <2>1. Bad \subseteq Nat
    OBVIOUS
  <2>. HIDE DEF Bad
  <2>. QED BY <2>1, LeastNumber
<1>2. k \in 0..n /\ Upto(tt, k) # Upto(ss, k + 1) /\ Len(ss) \in Nat /\ Len(tt) \in Nat
  OBVIOUS
<1>3. /\ Upto(ss, 0) = <<>> /\ \A m \in 1..Len(ss) : Upto(ss, m) = Upto(ss, m - 1) \o ss[m]
      /\ Upto(tt, 0) = <<>> /\ \A m \in 1..Len(tt) : Upto(tt, m) = Upto(tt, m - 1) \o tt[m]
  BY FlattenStep
<1>4. k # 0
  <2>1. 1 \in 1..Len(ss) /\ 1 - 1 = 0 /\ 0 + 1 = 1 /\ <<>> \o <<>> = <<>>
    BY <1>2
  <2>2. Upto(ss, 1) = Upto(ss, 1 - 1) \o ss[1]
    BY <1>3, <2>1
  <2>3. Upto(ss, 1) = <<>>
    BY <1>3, <2>1, <2>2
  <2>. QED BY <1>2, <1>3, <2>1, <2>3
<1>5. /\ k \in 1..n /\ k - 1 \in 0..n /\ ~(k <= k - 1)
      /\ k \in 1..Len(tt) /\ k + 1 \in 1..Len(ss) /\ (k + 1) - 1 = k /\ (k - 1) + 1 = k
  <2>. DEFINE a == Len(ss)
              b == Len(tt)
  <2>1. k \in 0..n /\ a \in Nat /\ b \in Nat /\ n + 1 <= a /\ n <= b
    BY <1>2
  <2>. HIDE DEF Bad, a, b
  <2>2. /\ k \in 1..n /\ k - 1 \in 0..n /\ ~(k <= k - 1)
        /\ k \in 1..b /\ k + 1 \in 1..a /\ (k + 1) - 1 = k /\ (k - 1) + 1 = k
    BY <1>4, <2>1
  <2>. QED BY <2>2 DEF a, b
<1>6. Upto(tt, k - 1) = Upto(ss, k)
  <2>1. k - 1 \notin Bad
    <3>. HIDE DEF Bad
    <3>. QED BY <1>1, <1>5
  <2>. QED BY <1>5, <2>1
<1>. QED BY <1>2, <1>3, <1>5, <1>6

-----------------------------------------------------------------------------
(* Where the chosen elements of a sequence stand.                             *)

Singles(s, X) == [i \in DOMAIN s |-> IF s[i] \in X THEN <<s[i]>> ELSE <<>>]

LEMMA AmongParts ==
  ASSUME NEW S, NEW s \in Seq(S), NEW X
  PROVE  /\ Singles(s, X) \in Seq(Seq(S)) /\ Len(Singles(s, X)) = Len(s)
         /\ \A i \in 1..Len(s) : Singles(s, X)[i] = IF s[i] \in X THEN <<s[i]>> ELSE <<>>
         /\ Among(s, X) = FlattenSeq(Singles(s, X))
         /\ \A m \in 0..Len(s) : Among(SubSeq(s, 1, m), X) = Upto(Singles(s, X), m)
<1>1. Len(s) \in Nat /\ DOMAIN s = 1..Len(s) /\ \A i \in 1..Len(s) : s[i] \in S
  OBVIOUS
<1>2. /\ Singles(s, X) = [i \in 1..Len(s) |-> IF s[i] \in X THEN <<s[i]>> ELSE <<>>]
      /\ \A i \in 1..Len(s) : (IF s[i] \in X THEN <<s[i]>> ELSE <<>>) \in Seq(S)
  BY <1>1 DEF Singles
<1>3. /\ Singles(s, X) \in Seq(Seq(S)) /\ Len(Singles(s, X)) = Len(s)
      /\ \A i \in 1..Len(s) : Singles(s, X)[i] = IF s[i] \in X THEN <<s[i]>> ELSE <<>>
  BY <1>1, <1>2
<1>4. ASSUME NEW m \in 0..Len(s)
      PROVE  Among(SubSeq(s, 1, m), X) = Upto(Singles(s, X), m)
  <2>1. SubSeq(s, 1, m) = [i \in 1..m |-> s[i]]
    BY <1>1
  <2>2. DOMAIN SubSeq(s, 1, m) = 1..m /\ \A i \in 1..m : SubSeq(s, 1, m)[i] = s[i]
    BY <2>1
  <2>3. \A i \in 1..m : Singles(s, X)[i] = IF s[i] \in X THEN <<s[i]>> ELSE <<>>
    <3>1. \A i \in 1..m : i \in 1..Len(s)
      BY <1>1
    <3>. QED BY <1>3, <3>1
  <2>4. [i \in DOMAIN SubSeq(s, 1, m) |->
           IF SubSeq(s, 1, m)[i] \in X THEN <<SubSeq(s, 1, m)[i]>> ELSE <<>>]
          = [i \in 1..m |-> Singles(s, X)[i]]
    BY <2>2, <2>3
  <2>. QED BY <2>4 DEF Among, Upto
<1>. QED BY <1>3, <1>4 DEF Among, Singles

LEMMA AmongRange ==
  ASSUME NEW S, NEW s \in Seq(S), NEW X
  PROVE  Among(s, X) \in Seq(S) /\ Range(Among(s, X)) = Range(s) \cap X
<1>. DEFINE ps == Singles(s, X)
<1>1. /\ ps \in Seq(Seq(S)) /\ Len(ps) = Len(s) /\ Among(s, X) = FlattenSeq(ps)
      /\ \A i \in 1..Len(s) : ps[i] = IF s[i] \in X THEN <<s[i]>> ELSE <<>>
  BY AmongParts
<1>2. DOMAIN s = 1..Len(s) /\ DOMAIN ps = 1..Len(s)
  BY <1>1
<1>. HIDE DEF ps
<1>3. /\ FlattenSeq(ps) \in Seq(S)
      /\ Range(FlattenSeq(ps)) = UNION {Range(ps[i]) : i \in DOMAIN ps}
  BY <1>1, RangeOfFlatten
<1>4. \A i \in 1..Len(s) : Range(ps[i]) = IF s[i] \in X THEN {s[i]} ELSE {}
  <2>1. Range(<<>>) = {} /\ \A x : Range(<<x>>) = {x}
    BY DEF Range
  <2>. QED BY <1>1, <2>1
<1>5. Range(s) = {s[i] : i \in 1..Len(s)}
  BY <1>2 DEF Range
<1>. QED BY <1>1, <1>2, <1>3, <1>4, <1>5

\* A chosen element comes after those that are chosen before it.
LEMMA AmongAt ==
  ASSUME NEW S, NEW s \in Seq(S), NEW X, NEW j \in 1..Len(s), s[j] \in X
  PROVE  /\ Len(Among(SubSeq(s, 1, j - 1), X)) + 1 \in 1..Len(Among(s, X))
         /\ Among(s, X)[Len(Among(SubSeq(s, 1, j - 1), X)) + 1] = s[j]
<1>. DEFINE ps == Singles(s, X)
<1>1. /\ ps \in Seq(Seq(S)) /\ Len(ps) = Len(s) /\ Among(s, X) = FlattenSeq(ps)
      /\ ps[j] = <<s[j]>>
      /\ \A m \in 0..Len(s) : Among(SubSeq(s, 1, m), X) = Upto(ps, m)
  BY AmongParts
<1>2. j - 1 \in 0..Len(s)
  OBVIOUS
<1>. HIDE DEF ps
<1>3. j \in 1..Len(ps) /\ 1 \in 1..Len(ps[j]) /\ ps[j][1] = s[j]
  BY <1>1
<1>4. /\ Len(Upto(ps, j - 1)) + 1 \in 1..Len(FlattenSeq(ps))
      /\ FlattenSeq(ps)[Len(Upto(ps, j - 1)) + 1] = ps[j][1]
  BY <1>1, <1>3, FlattenAt, ZenonT(30)
<1>. QED BY <1>1, <1>2, <1>3, <1>4

Matched(s, X, t, Y) == Len(s) = Len(t) /\ \A i \in 1..Len(s) : s[i] \in X <=> t[i] \in Y

\* As many are chosen of two sequences whose elements are chosen alike.
LEMMA AmongLens ==
  ASSUME NEW S, NEW s \in Seq(S), NEW X, NEW T, NEW t \in Seq(T), NEW Y,
         Matched(s, X, t, Y)
  PROVE  /\ Len(Among(s, X)) = Len(Among(t, Y))
         /\ \A m \in 0..Len(s) : Len(Among(SubSeq(s, 1, m), X)) = Len(Among(SubSeq(t, 1, m), Y))
<1>. DEFINE ps == Singles(s, X)
            qs == Singles(t, Y)
<1>1. /\ ps \in Seq(Seq(S)) /\ Len(ps) = Len(s) /\ Among(s, X) = FlattenSeq(ps)
      /\ \A i \in 1..Len(s) : ps[i] = IF s[i] \in X THEN <<s[i]>> ELSE <<>>
      /\ \A m \in 0..Len(s) : Among(SubSeq(s, 1, m), X) = Upto(ps, m)
  BY AmongParts
<1>2. /\ qs \in Seq(Seq(T)) /\ Len(qs) = Len(t) /\ Among(t, Y) = FlattenSeq(qs)
      /\ \A i \in 1..Len(t) : qs[i] = IF t[i] \in Y THEN <<t[i]>> ELSE <<>>
      /\ \A m \in 0..Len(t) : Among(SubSeq(t, 1, m), Y) = Upto(qs, m)
  BY AmongParts
<1>. HIDE DEF ps, qs
<1>3. \A i \in 1..Len(ps) : Len(ps[i]) = Len(qs[i])
  <2>. SUFFICES ASSUME NEW i \in 1..Len(s) PROVE Len(ps[i]) = Len(qs[i])
    BY <1>1
  <2>1. /\ ps[i] = IF s[i] \in X THEN <<s[i]>> ELSE <<>>
        /\ qs[i] = IF t[i] \in Y THEN <<t[i]>> ELSE <<>>
        /\ s[i] \in X <=> t[i] \in Y
    BY <1>1, <1>2 DEF Matched
  <2>2. \A x, y : Len(<<x>>) = Len(<<y>>)
    OBVIOUS
  <2>. QED BY <2>1, <2>2
<1>4. \A m \in 0..Len(ps) : Len(Upto(ps, m)) = Len(Upto(qs, m))
  <2>1. ps \in Seq(Seq(S)) /\ qs \in Seq(Seq(T))
    BY <1>1, <1>2
  <2>2. Alike(ps, qs)
    BY <1>1, <1>2, <1>3 DEF Alike, Matched
  <2>. QED BY <2>1, <2>2, FlattenLens
<1>5. FlattenSeq(ps) = Upto(ps, Len(ps)) /\ FlattenSeq(qs) = Upto(qs, Len(qs))
  BY <1>1, <1>2, FlattenStep
<1>6. Len(ps) \in 0..Len(ps)
  BY <1>1
<1>. QED BY <1>1, <1>2, <1>4, <1>5, <1>6 DEF Matched

\* It makes no difference where an element stands that is not chosen.
LEMMA AmongMoved ==
  ASSUME NEW S, NEW s \in Seq(S), NEW X, s # <<>>, s[1] \notin X
  PROVE  Among(Tail(s) \o <<Head(s)>>, X) = Among(s, X)
<1>. DEFINE t == Tail(s) \o <<Head(s)>>
            n == Len(s)
            ps == Singles(s, X)
            qs == Singles(t, X)
<1>1. /\ n \in Nat /\ n >= 1 /\ t \in Seq(S) /\ Len(t) = n
      /\ \A i \in 1..(n - 1) : t[i] = s[i + 1]
      /\ t[n] = s[1]
  <2>1. n \in Nat /\ n >= 1
    OBVIOUS
  <2>2. /\ Tail(s) \in Seq(S) /\ Len(Tail(s)) = n - 1 /\ Head(s) = s[1]
        /\ \A i \in 1..(n - 1) : Tail(s)[i] = s[i + 1]
    BY <2>1
  <2>3. s[1] \in S
    BY <2>1
  <2>4. \A u \in Seq(S) : \A x \in S :
          /\ u \o <<x>> \in Seq(S) /\ Len(u \o <<x>>) = Len(u) + 1
          /\ (u \o <<x>>)[Len(u) + 1] = x
          /\ \A i \in 1..Len(u) : (u \o <<x>>)[i] = u[i]
    OBVIOUS
  <2>. QED BY <2>1, <2>2, <2>3, <2>4
<1>2. /\ ps \in Seq(Seq(S)) /\ Len(ps) = n /\ Among(s, X) = FlattenSeq(ps)
      /\ \A i \in 1..n : ps[i] = IF s[i] \in X THEN <<s[i]>> ELSE <<>>
  BY AmongParts
<1>3. /\ qs \in Seq(Seq(S)) /\ Len(qs) = n /\ Among(t, X) = FlattenSeq(qs)
      /\ \A i \in 1..n : qs[i] = IF t[i] \in X THEN <<t[i]>> ELSE <<>>
  <2>. HIDE DEF t
  <2>. QED BY <1>1, AmongParts
<1>. HIDE DEF t, n, ps, qs
<1>4. n - 1 \in Nat /\ n \in 1..n /\ 1 \in 1..n /\ (n - 1) + 1 = n /\ n - 1 \in 0..(n - 1)
  BY <1>1
<1>5. ps[1] = <<>> /\ qs[n] = <<>>
  BY <1>1, <1>2, <1>3, <1>4
<1>6. \A i \in 1..(n - 1) : qs[i] = ps[i + 1]
  <2>1. \A i \in 1..(n - 1) : i \in 1..n /\ i + 1 \in 1..n
    BY <1>1
  <2>. QED BY <1>1, <1>2, <1>3, <2>1
<1>7. Upto(qs, n - 1) = Upto(ps, n)
  <2>1. \A m \in 0..(n - 1) : Upto(qs, m) = Upto(ps, m + 1)
    <3>. DEFINE k == n - 1
    <3>1. k \in Nat /\ k + 1 = n /\ k <= n /\ n <= n
      BY <1>1, <1>4
    <3>2. ps \in Seq(Seq(S)) /\ qs \in Seq(Seq(S)) /\ Len(ps) = n /\ Len(qs) = n
      BY <1>2, <1>3
    <3>3. ps[1] = <<>> /\ \A i \in 1..k : qs[i] = ps[i + 1]
      BY <1>5, <1>6
    <3>. HIDE DEF k
    <3>4. k + 1 <= Len(ps) /\ k <= Len(qs)
      BY <3>1, <3>2
    <3>5. \A m \in 0..k : Upto(qs, m) = Upto(ps, m + 1)
      BY <3>1, <3>2, <3>3, <3>4, FlattenSkip
    <3>. QED BY <3>5 DEF k
  <2>. QED BY <1>4, <2>1
<1>8. /\ Upto(qs, n) = Upto(qs, n - 1) \o qs[n] /\ FlattenSeq(qs) = Upto(qs, n)
  BY <1>3, <1>4, FlattenStep
<1>9. Upto(ps, n) \in Seq(S) /\ FlattenSeq(ps) = Upto(ps, n)
  <2>1. n \in 0..n
    BY <1>1
  <2>. QED BY <1>2, <2>1, FlattenStep
<1>10. Upto(ps, n) \o <<>> = Upto(ps, n)
  BY <1>9
<1>. QED BY <1>2, <1>3, <1>5, <1>7, <1>8, <1>9, <1>10 DEF t

-----------------------------------------------------------------------------
(* Each value meets its placeholder.                                          *)

Operands == Columns \cup Bindings

Terms(lp) == {Term(lp, x) : x \in Operands}

\* What the compiler can write: a list is looked up by a column, and all columns have an
\* alias.
Writable(lp, e) ==
  /\ e \in Expressions
  /\ e.op = "in" => e.args # <<>> /\ e.args[1] \in Columns
  /\ \A c \in ColumnsIn(e) : Term(lp, c).alias \in Nat

LEMMA OperandsWritten ==
  ASSUME NEW lp, NEW e, Writable(lp, e)
  PROVE  /\ e.args \in Seq(Operands) /\ Written(lp, e).args \in Seq(Terms(lp))
         /\ DOMAIN e.args = 1..Len(e.args) /\ Len(Written(lp, e).args) = Len(e.args)
         /\ \A j \in 1..Len(e.args) :
              /\ Written(lp, e).args[j] = Term(lp, e.args[j])
              /\ e.args[j] \in Bindings <=> e.args[j] \notin Columns
              /\ e.args[j] \in Bindings <=> Term(lp, e.args[j]) = Placeholder
<1>1. e.args \in Seq(Operands)
  BY DEF Writable, Expressions, Operands
<1>2. Len(e.args) \in Nat /\ DOMAIN e.args = 1..Len(e.args) /\ \A j \in 1..Len(e.args) : e.args[j] \in Operands
  BY <1>1
<1>3. Written(lp, e).args = [j \in 1..Len(e.args) |-> Term(lp, e.args[j])]
  BY <1>2 DEF Written, Predicate
<1>4. \A j \in 1..Len(e.args) : Term(lp, e.args[j]) \in Terms(lp)
  BY <1>2 DEF Terms
<1>5. Written(lp, e).args \in Seq(Terms(lp)) /\ Len(Written(lp, e).args) = Len(e.args)
  BY <1>2, <1>3, <1>4
<1>6. ASSUME NEW j \in 1..Len(e.args)
      PROVE  /\ e.args[j] \in Bindings <=> e.args[j] \notin Columns
             /\ e.args[j] \in Bindings <=> Term(lp, e.args[j]) = Placeholder
  <2>1. e.args[j] \in Bindings <=> e.args[j] \notin Columns
    BY <1>2, CatalogAssumption DEF Operands
  <2>2. CASE e.args[j] \in Columns
    <3>1. e.args[j] \in ColumnsIn(e)
      BY <1>2, <2>2 DEF ColumnsIn, Range
    <3>2. Term(lp, e.args[j]).alias \in Nat
      BY <3>1 DEF Writable
    <3>3. Placeholder.alias = -1 /\ -1 \notin Nat
      BY DEF Placeholder, Ref
    <3>. QED BY <2>1, <2>2, <3>2, <3>3
  <2>3. CASE e.args[j] \notin Columns
    BY <2>1, <2>3 DEF Term
  <2>. QED BY <2>1, <2>2, <2>3
<1>. QED BY <1>1, <1>2, <1>3, <1>5, <1>6

\* As many values come before an operand as placeholders come before its term.
LEMMA OperandsCounted ==
  ASSUME NEW lp, NEW e, Writable(lp, e)
  PROVE  /\ Among(Emitted(e), Bindings) = Among(e.args, Bindings)
         /\ Among(e.args, Bindings) \in Seq(Operands)
         /\ Among(Written(lp, e).args, {Placeholder}) \in Seq(Terms(lp))
         /\ Len(Among(e.args, Bindings)) = Len(Among(Written(lp, e).args, {Placeholder}))
         /\ \A m \in 0..Len(e.args) :
              Len(Among(SubSeq(e.args, 1, m), Bindings))
                = Len(Among(SubSeq(Written(lp, e).args, 1, m), {Placeholder}))
<1>. DEFINE s == e.args
            t == Written(lp, e).args
<1>1. /\ s \in Seq(Operands) /\ t \in Seq(Terms(lp)) /\ Len(s) = Len(t)
      /\ \A j \in 1..Len(s) : s[j] \in Bindings <=> t[j] \in {Placeholder}
  BY OperandsWritten
<1>2. Among(Emitted(e), Bindings) = Among(s, Bindings)
  <2>1. CASE e.op # "in"
    BY <2>1 DEF Emitted
  <2>2. CASE e.op = "in"
    <3>1. s # <<>> /\ s[1] \notin Bindings
      BY <2>2, CatalogAssumption DEF Writable
    <3>2. Among(Tail(s) \o <<Head(s)>>, Bindings) = Among(s, Bindings)
      <4>. HIDE DEF s
      <4>. QED BY <1>1, <3>1, AmongMoved
    <3>. QED BY <2>2, <3>2 DEF Emitted
  <2>. QED BY <2>1, <2>2
<1>. HIDE DEF s, t
<1>3. Among(s, Bindings) \in Seq(Operands) /\ Among(t, {Placeholder}) \in Seq(Terms(lp))
  BY <1>1, AmongRange
<1>4. /\ Len(Among(s, Bindings)) = Len(Among(t, {Placeholder}))
      /\ \A m \in 0..Len(s) : Len(Among(SubSeq(s, 1, m), Bindings))
                                = Len(Among(SubSeq(t, 1, m), {Placeholder}))
  <2>1. Matched(s, Bindings, t, {Placeholder})
    BY <1>1 DEF Matched
  <2>. DEFINE Y == {Placeholder}
              T == Terms(lp)
  <2>2. s \in Seq(Operands) /\ t \in Seq(T) /\ Matched(s, Bindings, t, Y)
    BY <1>1, <2>1
  <2>. HIDE DEF Y, T
  <2>3. /\ Len(Among(s, Bindings)) = Len(Among(t, Y))
        /\ \A m \in 0..Len(s) : Len(Among(SubSeq(s, 1, m), Bindings)) = Len(Among(SubSeq(t, 1, m), Y))
    BY <2>2, AmongLens
  <2>. QED BY <2>3 DEF Y
<1>. QED BY <1>2, <1>3, <1>4 DEF s, t

\* An operand with its value.
Given(lp, x) == IF x \in Columns THEN Term(lp, x) ELSE [alias |-> -1, value |-> Values[x]]

GivenAll(lp, e) == Predicate(e.op, [j \in DOMAIN e.args |-> Given(lp, e.args[j])])

\* By position alone, each placeholder gets the value it was written for.
LEMMA ValuesMeet ==
  ASSUME NEW lp, NEW es \in Seq(Expressions), \A e \in Range(es) : Writable(lp, e)
  PROVE  /\ Len(Filled(AllWritten(lp, es), Bound(es))) = Len(es)
         /\ Filled(AllWritten(lp, es), Bound(es)) = [i \in 1..Len(es) |-> GivenAll(lp, es[i])]
         /\ Len(Placeholders(AllWritten(lp, es))) = Len(Bound(es))
<1>. DEFINE ws == AllWritten(lp, es)
            n == Len(es)
            bs == [i \in 1..n |-> Among(Emitted(es[i]), Bindings)]
            ps == [i \in 1..n |-> Among(ws[i].args, {Placeholder})]
<1>1. /\ n \in Nat /\ DOMAIN es = 1..n
      /\ \A i \in 1..n : es[i] \in Range(es) /\ es[i] \in Expressions
  BY DEF Range
<1>2. DOMAIN ws = 1..n /\ Len(ws) = n /\ \A i \in 1..n : ws[i] = Written(lp, es[i])
  BY <1>1, WrittenInOrder
<1>3. \A i \in 1..n : Writable(lp, es[i])
  BY <1>1
<1>4. Bound(es) = FlattenSeq(bs)
  BY <1>1 DEF Bound
<1>5. /\ \A i \in 1..n : bs[i] = Among(es[i].args, Bindings) /\ bs[i] \in Seq(Operands)
      /\ bs \in Seq(Seq(Operands)) /\ Len(bs) = n
  <2>1. \A i \in 1..n : /\ Among(Emitted(es[i]), Bindings) = Among(es[i].args, Bindings)
                        /\ Among(Emitted(es[i]), Bindings) \in Seq(Operands)
    BY <1>3, OperandsCounted
  <2>. QED BY <1>1, <2>1
<1>6. /\ \A i \in 1..n : ps[i] = Among(Written(lp, es[i]).args, {Placeholder})
      /\ ps \in Seq(Seq(Terms(lp))) /\ Len(ps) = n
  <2>1. \A i \in 1..n : /\ Among(ws[i].args, {Placeholder}) = Among(Written(lp, es[i]).args, {Placeholder})
                        /\ Among(ws[i].args, {Placeholder}) \in Seq(Terms(lp))
    BY <1>2, <1>3, OperandsCounted
  <2>. HIDE DEF ws
  <2>2. \A i \in 1..n : /\ ps[i] = Among(Written(lp, es[i]).args, {Placeholder})
                        /\ ps[i] \in Seq(Terms(lp))
    BY <2>1
  <2>3. ps = [i \in 1..n |-> ps[i]]
    OBVIOUS
  <2>. HIDE DEF n, ps
  <2>4. ps \in Seq(Seq(Terms(lp))) /\ Len(ps) = n
    BY <1>1, <2>2, <2>3
  <2>. QED BY <2>2, <2>4
<1>7. \A m \in 0..n : Placeholders(SubSeq(ws, 1, m)) = Upto(ps, m)
  <2>. SUFFICES ASSUME NEW m \in 0..n PROVE Placeholders(SubSeq(ws, 1, m)) = Upto(ps, m)
    OBVIOUS
  <2>1. ws \in Seq({Written(lp, e) : e \in Expressions})
    BY WrittenInOrder
  <2>. HIDE DEF ws
  <2>2. SubSeq(ws, 1, m) = [i \in 1..m |-> ws[i]]
    BY <1>1, <1>2, <2>1
  <2>3. [i \in DOMAIN SubSeq(ws, 1, m) |-> Among(SubSeq(ws, 1, m)[i].args, {Placeholder})]
          = [i \in 1..m |-> Among(ws[i].args, {Placeholder})]
    BY <2>2
  <2>4. \A i \in 1..m : ps[i] = Among(ws[i].args, {Placeholder})
    BY <1>1
  <2>5. [i \in 1..m |-> Among(ws[i].args, {Placeholder})] = [i \in 1..m |-> ps[i]]
    <3>. HIDE DEF ps
    <3>. QED BY <2>4
  <2>. QED BY <2>3, <2>5 DEF Placeholders, Upto
<1>8. Alike(bs, ps)
  <2>1. \A i \in 1..n : Len(bs[i]) = Len(ps[i])
    <3>. HIDE DEF bs, ps, ws
    <3>. SUFFICES ASSUME NEW i \in 1..n PROVE Len(bs[i]) = Len(ps[i])
      OBVIOUS
    <3>1. Len(Among(es[i].args, Bindings)) = Len(Among(Written(lp, es[i]).args, {Placeholder}))
      BY <1>3, OperandsCounted
    <3>. QED BY <1>5, <1>6, <3>1
  <2>. HIDE DEF bs, ps
  <2>. QED BY <1>5, <1>6, <2>1 DEF Alike
<1>. HIDE DEF ws, n, bs, ps
<1>9. \A m \in 0..n : Len(Upto(bs, m)) = Len(Upto(ps, m))
  BY <1>5, <1>6, <1>8, FlattenLens
<1>10. ASSUME NEW i \in 1..n, NEW j \in 1..Len(es[i].args), es[i].args[j] \in Bindings
       PROVE  Bound(es)[Before(ws, i, j) + 1] = es[i].args[j]
  <2>. DEFINE s == es[i].args
              y == Len(Among(SubSeq(s, 1, j - 1), Bindings))
  <2>1. i - 1 \in 0..n /\ s \in Seq(Operands) /\ Len(s) \in Nat /\ j - 1 \in 0..Len(s)
    <3>1. s \in Seq(Operands)
      BY <1>3, OperandsWritten
    <3>. QED BY <1>1, <3>1
  <2>2. Before(ws, i, j) = Len(Upto(bs, i - 1)) + y
    <3>1. Len(Placeholders(SubSeq(ws, 1, i - 1))) = Len(Upto(bs, i - 1))
      BY <1>7, <1>9, <2>1
    <3>2. Len(Among(SubSeq(ws[i].args, 1, j - 1), {Placeholder})) = y
      <4>1. \A m \in 0..Len(s) : Len(Among(SubSeq(s, 1, m), Bindings))
                                 = Len(Among(SubSeq(Written(lp, es[i]).args, 1, m), {Placeholder}))
        BY <1>3, OperandsCounted
      <4>. HIDE DEF s
      <4>. QED BY <1>2, <2>1, <4>1
    <3>. QED BY <3>1, <3>2 DEF Before
  <2>3. y + 1 \in 1..Len(bs[i]) /\ bs[i][y + 1] = s[j]
    <3>1. s[j] \in Bindings
      BY <1>10
    <3>. HIDE DEF s
    <3>2. /\ Len(Among(SubSeq(s, 1, j - 1), Bindings)) + 1 \in 1..Len(Among(s, Bindings))
          /\ Among(s, Bindings)[Len(Among(SubSeq(s, 1, j - 1), Bindings)) + 1] = s[j]
      BY <2>1, <3>1, AmongAt DEF s
    <3>. QED BY <1>5, <3>2 DEF s
  <2>. HIDE DEF y, s
  <2>4. FlattenSeq(bs)[Len(Upto(bs, i - 1)) + (y + 1)] = bs[i][y + 1]
    <3>1. i \in 1..Len(bs)
      BY <1>5
    <3>2. \A x \in 1..Len(bs[i]) : FlattenSeq(bs)[Len(Upto(bs, i - 1)) + x] = bs[i][x]
      BY <1>5, <3>1, FlattenAt
    <3>. QED BY <2>3, <3>2
  <2>5. (Len(Upto(bs, i - 1)) + y) + 1 = Len(Upto(bs, i - 1)) + (y + 1)
    <3>1. Len(Upto(bs, i - 1)) \in Nat
      <4>1. \A m \in 0..Len(bs) : Upto(bs, m) \in Seq(Operands)
        BY <1>5, FlattenStep
      <4>2. Upto(bs, i - 1) \in Seq(Operands)
        BY <1>5, <2>1, <4>1
      <4>. QED BY <4>2
    <3>2. y \in Int
      <4>1. SubSeq(s, 1, j - 1) \in Seq(Operands)
        BY <2>1
      <4>2. Among(SubSeq(s, 1, j - 1), Bindings) \in Seq(Operands)
        BY <4>1, AmongRange
      <4>. QED BY <4>2 DEF y
    <3>. QED BY <3>1, <3>2
  <2>. QED BY <1>4, <2>2, <2>3, <2>4, <2>5 DEF s
<1>11. ASSUME NEW i \in 1..n PROVE Filled(ws, Bound(es))[i] = GivenAll(lp, es[i])
  <2>. DEFINE Put(j) == IF ws[i].args[j] = Placeholder
                          THEN [alias |-> -1, value |-> Values[Bound(es)[Before(ws, i, j) + 1]]]
                          ELSE ws[i].args[j]
              m == Len(es[i].args)
  <2>1. Filled(ws, Bound(es))[i] = Predicate(ws[i].op, [j \in DOMAIN ws[i].args |-> Put(j)])
    BY <1>2 DEF Filled
  <2>2. ws[i].op = es[i].op /\ DOMAIN ws[i].args = 1..m /\ DOMAIN es[i].args = 1..m
    <3>1. ws[i] = Written(lp, es[i]) /\ Writable(lp, es[i])
      BY <1>2, <1>3
    <3>2. Written(lp, es[i]).op = es[i].op
      BY DEF Written, Predicate
    <3>3. Written(lp, es[i]).args \in Seq(Terms(lp)) /\ Len(Written(lp, es[i]).args) = m
          /\ DOMAIN es[i].args = 1..m
      BY <3>1, OperandsWritten
    <3>. QED BY <3>1, <3>2, <3>3
  <2>3. ASSUME NEW j \in 1..m PROVE Put(j) = Given(lp, es[i].args[j])
    <3>1. /\ ws[i].args[j] = Term(lp, es[i].args[j])
          /\ es[i].args[j] \in Bindings <=> es[i].args[j] \notin Columns
          /\ es[i].args[j] \in Bindings <=> Term(lp, es[i].args[j]) = Placeholder
      BY <1>2, <1>3, OperandsWritten
    <3>. QED BY <1>10, <3>1 DEF Given
  <2>. HIDE DEF Put, m
  <2>4. [j \in DOMAIN ws[i].args |-> Put(j)] = [j \in DOMAIN es[i].args |-> Given(lp, es[i].args[j])]
    BY <2>2, <2>3
  <2>. QED BY <2>1, <2>2, <2>4 DEF GivenAll
<1>12. /\ DOMAIN Filled(ws, Bound(es)) = 1..n
       /\ Filled(ws, Bound(es)) = [i \in 1..n |-> Filled(ws, Bound(es))[i]]
  BY <1>2 DEF Filled
<1>13. Filled(ws, Bound(es)) = [i \in 1..n |-> GivenAll(lp, es[i])]
  BY <1>11, <1>12
<1>14. Len(Placeholders(ws)) = Len(Bound(es))
  <2>1. n \in 0..n
    BY <1>1
  <2>2. SubSeq(ws, 1, n) = ws
    <3>1. ws \in Seq({Written(lp, e) : e \in Expressions})
      BY WrittenInOrder DEF ws
    <3>. QED BY <1>2, <3>1
  <2>3. FlattenSeq(bs) = Upto(bs, n)
    BY <1>5, FlattenStep
  <2>. QED BY <1>4, <1>7, <1>9, <2>1, <2>2, <2>3
<1>. QED BY <1>1, <1>13, <1>14 DEF ws, n

-----------------------------------------------------------------------------
(* The clauses of a text with their values.                                   *)

Writings(lp) == {Written(lp, e) : e \in Expressions}

LEMMA PredicatesWritten ==
  ASSUME NEW lp, NEW es \in Seq(Expressions)
  PROVE  /\ AllWritten(lp, es) \in Seq(Writings(lp)) /\ Len(AllWritten(lp, es)) = Len(es)
         /\ \A j \in DOMAIN es : AllWritten(lp, es)[j] = Written(lp, es[j])
BY WrittenInOrder DEF Writings

WrittenFor(lp, ss, tt) ==
  /\ DOMAIN tt = DOMAIN ss /\ tt = [k \in DOMAIN tt |-> tt[k]]
  /\ \A k \in DOMAIN ss : tt[k] = AllWritten(lp, ss[k])

\* What is written for sequences of predicates is written for them one after the other.
LEMMA FlattenWritten ==
  ASSUME NEW lp, NEW ss \in Seq(Seq(Expressions)), NEW tt, WrittenFor(lp, ss, tt)
  PROVE  /\ FlattenSeq(tt) = AllWritten(lp, FlattenSeq(ss))
         /\ FlattenSeq(tt) \in Seq(Writings(lp))
         /\ \A m \in 0..Len(ss) : Len(Upto(tt, m)) = Len(Upto(ss, m))
<1>. DEFINE n == Len(ss)
            W == Writings(lp)
<1>1. n \in Nat /\ DOMAIN ss = 1..n /\ \A k \in 1..n : ss[k] \in Seq(Expressions)
  OBVIOUS
<1>2. \A k \in 1..n : /\ tt[k] \in Seq(W) /\ Len(tt[k]) = Len(ss[k])
                      /\ \A j \in DOMAIN ss[k] : tt[k][j] = Written(lp, ss[k][j])
  <2>1. \A es \in Seq(Expressions) :
          /\ AllWritten(lp, es) \in Seq(W) /\ Len(AllWritten(lp, es)) = Len(es)
          /\ \A j \in DOMAIN es : AllWritten(lp, es)[j] = Written(lp, es[j])
    BY PredicatesWritten
  <2>2. \A k \in 1..n : tt[k] = AllWritten(lp, ss[k]) /\ ss[k] \in Seq(Expressions)
    BY <1>1 DEF WrittenFor
  <2>. HIDE DEF W
  <2>. QED BY <2>1, <2>2
<1>3. tt \in Seq(Seq(W)) /\ Len(tt) = n
  <2>1. tt = [k \in 1..n |-> tt[k]]
    BY <1>1 DEF WrittenFor
  <2>2. n \in Nat /\ \A k \in 1..n : tt[k] \in Seq(W)
    BY <1>1, <1>2
  <2>. HIDE DEF n, W
  <2>. QED BY <2>1, <2>2
<1>4. Alike(ss, tt)
  BY <1>1, <1>2, <1>3 DEF Alike
<1>. HIDE DEF W
<1>5. \A m \in 0..n : Len(Upto(ss, m)) = Len(Upto(tt, m))
  BY <1>3, <1>4, FlattenLens
<1>. DEFINE a == FlattenSeq(ss)
            b == FlattenSeq(tt)
<1>6. a \in Seq(Expressions) /\ b \in Seq(W) /\ Len(a) = Len(b)
  <2>1. a \in Seq(Expressions) /\ b \in Seq(W)
    BY <1>3, RangeOfFlatten
  <2>2. a = Upto(ss, n) /\ b = Upto(tt, n) /\ n \in 0..n
    <3>1. Upto(ss, Len(ss)) = a
      BY FlattenStep
    <3>2. Upto(tt, Len(tt)) = b
      BY <1>3, FlattenStep
    <3>. QED BY <1>1, <1>3, <3>1, <3>2
  <2>. QED BY <1>5, <2>1, <2>2
<1>7. ASSUME NEW x \in 1..Len(a) PROVE b[x] = Written(lp, a[x])
  <2>1. PICK i \in 1..n : \E j \in 1..Len(ss[i]) : x = Len(Upto(ss, i - 1)) + j
    BY FlattenFrom
  <2>2. PICK j \in 1..Len(ss[i]) : x = Len(Upto(ss, i - 1)) + j
    BY <2>1
  <2>3. a[x] = ss[i][j]
    BY <2>2, FlattenAt
  <2>4. b[Len(Upto(tt, i - 1)) + j] = tt[i][j]
    <3>1. i \in 1..Len(tt) /\ j \in 1..Len(tt[i])
      BY <1>2, <1>3
    <3>. QED BY <1>3, <3>1, FlattenAt
  <2>5. Len(Upto(tt, i - 1)) = Len(Upto(ss, i - 1))
    <3>1. i - 1 \in 0..n
      BY <1>1
    <3>. QED BY <1>5, <3>1
  <2>6. j \in DOMAIN ss[i]
    BY <1>1
  <2>. QED BY <1>2, <2>2, <2>3, <2>4, <2>5, <2>6
<1>. HIDE DEF a, b
<1>8. b = AllWritten(lp, a)
  <2>1. DOMAIN a = 1..Len(a) /\ b = [x \in 1..Len(a) |-> b[x]]
    BY <1>6
  <2>2. AllWritten(lp, a) = [x \in 1..Len(a) |-> Written(lp, a[x])]
    BY <2>1 DEF AllWritten
  <2>. QED BY <1>7, <2>1, <2>2
<1>. QED BY <1>5, <1>6, <1>8 DEF a, b, W

\* What is joined on, of the scans in order.
Joined(lp) == [k \in 1..Len(lp.joins) + 1 |-> IF k = 1 THEN <<>> ELSE lp.joins[k - 1].predicates]

LEMMA JoinedInOrder ==
  ASSUME NEW lp, AsBound(plan), lp = Lower(plan)
  PROVE  /\ Len(plan.joins) \in Nat
         /\ Joined(lp) \in Seq(Seq(Expressions)) /\ Len(Joined(lp)) = Len(plan.joins) + 1
         /\ Joined(lp)[1] = <<>>
         /\ \A i \in 1..Len(plan.joins) :
              /\ Joined(lp)[i + 1] = Relationships[plan.joins[i].rel].predicates
              /\ Joined(lp)[i + 1] = lp.joins[i].predicates
         /\ FlattenSeq([i \in DOMAIN lp.joins |-> lp.joins[i].predicates]) = FlattenSeq(Joined(lp))
<1>. DEFINE n == Len(plan.joins)
            ss == Joined(lp)
            tt == [i \in DOMAIN lp.joins |-> lp.joins[i].predicates]
<1>1. /\ n \in Nat /\ Len(lp.joins) = n /\ DOMAIN lp.joins = 1..n
      /\ \A i \in 1..n : /\ lp.joins[i].predicates = Relationships[plan.joins[i].rel].predicates
                         /\ lp.joins[i].predicates \in Seq(Expressions)
  BY PlanTyped, JoinsLowered
<1>2. ss = [k \in 1..n + 1 |-> IF k = 1 THEN <<>> ELSE lp.joins[k - 1].predicates]
  BY <1>1 DEF Joined
<1>. HIDE DEF n, ss
<1>3. \A k \in 1..n + 1 : (IF k = 1 THEN <<>> ELSE lp.joins[k - 1].predicates) \in Seq(Expressions)
  <2>1. \A k \in 1..n + 1 : k # 1 => k - 1 \in 1..n
    BY <1>1
  <2>2. <<>> \in Seq(Expressions)
    OBVIOUS
  <2>. QED BY <1>1, <2>1, <2>2
<1>4. /\ ss \in Seq(Seq(Expressions)) /\ Len(ss) = n + 1 /\ ss[1] = <<>>
      /\ \A i \in 1..n : ss[i + 1] = lp.joins[i].predicates
  BY <1>1, <1>2, <1>3
<1>5. tt = [i \in 1..n |-> lp.joins[i].predicates]
  BY <1>1
<1>6. tt \in Seq(Seq(Expressions)) /\ Len(tt) = n /\ \A i \in 1..n : tt[i] = ss[i + 1]
  BY <1>1, <1>4, <1>5
<1>. HIDE DEF tt
<1>7. \A m \in 0..n : Upto(tt, m) = Upto(ss, m + 1)
  <2>. DEFINE E == Expressions
  <2>1. ss \in Seq(Seq(E)) /\ tt \in Seq(Seq(E)) /\ n \in Nat /\ n + 1 <= Len(ss) /\ n <= Len(tt)
    BY <1>1, <1>4, <1>6
  <2>. HIDE DEF E
  <2>. QED BY <1>4, <1>6, <2>1, FlattenSkip
<1>8. Upto(tt, n) = FlattenSeq(tt) /\ Upto(ss, n + 1) = FlattenSeq(ss) /\ n \in 0..n
  <2>1. Upto(tt, Len(tt)) = FlattenSeq(tt) /\ Upto(ss, Len(ss)) = FlattenSeq(ss)
    BY <1>4, <1>6, FlattenStep
  <2>. QED BY <1>1, <1>4, <1>6, <2>1
<1>9. FlattenSeq(tt) = FlattenSeq(ss)
  BY <1>7, <1>8
<1>. QED BY <1>1, <1>4, <1>9 DEF n, ss, tt

LEMMA ConcatAt ==
  ASSUME NEW S, NEW s \in Seq(S), NEW t \in Seq(S)
  PROVE  /\ s \o t \in Seq(S) /\ Len(s \o t) = Len(s) + Len(t)
         /\ Len(s) \in Nat /\ Len(t) \in Nat
         /\ \A j \in 1..Len(s) : (s \o t)[j] = s[j]
         /\ \A j \in 1..Len(t) : (s \o t)[Len(s) + j] = t[j]
OBVIOUS

LEMMA WrittenConcat ==
  ASSUME NEW lp, NEW a \in Seq(Expressions), NEW b \in Seq(Expressions)
  PROVE  AllWritten(lp, a) \o AllWritten(lp, b) = AllWritten(lp, a \o b)
<1>. DEFINE W == Writings(lp)
            p == AllWritten(lp, a)
            q == AllWritten(lp, b)
            c == a \o b
            r == AllWritten(lp, c)
<1>1. /\ p \in Seq(W) /\ Len(p) = Len(a) /\ \A j \in 1..Len(a) : p[j] = Written(lp, a[j])
      /\ q \in Seq(W) /\ Len(q) = Len(b) /\ \A j \in 1..Len(b) : q[j] = Written(lp, b[j])
  <2>1. DOMAIN a = 1..Len(a) /\ DOMAIN b = 1..Len(b)
    OBVIOUS
  <2>. QED BY <2>1, PredicatesWritten
<1>2. /\ c \in Seq(Expressions) /\ Len(c) = Len(a) + Len(b) /\ Len(a) \in Nat /\ Len(b) \in Nat
      /\ \A j \in 1..Len(a) : c[j] = a[j]
      /\ \A j \in 1..Len(b) : c[Len(a) + j] = b[j]
  BY ConcatAt
<1>3. r \in Seq(W) /\ Len(r) = Len(c) /\ \A j \in 1..Len(c) : r[j] = Written(lp, c[j])
  <2>. HIDE DEF c
  <2>1. DOMAIN c = 1..Len(c)
    BY <1>2
  <2>. QED BY <1>2, <2>1, PredicatesWritten
<1>. HIDE DEF p, q, c, r, W
<1>4. /\ p \o q \in Seq(W) /\ Len(p \o q) = Len(a) + Len(b)
      /\ \A j \in 1..Len(a) : (p \o q)[j] = p[j]
      /\ \A j \in 1..Len(b) : (p \o q)[Len(a) + j] = q[j]
  <2>1. p \in Seq(W) /\ q \in Seq(W) /\ Len(p) = Len(a) /\ Len(q) = Len(b)
    BY <1>1
  <2>2. /\ p \o q \in Seq(W) /\ Len(p \o q) = Len(p) + Len(q)
        /\ \A j \in 1..Len(p) : (p \o q)[j] = p[j]
        /\ \A j \in 1..Len(q) : (p \o q)[Len(p) + j] = q[j]
    BY <2>1, ConcatAt
  <2>. QED BY <2>1, <2>2
<1>5. ASSUME NEW j \in 1..Len(c) PROVE (p \o q)[j] = r[j]
  <2>1. CASE j <= Len(a)
    <3>1. j \in 1..Len(a)
      BY <1>2, <2>1
    <3>. QED BY <1>1, <1>2, <1>3, <1>4, <3>1
  <2>2. CASE ~(j <= Len(a))
    <3>. DEFINE i == j - Len(a)
    <3>1. i \in 1..Len(b) /\ Len(a) + i = j
      BY <1>2, <2>2
    <3>. HIDE DEF i
    <3>2. (p \o q)[Len(a) + i] = Written(lp, b[i]) /\ c[Len(a) + i] = b[i]
      BY <1>1, <1>2, <1>4, <3>1
    <3>. QED BY <1>3, <3>1, <3>2
  <2>. QED BY <2>1, <2>2
<1>6. p \o q = r
  <2>1. p \o q = [j \in 1..Len(c) |-> (p \o q)[j]] /\ r = [j \in 1..Len(c) |-> r[j]]
    <3>1. \A u \in Seq(W) : u = [j \in 1..Len(u) |-> u[j]]
      OBVIOUS
    <3>. QED BY <1>2, <1>3, <1>4, <3>1
  <2>. QED BY <1>5, <2>1
<1>. QED BY <1>6 DEF p, q, c, r

\* Parsing the text yields what was written, clause by clause in the order of compilation.
LEMMA TextWritten ==
  ASSUME NEW lp, Compiled(lp), NEW text, text = Text(lp)
  PROVE  /\ TextClauses(text) = AllWritten(lp, Clauses(lp))
         /\ DOMAIN text.relations = 1..Len(Joined(lp)) /\ Len(text.relations) = Len(Joined(lp))
         /\ \A m \in 0..Len(Joined(lp)) :
              Len(FlattenSeq([i \in 1..m |-> text.relations[i].on])) = Len(Upto(Joined(lp), m))
         /\ WhereFrom(text) = Len(FlattenSeq(Joined(lp)))
         /\ Len(text.where) = Len(lp.where)
         /\ FlattenSeq([i \in DOMAIN text.relations |-> text.relations[i].on])
              = AllWritten(lp, FlattenSeq(Joined(lp)))
<1>. DEFINE js == Joined(lp)
            ons == [i \in DOMAIN text.relations |-> text.relations[i].on]
            n == Len(plan.joins)
<1>1. AsBound(plan) /\ lp = Lower(plan)
  BY DEF Compiled
<1>2. /\ n \in Nat /\ js \in Seq(Seq(Expressions)) /\ Len(js) = n + 1 /\ js[1] = <<>>
      /\ \A i \in 1..n : js[i + 1] = Relationships[plan.joins[i].rel].predicates
      /\ FlattenSeq([i \in DOMAIN lp.joins |-> lp.joins[i].predicates]) = FlattenSeq(js)
  BY <1>1, JoinedInOrder
<1>3. /\ DOMAIN text.relations = 1..n + 1 /\ Len(text.relations) = n + 1
      /\ text.relations[1].on = <<>>
      /\ \A i \in 1..n :
           text.relations[i + 1].on = AllWritten(lp, Relationships[plan.joins[i].rel].predicates)
  BY <1>1, RelationsWritten
<1>. HIDE DEF js, n
<1>4. DOMAIN js = 1..n + 1 /\ DOMAIN ons = DOMAIN js /\ ons = [k \in DOMAIN ons |-> ons[k]]
  BY <1>2, <1>3
<1>5. ASSUME NEW k \in DOMAIN js
      PROVE  ons[k] = AllWritten(lp, js[k]) /\ ons[k] = text.relations[k].on
  <2>1. ons[k] = text.relations[k].on
    BY <1>3, <1>4
  <2>2. CASE k = 1
    <3>1. AllWritten(lp, <<>>) = <<>>
      BY DEF AllWritten
    <3>. QED BY <1>2, <1>3, <2>1, <2>2, <3>1
  <2>3. CASE k # 1
    <3>1. k - 1 \in 1..n /\ (k - 1) + 1 = k
      BY <1>2, <1>4, <2>3
    <3>2. js[(k - 1) + 1] = Relationships[plan.joins[k - 1].rel].predicates
      BY <1>2, <3>1
    <3>3. text.relations[(k - 1) + 1].on = AllWritten(lp, Relationships[plan.joins[k - 1].rel].predicates)
      BY <1>3, <3>1
    <3>. QED BY <2>1, <3>1, <3>2, <3>3
  <2>. QED BY <2>2, <2>3
<1>. HIDE DEF ons
<1>6. /\ FlattenSeq(ons) = AllWritten(lp, FlattenSeq(js))
      /\ \A m \in 0..Len(js) : Len(Upto(ons, m)) = Len(Upto(js, m))
  <2>1. WrittenFor(lp, js, ons)
    BY <1>4, <1>5 DEF WrittenFor
  <2>. QED BY <1>2, <2>1, FlattenWritten
<1>7. \A m \in 0..Len(js) : Upto(ons, m) = FlattenSeq([i \in 1..m |-> text.relations[i].on])
  <2>. SUFFICES ASSUME NEW m \in 0..Len(js)
                PROVE  Upto(ons, m) = FlattenSeq([i \in 1..m |-> text.relations[i].on])
    OBVIOUS
  <2>1. \A i \in 1..m : i \in DOMAIN js
    BY <1>2, <1>4
  <2>2. [i \in 1..m |-> ons[i]] = [i \in 1..m |-> text.relations[i].on]
    BY <1>5, <2>1
  <2>. QED BY <2>2 DEF Upto
<1>. DEFINE on == FlattenSeq(js)
            both == on \o lp.where
<1>8. on \in Seq(Expressions)
  BY <1>2, RangeOfFlatten
<1>9. lp.where \in Seq(Expressions) /\ lp.having \in Seq(Expressions)
  BY ColumnsScanned, WhereTouched, ObligationsPlaced DEF Compiled
<1>10. /\ text.where = AllWritten(lp, lp.where) /\ text.having = AllWritten(lp, lp.having)
       /\ TextClauses(text) = FlattenSeq(ons) \o text.where \o text.having
       /\ WhereFrom(text) = Len(FlattenSeq(ons))
  BY DEF Text, TextClauses, WhereFrom, ons
<1>11. Clauses(lp) = both \o lp.having
  BY <1>2 DEF Clauses
<1>12. WhereFrom(text) = Len(on) /\ Len(text.where) = Len(lp.where)
  <2>1. Len(AllWritten(lp, on)) = Len(on) /\ Len(AllWritten(lp, lp.where)) = Len(lp.where)
    BY <1>8, <1>9, PredicatesWritten
  <2>. QED BY <1>6, <1>10, <2>1
<1>. HIDE DEF on
<1>13. AllWritten(lp, on) \o AllWritten(lp, lp.where) = AllWritten(lp, both) /\ both \in Seq(Expressions)
  <2>1. on \o lp.where \in Seq(Expressions)
    BY <1>8, <1>9
  <2>2. AllWritten(lp, on) \o AllWritten(lp, lp.where) = AllWritten(lp, on \o lp.where)
    BY <1>8, <1>9, WrittenConcat
  <2>. QED BY <2>1, <2>2
<1>. HIDE DEF both
<1>14. AllWritten(lp, both) \o AllWritten(lp, lp.having) = AllWritten(lp, both \o lp.having)
  BY <1>9, <1>13, WrittenConcat
<1>15. TextClauses(text) = AllWritten(lp, Clauses(lp))
  BY <1>6, <1>10, <1>11, <1>13, <1>14 DEF on
<1>16. Len(js) = n + 1
  BY <1>2
<1>17. FlattenSeq([i \in DOMAIN text.relations |-> text.relations[i].on])
         = AllWritten(lp, FlattenSeq(js))
  BY <1>6 DEF ons
<1>. QED BY <1>3, <1>6, <1>7, <1>12, <1>15, <1>16, <1>17 DEF js, on

\* Predicates with the values of their operands.
GivenSeq(lp, es) == [i \in 1..Len(es) |-> GivenAll(lp, es[i])]

\* A part of a sequence, after its first a elements.
Slice(es, a, ds) == \A j \in 1..Len(ds) : a + j \in 1..Len(es) /\ es[a + j] = ds[j]

LEMMA SliceGiven ==
  ASSUME NEW lp, NEW es \in Seq(Expressions), NEW ds \in Seq(Expressions), NEW a \in Nat,
         Slice(es, a, ds)
  PROVE  SubSeq(GivenSeq(lp, es), a + 1, a + Len(ds)) = GivenSeq(lp, ds)
<1>. DEFINE gs == GivenSeq(lp, es)
            m == Len(ds)
            n == Len(es)
<1>1. /\ m \in Nat /\ n \in Nat
  OBVIOUS
<1>2. \A i \in 1..n : gs[i] = GivenAll(lp, es[i])
  BY DEF GivenSeq
<1>. HIDE DEF gs
<1>3. SubSeq(gs, a + 1, a + m) = [i \in 1..m |-> gs[i + a]]
  <2>. HIDE DEF m
  <2>1. SubSeq(gs, a + 1, a + m) = [i \in 1..((a + m) - (a + 1) + 1) |-> gs[(i + (a + 1)) - 1]]
    BY <1>1
  <2>2. (a + m) - (a + 1) + 1 = m /\ \A i \in 1..m : (i + (a + 1)) - 1 = i + a
    BY <1>1
  <2>. QED BY <2>1, <2>2
<1>4. \A i \in 1..m : gs[i + a] = GivenAll(lp, ds[i])
  <2>1. \A i \in 1..m : i + a \in 1..n /\ i + a = a + i
    BY <1>1 DEF Slice
  <2>2. \A i \in 1..m : es[a + i] = ds[i]
    BY DEF Slice
  <2>. QED BY <1>2, <2>1, <2>2
<1>. QED BY <1>3, <1>4 DEF GivenSeq, gs

\* The terms of scanned columns have aliases.
LEMMA ColumnsAliased ==
  ASSUME NEW lp, Compiled(lp)
  PROVE  /\ lp = Lower(plan) /\ AsBound(plan)
         /\ \A c \in Columns : TableOf(c) \in Range(Scanned(plan)) =>
              Term(lp, c) = Ref(Alias(plan, TableOf(c)), c[2]) /\ Alias(plan, TableOf(c)) \in Nat
<1>1. AsBound(plan) /\ lp = Lower(plan)
  BY DEF Compiled
<1>2. ASSUME NEW c \in Columns, TableOf(c) \in Range(Scanned(plan))
      PROVE  Term(lp, c) = Ref(Alias(plan, TableOf(c)), c[2]) /\ Alias(plan, TableOf(c)) \in Nat
  <2>1. lp.alias[TableOf(c)] = Alias(plan, TableOf(c))
    BY <1>1, <1>2 DEF Lower
  <2>. QED BY <1>1, <1>2, <2>1, ScansNumbered DEF Term
<1>. QED BY <1>1, <1>2

\* SQL has a list looked up by a column.
LooksUp(es) == \A e \in Range(es) : e.op = "in" => e.args # <<>> /\ e.args[1] \in Columns

LEMMA ClausesWritable ==
  ASSUME NEW lp, Compiled(lp), LooksUp(Clauses(lp))
  PROVE  /\ Clauses(lp) \in Seq(Expressions)
         /\ \A e \in Range(Clauses(lp)) :
              Writable(lp, e) /\ \A c \in ColumnsIn(e) : TableOf(c) \in Range(Scanned(plan))
<1>1. /\ \A c \in Referenced(lp) : TableOf(c) \in Range(Scanned(plan))
      /\ KeysFound
  BY ColumnsScanned
<1>2. Clauses(lp) \in Seq(Expressions)
  BY <1>1, ClausesTouched DEF Compiled
<1>. DEFINE C == Clauses(lp)
<1>3. \A e \in Range(C) : e \in Expressions
  BY <1>2 DEF Range
<1>4. ASSUME NEW e \in Range(C), NEW c \in ColumnsIn(e)
      PROVE  c \in Columns /\ TableOf(c) \in Range(Scanned(plan))
  <2>1. c \in AllColumnsIn(C)
    BY DEF AllColumnsIn
  <2>2. c \in Referenced(lp)
    BY <2>1 DEF Referenced
  <2>. QED BY <1>1, <2>2 DEF ColumnsIn
<1>5. ASSUME NEW e \in Range(C), NEW c \in ColumnsIn(e) PROVE Term(lp, c).alias \in Nat
  <2>1. Term(lp, c) = Ref(Alias(plan, TableOf(c)), c[2]) /\ Alias(plan, TableOf(c)) \in Nat
    BY <1>4, ColumnsAliased
  <2>. QED BY <2>1 DEF Ref
<1>. HIDE DEF C
<1>6. \A e \in Range(C) : e.op = "in" => e.args # <<>> /\ e.args[1] \in Columns
  BY DEF LooksUp, C
<1>7. \A e \in Range(C) : Writable(lp, e)
  BY <1>3, <1>5, <1>6 DEF Writable
<1>. QED BY <1>2, <1>4, <1>7 DEF C

\* With the values in their places, the text says what the plan says.
LEMMA TextFilled ==
  ASSUME NEW lp, Compiled(lp), LooksUp(Clauses(lp)),
         NEW text, text = Text(lp), NEW filled, filled = Filled(TextClauses(text), Bound(Clauses(lp)))
  PROVE  /\ \A k \in 1..Len(Joined(lp)) : OnFilled(text, filled)[k] = GivenSeq(lp, Joined(lp)[k])
         /\ SubSeq(filled, WhereFrom(text) + 1, WhereFrom(text) + Len(text.where))
              = GivenSeq(lp, lp.where)
         /\ SubSeq(filled, WhereFrom(text) + Len(text.where) + 1, Len(filled))
              = GivenSeq(lp, lp.having)
<1>. DEFINE C == Clauses(lp)
            js == Joined(lp)
            on == FlattenSeq(js)
            n == Len(js)
<1>1. /\ TextClauses(text) = AllWritten(lp, C)
      /\ DOMAIN text.relations = 1..n
      /\ \A m \in 0..n : Len(FlattenSeq([i \in 1..m |-> text.relations[i].on])) = Len(Upto(js, m))
      /\ WhereFrom(text) = Len(on) /\ Len(text.where) = Len(lp.where)
  BY TextWritten, ZenonT(30)
<1>2. C \in Seq(Expressions) /\ \A e \in Range(C) : Writable(lp, e)
  BY ClausesWritable
<1>3. filled = GivenSeq(lp, C) /\ Len(filled) = Len(C)
  <2>. HIDE DEF C
  <2>. QED BY <1>1, <1>2, ValuesMeet DEF C, GivenSeq
<1>4. /\ js \in Seq(Seq(Expressions))
      /\ FlattenSeq([i \in DOMAIN lp.joins |-> lp.joins[i].predicates]) = on
  BY JoinedInOrder DEF Compiled
<1>5. lp.where \in Seq(Expressions) /\ lp.having \in Seq(Expressions)
  BY ColumnsScanned, WhereTouched, ObligationsPlaced DEF Compiled
<1>6. C = (on \o lp.where) \o lp.having
  BY <1>4 DEF Clauses
<1>. HIDE DEF C, js
<1>7. n \in Nat /\ \A k \in 1..n : js[k] \in Seq(Expressions) /\ k - 1 \in 0..n /\ k \in 0..n
  BY <1>4
<1>8. on \in Seq(Expressions) /\ \A m \in 0..n : Upto(js, m) \in Seq(Expressions)
  <2>1. on \in Seq(Expressions)
    BY <1>4, RangeOfFlatten
  <2>2. \A m \in 0..n : Upto(js, m) \in Seq(Expressions)
    BY <1>4, FlattenStep
  <2>. QED BY <2>1, <2>2
<1>9. \A m \in 1..n : Upto(js, m) = Upto(js, m - 1) \o js[m]
  BY <1>4, FlattenStep
<1>. DEFINE a == Len(on)
            b == Len(lp.where)
            c == Len(lp.having)
<1>10. /\ a \in Nat /\ b \in Nat /\ c \in Nat /\ Len(C) = a + b + c
       /\ \A j \in 1..a : C[j] = on[j]
       /\ \A j \in 1..b : C[a + j] = lp.where[j]
       /\ \A j \in 1..c : C[(a + b) + j] = lp.having[j]
  <2>. DEFINE both == on \o lp.where
  <2>1. /\ both \in Seq(Expressions) /\ Len(both) = a + b /\ a \in Nat /\ b \in Nat
        /\ \A j \in 1..a : both[j] = on[j]
        /\ \A j \in 1..b : both[a + j] = lp.where[j]
    <3>. DEFINE where == lp.where
    <3>1. on \in Seq(Expressions) /\ where \in Seq(Expressions)
      BY <1>5, <1>8
    <3>. HIDE DEF on, where
    <3>. QED BY <3>1, ConcatAt DEF where
  <2>. HIDE DEF both, a, b, on
  <2>2. /\ Len(C) = Len(both) + c /\ c \in Nat
        /\ \A j \in 1..Len(both) : C[j] = both[j]
        /\ \A j \in 1..c : C[Len(both) + j] = lp.having[j]
    <3>. DEFINE having == lp.having
    <3>1. C = both \o having /\ both \in Seq(Expressions) /\ having \in Seq(Expressions)
      BY <1>5, <1>6, <2>1 DEF both
    <3>. HIDE DEF having
    <3>2. /\ Len(C) = Len(both) + Len(having) /\ Len(having) \in Nat
          /\ \A j \in 1..Len(both) : C[j] = both[j]
          /\ \A j \in 1..Len(having) : C[Len(both) + j] = having[j]
      BY <3>1, ConcatAt
    <3>. QED BY <3>2 DEF having, c
  <2>3. \A j \in 1..a : j \in 1..a + b
    BY <2>1
  <2>4. \A j \in 1..b : a + j \in 1..a + b
    BY <2>1
  <2>. QED BY <2>1, <2>2, <2>3, <2>4
<1>. HIDE DEF a, b, c, on
<1>11. SubSeq(filled, a + 1, a + b) = GivenSeq(lp, lp.where)
  <2>. DEFINE where == lp.where
  <2>1. \A j \in 1..b : a + j \in 1..Len(C)
    BY <1>10
  <2>2. Slice(C, a, where)
    BY <1>10, <2>1 DEF Slice, b
  <2>3. where \in Seq(Expressions) /\ b = Len(where)
    BY <1>5 DEF b
  <2>. HIDE DEF where
  <2>4. SubSeq(GivenSeq(lp, C), a + 1, a + Len(where)) = GivenSeq(lp, where)
    BY <1>2, <1>10, <2>2, <2>3, SliceGiven
  <2>. QED BY <1>3, <2>3, <2>4 DEF where
<1>12. SubSeq(filled, a + b + 1, Len(filled)) = GivenSeq(lp, lp.having)
  <2>. DEFINE d == a + b
              having == lp.having
  <2>1. d \in Nat /\ d + c = Len(C) /\ \A j \in 1..c : d + j \in 1..Len(C)
    BY <1>10
  <2>2. Slice(C, d, having)
    BY <1>10, <2>1 DEF Slice, c
  <2>3. having \in Seq(Expressions) /\ c = Len(having)
    BY <1>5 DEF c
  <2>. HIDE DEF d, having
  <2>4. SubSeq(GivenSeq(lp, C), d + 1, d + Len(having)) = GivenSeq(lp, having)
    BY <1>2, <2>1, <2>2, <2>3, SliceGiven
  <2>. QED BY <1>3, <2>1, <2>3, <2>4 DEF d, having
<1>13. ASSUME NEW k \in 1..n PROVE OnFilled(text, filled)[k] = GivenSeq(lp, js[k])
  <2>. DEFINE u(m) == Len(FlattenSeq([i \in 1..m |-> text.relations[i].on]))
              ds == js[k]
              x == Len(Upto(js, k - 1))
              y == Len(ds)
  <2>1. OnFilled(text, filled)[k] = SubSeq(filled, u(k - 1) + 1, u(k))
    BY <1>1 DEF OnFilled
  <2>2. u(k - 1) = x /\ u(k) = Len(Upto(js, k))
    BY <1>1, <1>7
  <2>3. Len(Upto(js, k)) = x + y /\ x \in Nat /\ y \in Nat
    <3>1. Upto(js, k) = Upto(js, k - 1) \o js[k] /\ Upto(js, k - 1) \in Seq(Expressions) /\ js[k] \in Seq(Expressions)
      BY <1>7, <1>8, <1>9
    <3>. QED BY <3>1, ConcatAt
  <2>4. \A j \in 1..y : x + j \in 1..a /\ on[x + j] = ds[j]
    <3>1. k \in 1..Len(js)
      OBVIOUS
    <3>. QED BY <1>4, <3>1, FlattenAt DEF a, on
  <2>. HIDE DEF x, u
  <2>5. \A j \in 1..y : x + j \in 1..Len(C) /\ C[x + j] = ds[j]
    <3>1. 1..a \subseteq 1..Len(C)
      BY <1>10
    <3>. QED BY <1>10, <2>4, <3>1
  <2>6. Slice(C, x, ds) /\ ds \in Seq(Expressions)
    BY <1>7, <2>5 DEF Slice
  <2>. HIDE DEF ds
  <2>7. SubSeq(GivenSeq(lp, C), x + 1, x + y) = GivenSeq(lp, ds)
    BY <1>2, <2>3, <2>6, SliceGiven
  <2>. QED BY <1>3, <2>1, <2>2, <2>3, <2>7 DEF ds
<1>. QED BY <1>1, <1>11, <1>12, <1>13 DEF js, a, b, on

-----------------------------------------------------------------------------
(* What the clauses say of an environment.                                    *)

\* Predicates that the text can say of some of the scanned tables.
Sayable(lp, es, T) ==
  /\ es \in Seq(Expressions) /\ T \subseteq Range(Scanned(plan))
  /\ \A e \in Range(es) : Writable(lp, e) /\ \A c \in ColumnsIn(e) : TableOf(c) \in T

\* An environment and a reading have the same rows.
Agree(env, m, T) == \A t \in T : env[Alias(plan, t)] = m[t]

LEMMA ValuesAgree ==
  ASSUME NEW lp, Compiled(lp), NEW c \in Columns, NEW T, T \subseteq Range(Scanned(plan)),
         TableOf(c) \in T, NEW env, NEW m, Agree(env, m, T)
  PROVE  ValueOf(Term(lp, c), env) = Meaning(c, m)
<1>1. Term(lp, c) = Ref(Alias(plan, TableOf(c)), c[2]) /\ Alias(plan, TableOf(c)) \in Nat
  BY ColumnsAliased
<1>2. Term(lp, c).alias = Alias(plan, TableOf(c)) /\ Term(lp, c).name = c[2]
  BY <1>1 DEF Ref
<1>3. Term(lp, c).alias # -1
  BY <1>1, <1>2
<1>4. ValueOf(Term(lp, c), env) = env[Alias(plan, TableOf(c))][c[2]]
  BY <1>2, <1>3 DEF ValueOf
<1>5. env[Alias(plan, TableOf(c))] = m[TableOf(c)]
  BY DEF Agree
<1>. QED BY <1>4, <1>5 DEF Meaning

LEMMA GivenHolds ==
  ASSUME NEW lp, Compiled(lp), NEW e, Writable(lp, e),
         NEW T, T \subseteq Range(Scanned(plan)), \A c \in ColumnsIn(e) : TableOf(c) \in T,
         NEW env, NEW m, Agree(env, m, T)
  PROVE  Satisfies(env, GivenAll(lp, e)) <=> Holds(e, m)
<1>. DEFINE g == GivenAll(lp, e)
            n == Len(e.args)
<1>1. e.args \in Seq(Operands) /\ DOMAIN e.args = 1..n
  BY OperandsWritten
<1>2. g.op = e.op /\ g.args = [j \in 1..n |-> Given(lp, e.args[j])]
  BY <1>1 DEF GivenAll, Predicate
<1>3. ASSUME NEW j \in 1..n PROVE ValueOf(Given(lp, e.args[j]), env) = Meaning(e.args[j], m)
  <2>1. CASE e.args[j] \in Columns
    <3>1. e.args[j] \in ColumnsIn(e)
      BY <1>1, <2>1 DEF ColumnsIn, Range
    <3>2. TableOf(e.args[j]) \in T
      BY <3>1
    <3>3. Given(lp, e.args[j]) = Term(lp, e.args[j])
      BY <2>1 DEF Given
    <3>. QED BY <2>1, <3>2, <3>3, ValuesAgree
  <2>2. CASE e.args[j] \notin Columns
    <3>1. Given(lp, e.args[j]) = [alias |-> -1, value |-> Values[e.args[j]]]
      BY <2>2 DEF Given
    <3>. QED BY <2>2, <3>1 DEF ValueOf, Meaning
  <2>. QED BY <2>1, <2>2
<1>. HIDE DEF g, n
<1>4. [i \in DOMAIN g.args |-> ValueOf(g.args[i], env)]
        = [i \in DOMAIN e.args |-> Meaning(e.args[i], m)]
  <2>1. DOMAIN g.args = 1..n /\ \A i \in 1..n : g.args[i] = Given(lp, e.args[i])
    BY <1>2
  <2>. QED BY <1>1, <1>3, <2>1
<1>5. Satisfies(env, g) <=> Satisfied(g.op, [i \in DOMAIN g.args |-> ValueOf(g.args[i], env)])
  BY DEF Satisfies
<1>6. Holds(e, m) <=> Satisfied(e.op, [i \in DOMAIN e.args |-> Meaning(e.args[i], m)])
  BY DEF Holds
<1>. QED BY <1>2, <1>4, <1>5, <1>6 DEF g

LEMMA AllGivenHold ==
  ASSUME NEW lp, Compiled(lp), NEW es, NEW T, Sayable(lp, es, T),
         NEW env, NEW m, Agree(env, m, T)
  PROVE  SatisfiesAll(env, GivenSeq(lp, es)) <=> HoldAll(es, m)
<1>1. /\ Len(es) \in Nat /\ DOMAIN es = 1..Len(es) /\ T \subseteq Range(Scanned(plan))
      /\ \A e \in Range(es) : Writable(lp, e) /\ \A c \in ColumnsIn(e) : TableOf(c) \in T
  BY DEF Sayable
<1>2. \A e \in Range(es) : Satisfies(env, GivenAll(lp, e)) <=> Holds(e, m)
  BY <1>1, GivenHolds
<1>3. Range(es) = {es[i] : i \in 1..Len(es)}
  BY <1>1 DEF Range
<1>4. Range(GivenSeq(lp, es)) = {GivenAll(lp, es[i]) : i \in 1..Len(es)}
  BY DEF Range, GivenSeq
<1>. QED BY <1>2, <1>3, <1>4 DEF SatisfiesAll, HoldAll

-----------------------------------------------------------------------------
(* What the clauses of WHERE say of a reading.                                *)

Supplies == {"p_tenant", "p_time_start", "p_time_end"}

\* A comparison of a column with a value that the request supplies.
LEMMA ComparedWith ==
  ASSUME NEW op \in {"eq", "gte", "lt"}, NEW c \in Columns, NEW n \in Supplies, NEW m
  PROVE  /\ Holds(Predicate(op, <<c, <<"parameter", n>>>>), m)
              <=> Compared(op, Meaning(c, m), Values[<<"parameter", n>>])
         /\ Values[<<"parameter", n>>] \in Nat
<1>. DEFINE q == <<"parameter", n>>
<1>1. q \notin Columns /\ Values[q] \in Nat
  BY CatalogAssumption, WarehouseAssumption DEF Supplies
<1>. HIDE DEF q
<1>. DEFINE vs == [i \in DOMAIN <<c, q>> |-> Meaning(<<c, q>>[i], m)]
<1>2. vs[1] = Meaning(c, m) /\ vs[2] = Values[q]
  <2>1. vs[1] = Meaning(c, m)
    OBVIOUS
  <2>2. vs[2] = Meaning(q, m)
    OBVIOUS
  <2>. QED BY <1>1, <2>1, <2>2 DEF Meaning
<1>3. Holds(Predicate(op, <<c, q>>), m) <=> Satisfied(op, vs)
  BY DEF Holds, Predicate
<1>. HIDE DEF vs
<1>4. Satisfied(op, vs) <=> Compared(op, vs[1], vs[2])
  BY DEF Satisfied
<1>. QED BY <1>1, <1>2, <1>3, <1>4 DEF q

TenantPredicate(t) == Predicate("eq", <<Catalog[t].tenant_key, <<"parameter", "p_tenant">>>>)

LEMMA TenantMeans ==
  ASSUME AsBound(plan), KeysFound, NEW X, NEW m
  PROVE  (\A p \in Range(TenantPredicates(plan)) : p \in X => Holds(p, m)) <=>
           \A t \in Range(TenantTables(plan)) : TenantPredicate(t) \in X =>
             m[t][Catalog[t].tenant_key[2]] = Values[<<"parameter", "p_tenant">>]
<1>. DEFINE ts == TenantTables(plan)
            v == Values[<<"parameter", "p_tenant">>]
<1>1. DOMAIN ts = 1..Len(ts) /\ Len(ts) \in Nat
  BY TenantTablesTagged
<1>2. Range(TenantPredicates(plan)) = {TenantPredicate(t) : t \in Range(ts)}
  <2>1. TenantPredicates(plan) = [i \in DOMAIN ts |-> TenantPredicate(ts[i])]
    BY DEF TenantPredicates, TenantPredicate
  <2>. QED BY <2>1 DEF Range
<1>3. ASSUME NEW t \in Range(ts)
      PROVE  Holds(TenantPredicate(t), m) <=> m[t][Catalog[t].tenant_key[2]] = v
  <2>1. Catalog[t].tenant_key \in Columns /\ TableOf(Catalog[t].tenant_key) = t
    BY KeysOfTables
  <2>2. /\ Holds(TenantPredicate(t), m) <=> Compared("eq", Meaning(Catalog[t].tenant_key, m), v)
        /\ v \in Nat
    BY <2>1, ComparedWith DEF TenantPredicate, Supplies
  <2>3. Meaning(Catalog[t].tenant_key, m) = m[t][Catalog[t].tenant_key[2]]
    BY <2>1 DEF Meaning
  <2>. HIDE DEF v
  <2>4. \A a : Compared("eq", a, v) <=> a = v
    BY <2>2 DEF Compared, Null
  <2>. QED BY <2>2, <2>3, <2>4
<1>. HIDE DEF ts, v
<1>. QED BY <1>2, <1>3 DEF ts, v

LEMMA TimeMeans ==
  ASSUME AsBound(plan), plan.time # <<>>, NEW m, Meaning(plan.time[1].column, m) \in Int
  PROVE  /\ plan.time[1].column \in Columns /\ Range(plan.time) = {plan.time[1]}
         /\ \A p \in Range(TimePredicates(plan)) : ColumnsIn(p) = {plan.time[1].column}
         /\ (\A p \in Range(TimePredicates(plan)) : Holds(p, m)) <=> InTime(m)
<1>1. PICK c \in Columns, b \in BOOLEAN : plan.time = <<[column |-> c, bucket |-> b]>>
  <2>1. plan.time \in {<<[column |-> c, bucket |-> b]>> : c \in Columns, b \in BOOLEAN}
    BY DEF AsBound
  <2>. QED BY <2>1
<1>2. plan.time[1].column = c /\ Range(plan.time) = {plan.time[1]}
  BY <1>1 DEF Range
<1>. DEFINE p == Predicate("gte", <<c, <<"parameter", "p_time_start">>>>)
            q == Predicate("lt", <<c, <<"parameter", "p_time_end">>>>)
            from == Values[<<"parameter", "p_time_start">>]
            to == Values[<<"parameter", "p_time_end">>]
            at == Meaning(c, m)
<1>3. TimePredicates(plan) = <<p, q>>
  BY <1>2 DEF TimePredicates
<1>4. /\ Holds(p, m) <=> Compared("gte", at, from)
      /\ Holds(q, m) <=> Compared("lt", at, to)
      /\ from \in Nat /\ to \in Nat
  BY ComparedWith DEF Supplies
<1>5. ColumnsIn(p) = {c} /\ ColumnsIn(q) = {c}
  <2>1. "gte" \in Operators /\ "lt" \in Operators
    BY DEF Operators, Comparisons
  <2>. QED BY <2>1, OneColumn
<1>6. InTime(m) <=> from <= at /\ at < to
  BY <1>2 DEF InTime
<1>7. at \in Int
  BY <1>2
<1>. HIDE DEF p, q, from, to, at
<1>8. Compared("gte", at, from) /\ Compared("lt", at, to) <=> from <= at /\ at < to
  BY <1>4, <1>7 DEF Compared, Null
<1>9. Range(<<p, q>>) = {p, q}
  BY DEF Range
<1>. QED BY <1>2, <1>3, <1>4, <1>5, <1>6, <1>8, <1>9

LEMMA OfTenantMeans ==
  ASSUME AsBound(plan), NEW m, DOMAIN m \subseteq Range(Scanned(plan))
  PROVE  OfTenant(m) <=>
           \A t \in Range(TenantTables(plan)) : t \in DOMAIN m =>
             m[t][Catalog[t].tenant_key[2]] = Values[<<"parameter", "p_tenant">>]
<1>1. CASE NeedsTenant(plan)
  <2>1. Range(TenantTables(plan)) = {t \in Range(Scanned(plan)) : "tenant_scoped" \in Catalog[t].tags}
    BY <1>1, TenantTablesTagged
  <2>. QED BY <1>1, <2>1 DEF OfTenant
<1>2. CASE ~NeedsTenant(plan)
  <2>1. TenantTables(plan) = <<>>
    BY <1>2 DEF TenantTables
  <2>2. Range(<<>>) = {}
    BY DEF Range
  <2>. QED BY <1>2, <2>1, <2>2 DEF OfTenant
<1>. QED BY <1>1, <1>2

\* The parts of WHERE.
LEMMA WhereParts ==
  ASSUME AsBound(plan), KeysFound
  PROVE  /\ Where(plan) \in Seq(Expressions)
         /\ Range(Where(plan)) =
              Range(TenantPredicates(plan)) \cup Range(TimePredicates(plan))
                \cup Range(plan.population \o plan.filters)
                \cup PlacedAt("before_aggregation")
<1>1. plan.population \in Seq(Expressions) /\ plan.filters \in Seq(Expressions)
  BY PlanTyped DEF AsBound
<1>2. Range(plan.population \o plan.filters) = Range(plan.population) \cup Range(plan.filters)
  BY <1>1, RangeOfConcat
<1>. DEFINE A == Range(TenantPredicates(plan))
            B == Range(TimePredicates(plan))
            C == Range(plan.population)
            D == PlacedAt("before_aggregation")
            F == Range(plan.filters)
<1>3. Where(plan) \in Seq(Expressions) /\ Range(Where(plan)) = A \cup B \cup C \cup D \cup F
  BY WhereTouched
<1>. HIDE DEF A, B, C, D, F
<1>4. Range(Where(plan)) = A \cup B \cup (C \cup F) \cup D
  BY <1>3
<1>. QED BY <1>2, <1>3, <1>4 DEF A, B, C, D, F

\* A predicate that is about the base alone.
OnlyBase(p) == {TableOf(c) : c \in ColumnsIn(p)} = {plan.base}

-----------------------------------------------------------------------------
(* The inductive invariant.                                                   *)

Judged == {"compiled", "validated", "blocked", "attested", "unproven", "failed", "answered"}

\* What was compiled belongs to the plan for as long as no defect touches the text.
Inv ==
  /\ AsBound(plan)
  /\ pc = "lowered" => Lowers(plan, closed.discover) /\ logical = Lower(plan)
  /\ pc \in Judged => Compiled(logical) /\ (edit = "none" => compiled = Compile(logical))
  /\ SoundPlansAccepted

LEMMA SamePlan ==
  ASSUME UNCHANGED <<plan, closed>>
  PROVE  /\ Acceptable' <=> Acceptable
         /\ \A lp : Compiled(lp)' <=> Compiled(lp)
         /\ AsBound(plan)' <=> AsBound(plan)
<1>1. Touched' = Touched
  BY DEF Touched
<1>2. Acceptable' <=> Acceptable
  BY <1>1 DEF Acceptable
<1>3. Supplied' = Supplied
  BY DEF Supplied
<1>. QED BY <1>2, <1>3 DEF Compiled

\* A defect has a kind of its own.
LEMMA EditsDiffer == ASSUME NEW text, NEW e \in Edits(text) PROVE e[1] # "none"
<1>1. CASE e \in DroppedConjuncts(text)
  BY <1>1 DEF DroppedConjuncts
<1>2. CASE e \in ReplacedParts(text)
  BY <1>2 DEF ReplacedParts
<1>3. CASE e \in ReplacedTerms(text)
  <2>. DEFINE x(i) == text.where[i]
              inlined(i, a) ==
                {<<"inline", [text EXCEPT !.where[i] = WithArg(x(i), a, Inline)]>>}
              moved(i, a) ==
                {<<"column", [text EXCEPT !.where[i] =
                                WithArg(x(i), a, Ref(x(i).args[a].alias, c[2]))]>> :
                   c \in {d \in Columns : TableOf(d) = text.relations[x(i).args[a].alias + 1].table}}
              edits(i, a) == IF x(i).args[a] = Placeholder THEN inlined(i, a) ELSE moved(i, a)
  <2>1. ReplacedTerms(text) =
          UNION {UNION {edits(i, a) : a \in DOMAIN x(i).args} : i \in DOMAIN text.where}
    BY DEF ReplacedTerms
  <2>2. \A i, a : \A d \in inlined(i, a) : d[1] = "inline"
    OBVIOUS
  <2>3. \A i, a : \A d \in moved(i, a) : d[1] = "column"
    OBVIOUS
  <2>4. \A i, a : \A d \in edits(i, a) : d[1] # "none"
    <3>. HIDE DEF inlined, moved
    <3>1. \A i, a : edits(i, a) = inlined(i, a) \/ edits(i, a) = moved(i, a)
      OBVIOUS
    <3>. QED BY <2>2, <2>3, <3>1
  <2>. HIDE DEF edits
  <2>5. PICK i, a : e \in edits(i, a)
    BY <1>3, <2>1
  <2>. QED BY <2>4, <2>5
<1>4. CASE e \in Unnoticed(text)
  BY <1>4 DEF Unnoticed
<1>. QED BY <1>1, <1>2, <1>3, <1>4 DEF Edits

LEMMA InvInit == Init => Inv
<1>. SUFFICES ASSUME Init PROVE Inv
  OBVIOUS
<1>1. AsBound(plan)
  BY PlanAssumption DEF Init
<1>. QED BY <1>1 DEF Init, Inv, Judged, SoundPlansAccepted

LEMMA InvStep == Inv /\ [Next]_vars => Inv'
<1>. SUFFICES ASSUME Inv, [Next]_vars PROVE Inv'
  OBVIOUS
<1>1. CASE LowerPlan
  <2>1. AsBound(plan)' /\ UNCHANGED <<plan, closed>>
    BY <1>1, SamePlan DEF Inv, LowerPlan
  <2>. QED BY <1>1, <2>1 DEF LowerPlan, Inv, Judged, SoundPlansAccepted
<1>2. CASE CompilePlan
  <2>1. AsBound(plan)' /\ UNCHANGED <<plan, closed, logical>>
    BY <1>2, SamePlan DEF Inv, CompilePlan
  <2>2. CASE ~(Compiles(logical, Supplied) /\ Conditioned(logical))
    BY <1>2, <2>1, <2>2 DEF CompilePlan, Inv, Judged, SoundPlansAccepted
  <2>3. CASE Compiles(logical, Supplied) /\ Conditioned(logical)
    <3>1. Compiled(logical)
      BY <1>2, <2>3 DEF CompilePlan, Inv, Compiled
    <3>2. Compiled(logical)'
      BY <2>1, <3>1, SamePlan
    <3>. QED BY <1>2, <2>1, <2>3, <3>2 DEF CompilePlan, Inv, SoundPlansAccepted
  <2>. QED BY <2>2, <2>3
<1>3. CASE EditText
  <2>1. /\ AsBound(plan)' /\ UNCHANGED <<plan, closed, logical, pc>> /\ pc = "compiled"
    BY <1>3, SamePlan DEF Inv, EditText
  <2>2. Compiled(logical)'
    BY <2>1, SamePlan DEF Inv, Judged
  <2>3. edit' # "none"
    BY <1>3, EditsDiffer DEF EditText
  <2>. QED BY <2>1, <2>2, <2>3 DEF Inv, Judged, SoundPlansAccepted
<1>4. CASE Validate
  <2>1. /\ AsBound(plan)' /\ UNCHANGED <<plan, closed, logical, compiled, edit>>
        /\ pc = "compiled" /\ pc' \in {"validated", "blocked"}
        /\ pc' = "validated" <=>
             Passes(compiled.text, compiled, logical, plan, ScopeOfRequest, closed)
    BY <1>4, SamePlan DEF Inv, Validate
  <2>2. Compiled(logical) /\ (edit = "none" => compiled = Compile(logical))
    BY <2>1 DEF Inv, Judged
  <2>3. Compiled(logical)' /\ (Acceptable' <=> Acceptable)
    BY <2>1, <2>2, SamePlan
  <2>4. ASSUME edit = "none" PROVE pc' = "validated" <=> Acceptable
    <3>1. compiled = Compile(logical) /\ compiled.text = Text(logical)
      BY <2>2, <2>4 DEF Compile
    <3>. QED BY <2>1, <2>2, <3>1, GatesAgree
  <2>. QED BY <2>1, <2>2, <2>3, <2>4 DEF Inv, Judged, SoundPlansAccepted
<1>5. CASE Attest \/ Execute
  <2>1. /\ AsBound(plan)' /\ UNCHANGED <<plan, closed, logical, compiled, edit>>
        /\ pc \in {"validated", "attested"}
        /\ pc' \in {"attested", "unproven", "failed", "answered"}
    BY <1>5, SamePlan DEF Inv, Attest, Execute
  <2>2. Compiled(logical)' /\ (Acceptable' <=> Acceptable)
    BY <2>1, SamePlan DEF Inv, Judged
  <2>. QED BY <2>1, <2>2 DEF Inv, Judged, SoundPlansAccepted
<1>6. CASE UNCHANGED vars
  <2>1. UNCHANGED <<plan, closed, logical, compiled, edit, pc>>
    BY <1>6 DEF vars
  <2>2. /\ AsBound(plan)' <=> AsBound(plan)
        /\ Compiled(logical)' <=> Compiled(logical)
        /\ Acceptable' <=> Acceptable
    BY <2>1, SamePlan
  <2>. QED BY <2>1, <2>2 DEF Inv, Judged, SoundPlansAccepted
<1>. QED BY <1>1, <1>2, <1>3, <1>4, <1>5, <1>6 DEF Next

\* The gates object to nothing that the compiler writes by itself: a text as it was compiled
\* is accepted if and only if its plan is acceptable, for any catalog and any plan as bound.
THEOREM SoundAlwaysAccepted == Spec => []SoundPlansAccepted
<1>1. Spec => []Inv
  BY InvInit, InvStep, PTL DEF Spec
<1>2. Inv => SoundPlansAccepted
  BY DEF Inv
<1>. QED BY <1>1, <1>2, PTL
==============================================================================
