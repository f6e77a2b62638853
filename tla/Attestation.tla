----------------------------- MODULE Attestation -----------------------------
(***************************************************************************)
(* app/sql/attestation.py: before a measure is aggregated over an as-of join,*)
(* a diagnostic query counts, for each fact, the rows it matches.  More than *)
(* one would count the fact twice, none would drop it, and neither shows in  *)
(* the result.                                                               *)
(***************************************************************************)
EXTENDS Warehouse

\* build_attestations: one per join that declares a uniqueness contract.
ToAttest(lp) == {j \in Range(lp.joins) : Relationships[j.rel].contract}

\* What is restricted on the base alone; a restriction of the joined side would hide an
\* overlap by discarding one of the two rows.
OnlyOn(t, ps) == Among(ps, {p \in Range(ps) : {TableOf(c) : c \in ColumnsIn(p)} = {t}})

FactOnly(lp) == OnlyOn(lp.base, lp.where)

\* The columns by which a match of the joined table is recognised: never null.
Probes(j) == Among(Catalog[j.to].grain, Catalog[j.to].nonnull)

\* The query names the base and one joined table; a join that hangs on another one does
\* not resolve, and without a probe none can be built.
Attestable(lp, j) ==
  /\ \A c \in AllColumnsIn(j.predicates) : TableOf(c) \in {lp.base, j.to}
  /\ Probes(j) # <<>>

\* The conjuncts of ON and of WHERE, with their values by position.
Attested(lp, j) ==
  LET facts == FactOnly(lp)
      es == Filled(AllWritten(lp, j.predicates \o facts), Bound(j.predicates \o facts))
      n == Len(j.predicates)
  IN [on |-> SubSeq(es, 1, n), where |-> SubSeq(es, n + 1, Len(es))]

\* The left join keeps a fact without a match, in a row that is null on the right.
LeftJoined(j, rows) == IF rows = {} THEN {NullRow(j.to)} ELSE rows

\* Variant: COUNT( * ).
CountedRows(j, pairs) == Cardinality(pairs)

\* COUNT of the probe, over pairs of a fact and a row.
CountedMatches(j, pairs) == Cardinality({p \in pairs : p[2][Probes(j)[1][2]] # Null})

\* The query groups the facts by the grain of the base and counts what they match;
\* check wants each to match one row, neither several nor none.
Proved(lp, j, w) ==
  LET query == Attested(lp, j)
      facts == {fact \in w[lp.base] : SatisfiesAll([a \in {0} |-> fact], query.where)}
      Grain(fact) == [i \in DOMAIN Catalog[lp.base].grain |-> fact[Catalog[lp.base].grain[i][2]]]
      On(fact) == {row \in w[j.to] :
                     SatisfiesAll(With([a \in {0} |-> fact], lp.alias[j.to], row), query.on)}
      Pairs(g) == UNION {{f} \X LeftJoined(j, On(f)) : f \in {f \in facts : Grain(f) = g}}
  IN \A g \in {Grain(fact) : fact \in facts} : CountedMatches(j, Pairs(g)) = 1
==============================================================================
