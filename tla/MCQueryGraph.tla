---------------------------- MODULE MCQueryGraph ----------------------------
(***************************************************************************)
(* A small instance of QueryGraph: a metric published at two grains and one *)
(* published at a single grain, and two reporting periods.                  *)
(***************************************************************************)
EXTENDS QueryGraph

CONSTANTS m1, m2, q1, q2, day, week, month, unknown

MCMetrics == {m1, m2}
MCRanges == {q1, q2}
MCGrains == {day, week, month}

\* A proposal for m1 by day has two supported grains to ask about; one for m2
\* by month has a single alternative, which is refused rather than asked.
MCSupports == [m \in MCMetrics |-> IF m = m1 THEN {week, month} ELSE {day}]

Proposal(m, t, g, keys) ==
  [first |-> m, others |-> {}, time |-> t, grain |-> g, sort |-> keys]

\* Complete; short of a period, a supported grain, one metric; a grain nobody can be
\* asked about.  A sort key names a column, none at all, or one that is gone once the
\* metric or the grain it names has been replaced.
MCProposals ==
  {Proposal(m1, q1, month, {month, unknown}),
   Proposal(m1, None, None, {m1}),
   Proposal(m1, None, day, {day, unknown}),
   Proposal(m2, q1, month, {}),
   [Proposal(m1, None, None, {}) EXCEPT !.others = {m2}]}

=============================================================================
