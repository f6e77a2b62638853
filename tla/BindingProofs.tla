---------------------------- MODULE BindingProofs ----------------------------
(***************************************************************************)
(* Rule closure and join planning for every catalog, policy and request.    *)
(* The closure is the least fixed point of the rules whatever their number   *)
(* and order, and a bound plan meets every rule that binds it.  What the     *)
(* planner enumerates are trees of permitted relationships out of the base,  *)
(* none of them is missed up to the limit on candidates, the rank leaves no  *)
(* tie, and so the joins of a bound plan are a shortest connection.          *)
(***************************************************************************)
EXTENDS Binding, FiniteSetTheorems, TLAPS

-----------------------------------------------------------------------------
(* The join planner over any finite catalog.                                  *)

\* The snapshot's relationships lead from one table to another.
Connected ==
  /\ graph \in [Relationships -> RelationshipRecords]
  /\ \A rel \in Relationships : graph[rel].left # graph[rel].right

\* Partial plans are trees of relationships out of the base: as many joins as
\* relationships, one table more, and each entered on a side of one.
Tree(p) ==
  /\ Len(p) <= MaxHops
  /\ IsFiniteSet(Refs(p)) /\ Cardinality(Refs(p)) = Len(p)
  /\ IsFiniteSet(Visited(p)) /\ Cardinality(Visited(p)) = Len(p) + 1
  /\ Visited(p) = Spans(Refs(p)) /\ Reaches(Refs(p), Visited(p))
  /\ \A rel \in Refs(p) : Permitted(rel) /\ ~graph[rel].prohibited

Trees == {p \in Seq(Joins) : Tree(p)}

-----------------------------------------------------------------------------
(* Least elements.                                                            *)

LEMMA LeastNumber ==
  ASSUME NEW S, S \subseteq Nat, S # {}
  PROVE  \E n \in S : \A m \in S : n <= m
<1>. DEFINE R == {p \in Nat \X Nat : p[1] < p[2]}
<1>1. IsWellFoundedOn(R, Nat)
  BY NatLessThanWellFounded DEF OpToRel
<1>2. \A m, n \in Nat : m < n => <<m, n>> \in R
  OBVIOUS
<1>. HIDE DEF R
<1>3. PICK n \in S : \A m \in S : ~(<<m, n>> \in R)
  BY <1>1, WFMin
<1>4. ASSUME NEW m \in S PROVE n <= m
  <2>1. m \in Nat /\ n \in Nat
    OBVIOUS
  <2>2. ~(m < n)
    BY <1>2, <1>3, <2>1
  <2>. QED BY <2>1, <2>2
<1>. QED BY <1>4

LEMMA LeastSubset ==
  ASSUME NEW S, IsFiniteSet(S), NEW B, B \subseteq SUBSET S, B # {}
  PROVE  \E U \in B : \A W \in B : W \subseteq U => W = U
<1>1. IsWellFoundedOn(StrictSubsetOrdering(S), SUBSET S)
  BY FS_StrictSubsetOrderingWellFounded, FS_FiniteSubsetsOfFinite
<1>2. PICK U \in B : \A W \in B : ~(<<W, U>> \in StrictSubsetOrdering(S))
  BY <1>1, WFMin
<1>3. ASSUME NEW W \in B, W \subseteq U, W # U PROVE FALSE
  <2>1. <<W, U>> \in StrictSubsetOrdering(S)
    BY <1>3 DEF StrictSubsetOrdering
  <2>. QED BY <1>2, <2>1
<1>. QED BY <1>3

-----------------------------------------------------------------------------
(* Trees of relationships.                                                    *)

LEMMA FiniteRefs ==
  ASSUME NEW T, T \subseteq Relationships
  PROVE  IsFiniteSet(T) /\ Cardinality(T) \in Nat
BY CatalogAssumption, FS_Subset, FS_CardinalityType

LEMMA SpansFinite ==
  ASSUME NEW T, T \subseteq Relationships
  PROVE  IsFiniteSet(Spans(T))
<1>1. \A rel \in T : IsFiniteSet(Ends(rel))
  <2>. SUFFICES ASSUME NEW rel \in T PROVE IsFiniteSet(Ends(rel))
    OBVIOUS
  <2>1. Ends(rel) = {graph[rel].left} \cup {graph[rel].right}
    BY DEF Ends
  <2>2. IsFiniteSet({graph[rel].left})
    BY FS_Singleton
  <2>. QED BY <2>1, <2>2, FS_AddElement
<1>. DEFINE all == {Ends(rel) : rel \in T}
            f == [rel \in T |-> Ends(rel)]
<1>2. f \in Surjection(T, all)
  BY DEF Surjection
<1>3. IsFiniteSet(all)
  BY <1>2, FiniteRefs, FS_Surjection
<1>4. IsFiniteSet(UNION all)
  BY <1>1, <1>3, FS_UNION
<1>5. Spans(T) = {wanted.base} \cup UNION all
  BY DEF Spans
<1>. HIDE DEF all
<1>6. IsFiniteSet((UNION all) \cup {wanted.base})
  BY <1>4, FS_AddElement
<1>. QED BY <1>5, <1>6

\* The relationships of T that touch U.
Entering(T, U) == {rel \in T : Ends(rel) \cap U # {}}

\* What connects a set of tables has at least one relationship for every table that it
\* enters away from the base: the farthest of them is entered by one that enters no other.
LEMMA OneForEach ==
  ASSUME NEW T, T \subseteq Relationships, NEW X, IsFiniteSet(X), Reaches(T, X),
         \A rel \in T : Ends(rel) \subseteq X, wanted.base \in X,
         NEW U, U \subseteq X, wanted.base \notin U
  PROVE  Cardinality(U) <= Cardinality(Entering(T, U))
<1>. DEFINE Bad == {W \in SUBSET U : ~(Cardinality(W) <= Cardinality(Entering(T, W)))}
<1>0. IsFiniteSet(U)
  BY FS_Subset
<1>. SUFFICES ASSUME Bad # {} PROVE FALSE
  OBVIOUS
<1>1. PICK W \in Bad : \A Y \in Bad : Y \subseteq W => Y = W
  <2>1. Bad \subseteq SUBSET U
    OBVIOUS
  <2>. HIDE DEF Bad
  <2>. QED BY <1>0, <2>1, LeastSubset
<1>2. IsFiniteSet(W) /\ Cardinality(W) \in Nat
  BY <1>0, FS_Subset, FS_CardinalityType
<1>3. \A Y : /\ Entering(T, Y) \subseteq Relationships
             /\ IsFiniteSet(Entering(T, Y)) /\ Cardinality(Entering(T, Y)) \in Nat
  <2>. SUFFICES ASSUME NEW Y
                PROVE  /\ Entering(T, Y) \subseteq Relationships
                       /\ IsFiniteSet(Entering(T, Y)) /\ Cardinality(Entering(T, Y)) \in Nat
    OBVIOUS
  <2>1. Entering(T, Y) \subseteq Relationships
    BY DEF Entering
  <2>. QED BY <2>1, FiniteRefs
<1>4. W # {}
  BY <1>3, FS_EmptySet
<1>. DEFINE V == X \ W
<1>5. V \in SUBSET X /\ wanted.base \in V /\ V # X
  BY <1>4
<1>6. PICK rel \in T : /\ Ends(rel) \cap V # {} /\ ~(Ends(rel) \subseteq V)
  BY <1>5 DEF Reaches
<1>7. PICK to \in Ends(rel) : to \notin V
  BY <1>6
<1>8. to \in W /\ Ends(rel) \cap (W \ {to}) = {}
  BY <1>6, <1>7 DEF Ends
<1>9. Cardinality(W \ {to}) = Cardinality(W) - 1
  BY <1>2, <1>8, FS_RemoveElement
<1>10. Cardinality(W \ {to}) <= Cardinality(Entering(T, W \ {to}))
  BY <1>1, <1>8
<1>11. rel \notin Entering(T, W \ {to})
  BY <1>8 DEF Entering
<1>12. Entering(T, W \ {to}) \cup {rel} \subseteq Entering(T, W)
  BY <1>8 DEF Entering
<1>13. Cardinality(Entering(T, W \ {to}) \cup {rel}) = Cardinality(Entering(T, W \ {to})) + 1
  BY <1>3, <1>11, FS_AddElement
<1>14. Cardinality(Entering(T, W \ {to}) \cup {rel}) <= Cardinality(Entering(T, W))
  BY <1>3, <1>12, FS_Subset
<1>. QED BY <1>2, <1>3, <1>9, <1>10, <1>13, <1>14

\* A partial plan has reached whatever its relationships lead to.
LEMMA ReachedTogether ==
  ASSUME NEW p, Tree(p), NEW S, wanted.base \in S,
         \A rel \in Refs(p) :
           Ends(rel) \cap S # {} /\ Ends(rel) \ S \subseteq OneSide(rel) => Ends(rel) \subseteq S
  PROVE  Visited(p) \subseteq S
<1>. DEFINE within == S \cap Visited(p)
<1>1. within \in SUBSET Visited(p) /\ wanted.base \in within
  BY DEF Visited
<1>2. ASSUME NEW rel \in Refs(p), Ends(rel) \cap within # {},
             Ends(rel) \ within \subseteq OneSide(rel)
      PROVE  Ends(rel) \subseteq within
  <2>1. Ends(rel) \subseteq Visited(p)
    BY DEF Tree, Spans
  <2>2. Ends(rel) \cap S # {} /\ Ends(rel) \ S \subseteq OneSide(rel)
    BY <1>2, <2>1
  <2>. QED BY <2>1, <2>2
<1>3. Reaches(Refs(p), Visited(p))
  BY DEF Tree
<1>. HIDE DEF within
<1>4. within = Visited(p)
  BY <1>1, <1>2, <1>3 DEF Reaches
<1>. QED BY <1>4 DEF within

\* What is planned within an answer takes every relationship of it that can only be entered
\* where the plan has come: the answer needs it to get there.
LEMMA NoneLeftOut ==
  ASSUME NEW T \in Answers, NEW p, Tree(p), Refs(p) \subseteq T,
         NEW rel \in T, OneSide(rel) \subseteq Visited(p)
  PROVE  rel \in Refs(p)
<1>. SUFFICES ASSUME rel \notin Refs(p) PROVE FALSE
  OBVIOUS
<1>. DEFINE X == Spans(T)
            R == T \ {rel}
            U == X \ {wanted.base}
<1>1. /\ T \subseteq Relationships /\ R \subseteq Relationships /\ Reaches(T, X)
      /\ Cardinality(X) = Cardinality(T) + 1
  BY DEF Answers, Connects
<1>2. IsFiniteSet(T) /\ Cardinality(T) \in Nat /\ IsFiniteSet(X)
  BY <1>1, FiniteRefs, SpansFinite
<1>3. wanted.base \in X /\ \A e \in T : Ends(e) \subseteq X
  BY DEF Spans
<1>4. Reaches(R, X)
  <2>. SUFFICES ASSUME NEW S \in SUBSET X, wanted.base \in S,
                       \A e \in R : Ends(e) \cap S # {} /\ Ends(e) \ S \subseteq OneSide(e)
                                     => Ends(e) \subseteq S
                PROVE  S = X
    BY DEF Reaches
  <2>1. Visited(p) \subseteq S
    <3>1. Refs(p) \subseteq R
      OBVIOUS
    <3>. QED BY <3>1, ReachedTogether
  <2>2. \A e \in T : Ends(e) \cap S # {} /\ Ends(e) \ S \subseteq OneSide(e)
                     => Ends(e) \subseteq S
    BY <2>1
  <2>. QED BY <1>1, <2>2 DEF Reaches
<1>5. Cardinality(U) = Cardinality(T)
  <2>1. Cardinality(U) = Cardinality(X) - 1
    BY <1>2, <1>3, FS_RemoveElement
  <2>. QED BY <1>1, <1>2, <2>1
<1>6. Cardinality(R) = Cardinality(T) - 1
  BY <1>2, FS_RemoveElement
<1>7. Cardinality(U) <= Cardinality(Entering(R, U))
  <2>1. U \subseteq X /\ wanted.base \notin U /\ \A e \in R : Ends(e) \subseteq X
    BY <1>3
  <2>. HIDE DEF X, R, U
  <2>. QED BY <1>1, <1>2, <1>3, <1>4, <2>1, OneForEach
<1>8. /\ Cardinality(Entering(R, U)) <= Cardinality(R)
      /\ Cardinality(Entering(R, U)) \in Nat /\ Cardinality(R) \in Nat
  <2>1. Entering(R, U) \in SUBSET R /\ Entering(R, U) \subseteq Relationships
    BY <1>1 DEF Entering
  <2>2. IsFiniteSet(R) /\ Cardinality(R) \in Nat /\ Cardinality(Entering(R, U)) \in Nat
    BY <1>1, <2>1, FiniteRefs
  <2>. QED BY <2>1, <2>2, FS_Subset
<1>. QED BY <1>2, <1>5, <1>6, <1>7, <1>8

-----------------------------------------------------------------------------
(* One join more.                                                             *)

LEMMA EntersOne ==
  ASSUME Connected, NEW j \in Joins, {j.from, j.to} = Ends(j.rel), j.from # j.to
  PROVE  Preserves(j.rel, j.from) <=> j.to \in OneSide(j.rel)
<1>1. /\ j.rel \in Relationships /\ graph[j.rel].left # graph[j.rel].right
      /\ {j.from, j.to} = {graph[j.rel].left, graph[j.rel].right}
  BY DEF Connected, Joins, Ends
<1>2. CASE j.from = graph[j.rel].left /\ j.to = graph[j.rel].right
  BY <1>1, <1>2 DEF Preserves, OneSide
<1>3. CASE j.from = graph[j.rel].right /\ j.to = graph[j.rel].left
  BY <1>1, <1>3 DEF Preserves, OneSide
<1>. QED BY <1>1, <1>2, <1>3

LEMMA NoJoins == <<>> \in Trees
<1>. DEFINE e == <<>>
<1>1. Refs(e) = {} /\ Visited(e) = {wanted.base} /\ e \in Seq(Joins) /\ Len(e) = 0
  BY DEF Refs, Visited
<1>2. Spans({}) = {wanted.base}
  BY DEF Spans
<1>3. Reaches({}, {wanted.base})
  BY DEF Reaches
<1>4. IsFiniteSet({}) /\ Cardinality({}) = 0
      /\ IsFiniteSet({wanted.base}) /\ Cardinality({wanted.base}) = 1
  BY FS_EmptySet, FS_Singleton
<1>. HIDE DEF e
<1>5. Tree(e)
  BY <1>1, <1>2, <1>3, <1>4, PlannerAssumption DEF Tree
<1>. QED BY <1>1, <1>5 DEF Trees, e

LEMMA AppendedJoin ==
  ASSUME NEW p \in Seq(Joins), NEW j \in Joins
  PROVE  /\ Append(p, j) \in Seq(Joins) /\ Len(Append(p, j)) = Len(p) + 1
         /\ Refs(Append(p, j)) = Refs(p) \cup {j.rel}
         /\ Visited(Append(p, j)) = Visited(p) \cup {j.to}
<1>. DEFINE q == Append(p, j)
<1>1. /\ q \in Seq(Joins) /\ Len(q) = Len(p) + 1 /\ Len(p) \in Nat
      /\ DOMAIN q = 1..(Len(p) + 1) /\ DOMAIN p = 1..Len(p)
      /\ \A i \in 1..Len(p) : q[i] = p[i]
      /\ q[Len(p) + 1] = j
  OBVIOUS
<1>2. DOMAIN q = DOMAIN p \cup {Len(p) + 1}
  BY <1>1
<1>. HIDE DEF q
<1>3. Refs(q) = Refs(p) \cup {j.rel}
  BY <1>1, <1>2 DEF Refs
<1>4. Visited(q) = Visited(p) \cup {j.to}
  BY <1>1, <1>2 DEF Visited
<1>. QED BY <1>1, <1>3, <1>4 DEF q

\* A tree and a join that leads out of it are a tree.
LEMMA TreeGrows ==
  ASSUME Connected, NEW p \in Trees, Len(p) < MaxHops, NEW j \in Crossings(p)
  PROVE  Append(p, j) \in Trees
<1>. DEFINE q == Append(p, j)
<1>0. p \in Seq(Joins) /\ Tree(p) /\ Len(p) \in Nat /\ MaxHops \in Nat
  BY PlannerAssumption DEF Trees
<1>1. /\ j \in Joins /\ {j.from, j.to} = Ends(j.rel)
      /\ j.from \in Visited(p) /\ j.to \notin Visited(p) /\ Followed(j.rel, j.from)
  BY DEF Crossings
<1>2. /\ q \in Seq(Joins) /\ Len(q) = Len(p) + 1
      /\ Refs(q) = Refs(p) \cup {j.rel} /\ Visited(q) = Visited(p) \cup {j.to}
  BY <1>0, <1>1, AppendedJoin
<1>. HIDE DEF q
<1>3. \A rel \in Refs(p) : Ends(rel) \subseteq Visited(p)
  BY <1>0 DEF Tree, Spans
<1>4. j.rel \notin Refs(p)
  BY <1>1, <1>3
<1>5. /\ IsFiniteSet(Refs(q)) /\ Cardinality(Refs(q)) = Len(q)
      /\ IsFiniteSet(Visited(q)) /\ Cardinality(Visited(q)) = Len(q) + 1
  <2>1. IsFiniteSet(Refs(q)) /\ Cardinality(Refs(q)) = Len(q)
    <3>1. IsFiniteSet(Refs(p)) /\ Cardinality(Refs(p)) = Len(p)
      BY <1>0 DEF Tree
    <3>2. /\ IsFiniteSet(Refs(p) \cup {j.rel})
          /\ Cardinality(Refs(p) \cup {j.rel}) = Cardinality(Refs(p)) + 1
      BY <1>4, <3>1, FS_AddElement
    <3>. QED BY <1>2, <3>1, <3>2
  <2>2. IsFiniteSet(Visited(q)) /\ Cardinality(Visited(q)) = Len(q) + 1
    <3>1. IsFiniteSet(Visited(p)) /\ Cardinality(Visited(p)) = Len(p) + 1
      BY <1>0 DEF Tree
    <3>2. /\ IsFiniteSet(Visited(p) \cup {j.to})
          /\ Cardinality(Visited(p) \cup {j.to}) = Cardinality(Visited(p)) + 1
      BY <1>1, <3>1, FS_AddElement
    <3>. QED BY <1>2, <3>1, <3>2
  <2>. QED BY <2>1, <2>2
<1>6. Visited(q) = Spans(Refs(q))
  <2>1. Spans(Refs(q)) = Spans(Refs(p)) \cup Ends(j.rel)
    BY <1>2 DEF Spans
  <2>2. Spans(Refs(p)) = Visited(p)
    BY <1>0 DEF Tree
  <2>. QED BY <1>1, <1>2, <2>1, <2>2
<1>7. Reaches(Refs(q), Visited(q))
  <2>. SUFFICES ASSUME NEW S \in SUBSET Visited(q), wanted.base \in S,
                       \A rel \in Refs(q) :
                         Ends(rel) \cap S # {} /\ Ends(rel) \ S \subseteq OneSide(rel)
                           => Ends(rel) \subseteq S
                PROVE  S = Visited(q)
    BY DEF Reaches
  <2>3. Visited(p) \subseteq S
    BY <1>0, <1>2, ReachedTogether
  <2>4. j.to \in OneSide(j.rel)
    BY <1>1, EntersOne DEF Followed
  <2>5. j.rel \in Refs(q) /\ j.from \in S
    BY <1>1, <1>2, <2>3
  <2>6. Ends(j.rel) \cap S # {} /\ Ends(j.rel) \ S \subseteq OneSide(j.rel)
    <3>1. Ends(j.rel) \ S \subseteq {j.to} BY <1>1, <2>5
    <3>. QED BY <1>1, <2>4, <2>5, <3>1
  <2>7. Ends(j.rel) \subseteq S BY <2>5, <2>6
  <2>. QED BY <1>1, <1>2, <2>3, <2>7
<1>8. \A rel \in Refs(q) : Permitted(rel) /\ ~graph[rel].prohibited
  BY <1>0, <1>1, <1>2 DEF Tree, Followed
<1>9. Len(q) <= MaxHops BY <1>0, <1>2
<1>10. Tree(q) BY <1>5, <1>6, <1>7, <1>8, <1>9 DEF Tree
<1>. QED BY <1>2, <1>10 DEF Trees, q

-----------------------------------------------------------------------------
(* The joins that lead out, and the order they come in.                       *)

\* A partial plan within an answer that is not complete has a hop left, and a join
\* that leads out of it within that answer.
LEMMA GrowsWithin ==
  ASSUME Connected, NEW T \in Answers, NEW p \in Trees, Refs(p) \subseteq T, ~Complete(p)
  PROVE  Len(p) < MaxHops /\ \E j \in Crossings(p) : j.rel \in T
<1>1. /\ T \subseteq Relationships /\ Cardinality(T) <= MaxHops
      /\ wanted.terminals \subseteq Spans(T) /\ Reaches(T, Spans(T))
      /\ \A rel \in T : Permitted(rel) /\ ~graph[rel].prohibited
  BY DEF Answers, Connects
<1>2. /\ Len(p) \in Nat /\ Len(p) <= MaxHops /\ Cardinality(Refs(p)) = Len(p)
      /\ Visited(p) = Spans(Refs(p))
  BY DEF Trees, Tree
<1>3. Visited(p) \in SUBSET Spans(T) /\ wanted.base \in Visited(p)
  BY <1>2 DEF Spans
<1>4. Visited(p) # Spans(T)
  BY <1>1 DEF Complete
<1>5. Len(p) < MaxHops
  <2>1. IsFiniteSet(T) /\ Cardinality(T) \in Nat
    BY <1>1, FiniteRefs
  <2>2. Cardinality(Refs(p)) <= Cardinality(T) /\ (Cardinality(T) = Cardinality(Refs(p)) => T = Refs(p))
    BY <2>1, FS_Subset
  <2>3. T # Refs(p)
    BY <1>2, <1>4
  <2>. QED BY <1>1, <1>2, <2>1, <2>2, <2>3, PlannerAssumption
<1>6. PICK rel \in T : /\ Ends(rel) \cap Visited(p) # {}
                       /\ Ends(rel) \ Visited(p) \subseteq OneSide(rel)
                       /\ ~(Ends(rel) \subseteq Visited(p))
  BY <1>1, <1>3, <1>4 DEF Reaches
<1>7. PICK from \in Ends(rel), to \in Ends(rel) : from \in Visited(p) /\ to \notin Visited(p)
  BY <1>6
<1>8. /\ rel \in Relationships /\ from \in Tables /\ to \in Tables
      /\ {from, to} = Ends(rel) /\ to \in OneSide(rel)
  BY <1>1, <1>6, <1>7 DEF Connected, RelationshipRecords, Ends
<1>. DEFINE j == [rel |-> rel, from |-> from, to |-> to]
<1>9. j \in Joins /\ j.rel = rel /\ j.from = from /\ j.to = to
  BY <1>8 DEF Joins
<1>. HIDE DEF j
<1>10. Followed(rel, from)
  BY <1>1, <1>7, <1>8, <1>9, EntersOne DEF Followed
<1>11. j \in Crossings(p)
  BY <1>7, <1>8, <1>9, <1>10 DEF Crossings
<1>. QED BY <1>5, <1>9, <1>11

\* What leads out goes by one relationship each, and has its place in the order.
LEMMA CrossingsOrdered ==
  ASSUME Connected, NEW p
  PROVE  /\ IsFiniteSet(Crossings(p))
         /\ \A i, j \in Crossings(p) : i # j => First(i, j) \/ First(j, i)
         /\ \A i \in Crossings(p) : ~First(i, i)
         /\ \A i, j, k \in Crossings(p) : First(i, j) /\ First(j, k) => First(i, k)
<1>. DEFINE C == Crossings(p)
            f == [j \in C |-> j.rel]
<1>1. \A j \in C : j.rel \in Nat /\ j.from \in Nat /\ j.rel \in Relationships
  BY CatalogAssumption DEF Crossings, Joins
<1>2. \A i, j \in C : i.rel = j.rel => i = j
  BY DEF Crossings, Joins
<1>3. f \in Injection(C, Relationships)
  BY <1>1, <1>2 DEF Injection, IsInjective
<1>4. IsFiniteSet(C)
  BY <1>3, CatalogAssumption, FS_Injection
<1>. HIDE DEF C
<1>5. \A i, j \in C : i # j => First(i, j) \/ First(j, i)
  BY <1>1, <1>2 DEF First
<1>6. \A i \in C : ~First(i, i)
  BY <1>1 DEF First
<1>7. \A i, j, k \in C : First(i, j) /\ First(j, k) => First(i, k)
  BY <1>1 DEF First
<1>. QED BY <1>4, <1>5, <1>6, <1>7 DEF C

\* The places of n joins in the order are the numbers from 1 to n.
LEMMA PlacesTaken ==
  ASSUME NEW E, IsFiniteSet(E),
         \A i, j \in E : i # j => First(i, j) \/ First(j, i),
         \A i \in E : ~First(i, i),
         \A i, j, k \in E : First(i, j) /\ First(j, k) => First(i, k)
  PROVE  /\ \A j \in E : Place(j, E) \in 1..Cardinality(E)
         /\ \A i, j \in E : Place(i, E) = Place(j, E) => i = j
         /\ \A k \in 1..Cardinality(E) : \E j \in E : Place(j, E) = k
<1>. DEFINE earlier(j) == {i \in E : First(i, j)}
<1>0. Cardinality(E) \in Nat /\ \A j : IsFiniteSet(earlier(j)) /\ Cardinality(earlier(j)) \in Nat
  BY FS_Subset, FS_CardinalityType
<1>1. ASSUME NEW i, NEW B \in SUBSET E, i \in B, i \notin earlier(i), earlier(i) \subseteq B
      PROVE  Place(i, E) <= Cardinality(B)
  <2>1. earlier(i) \cup {i} \in SUBSET B /\ IsFiniteSet(B) /\ Cardinality(B) \in Nat
    BY <1>1, FS_Subset, FS_CardinalityType
  <2>2. Cardinality(earlier(i) \cup {i}) = Cardinality(earlier(i)) + 1
    BY <1>0, <1>1, FS_AddElement
  <2>3. Cardinality(earlier(i) \cup {i}) <= Cardinality(B)
    BY <2>1, FS_Subset
  <2>4. Place(i, E) = 1 + Cardinality(earlier(i)) /\ Cardinality(earlier(i)) \in Nat
    BY <1>0 DEF Place
  <2>. HIDE DEF earlier
  <2>. QED BY <2>1, <2>2, <2>3, <2>4
<1>2. ASSUME NEW j \in E PROVE Place(j, E) \in 1..Cardinality(E)
  <2>1. Place(j, E) <= Cardinality(E)
    BY <1>1
  <2>2. Place(j, E) = 1 + Cardinality(earlier(j))
    BY DEF Place
  <2>. QED BY <1>0, <2>1, <2>2
<1>3. ASSUME NEW i \in E, NEW j \in E, First(i, j) PROVE Place(i, E) < Place(j, E)
  <2>1. i \in earlier(j) /\ i \notin earlier(i) /\ earlier(i) \subseteq earlier(j)
        /\ earlier(j) \in SUBSET E
    BY <1>3
  <2>2. Place(i, E) <= Cardinality(earlier(j))
    BY <1>1, <2>1
  <2>3. Place(j, E) = 1 + Cardinality(earlier(j)) /\ Cardinality(earlier(j)) \in Nat
    BY <1>0 DEF Place
  <2>4. Place(i, E) \in Nat
    BY <1>0, <1>2
  <2>. HIDE DEF earlier
  <2>. QED BY <2>2, <2>3, <2>4
<1>4. \A i, j \in E : Place(i, E) = Place(j, E) => i = j
  BY <1>2, <1>3
<1>. DEFINE f == [j \in E |-> Place(j, E)]
<1>5. f \in Injection(E, 1..Cardinality(E))
  BY <1>2, <1>4 DEF Injection, IsInjective
<1>6. IsFiniteSet(1..Cardinality(E)) /\ Cardinality(1..Cardinality(E)) = Cardinality(E)
  BY <1>0, FS_Interval
<1>7. f \in Surjection(E, 1..Cardinality(E))
  BY <1>5, <1>6, FS_Injection
<1>8. \A k \in 1..Cardinality(E) : \E j \in E : Place(j, E) = k
  BY <1>7 DEF Surjection
<1>. QED BY <1>2, <1>4, <1>8

\* A partial plan is extended by each join that leads out of it.
LEMMA ExtensionsOfTree ==
  ASSUME Connected, NEW p \in Trees, Len(p) < MaxHops
  PROVE  /\ Extensions(p) \in Seq(Trees)
         /\ \A i \in DOMAIN Extensions(p) : Len(Extensions(p)[i]) = Len(p) + 1
         /\ \A j \in Crossings(p) : \E i \in DOMAIN Extensions(p) : Extensions(p)[i] = Append(p, j)
<1>. DEFINE C == Crossings(p)
            n == Cardinality(C)
            nth(k) == CHOOSE j \in C : Place(j, C) = k
<1>1. IsFiniteSet(C) /\ n \in Nat
  BY CrossingsOrdered, FS_CardinalityType
<1>2. /\ \A j \in C : Place(j, C) \in 1..n
      /\ \A i, j \in C : Place(i, C) = Place(j, C) => i = j
      /\ \A k \in 1..n : \E j \in C : Place(j, C) = k
  BY CrossingsOrdered, PlacesTaken
<1>3. \A k \in 1..n : nth(k) \in C /\ Place(nth(k), C) = k
  BY <1>2
<1>4. \A j \in C : nth(Place(j, C)) = j
  BY <1>2, <1>3
<1>5. \A j \in C : Append(p, j) \in Trees /\ Len(Append(p, j)) = Len(p) + 1
  <2>1. \A j \in C : j \in Joins BY DEF Crossings
  <2>. QED BY <2>1, TreeGrows, AppendedJoin DEF Trees
<1>6. Extensions(p) = [k \in 1..n |-> Append(p, nth(k))]
  BY DEF Extensions
<1>. HIDE DEF n, nth, C
<1>7. Extensions(p) \in Seq(Trees) /\ DOMAIN Extensions(p) = 1..n
  BY <1>1, <1>3, <1>5, <1>6
<1>8. \A k \in 1..n : Len(Extensions(p)[k]) = Len(p) + 1
  BY <1>3, <1>5, <1>6
<1>9. ASSUME NEW j \in C PROVE \E k \in 1..n : Extensions(p)[k] = Append(p, j)
  BY <1>2, <1>4, <1>6
<1>. QED BY <1>7, <1>8, <1>9 DEF C

-----------------------------------------------------------------------------
(* The inductive invariant.                                                   *)

\* What is enumerated are trees, shortest first; what is found of them is complete.
Enumerated ==
  /\ wanted \in [base : Tables, terminals : SUBSET Tables, required : SUBSET Relationships]
  /\ queue \in Seq(Trees) /\ found \in Seq({p \in Trees : Complete(p)})
  /\ Len(found) <= MaxCandidates
  /\ \A i, j \in DOMAIN queue : i <= j =>
       Len(queue[i]) <= Len(queue[j]) /\ Len(queue[j]) <= Len(queue[i]) + 1
  /\ \A i \in DOMAIN found, j \in DOMAIN queue : Len(found[i]) <= Len(queue[j])

PartOf(T) ==
  \/ \E i \in DOMAIN queue : Refs(queue[i]) \subseteq T
  \/ \E i \in DOMAIN found : Refs(found[i]) \subseteq T

\* Part of every answer is in hand, or was found.
NoneMissed == joins # "idle" /\ wanted.terminals # {} => \A T \in Answers : PartOf(T)

\* The enumeration ends before anything is decided, and what is chosen is shortest.
Decided ==
  /\ joins \in {"idle", "searching", "planned", "NO_APPROVED_PATH"}
  /\ joins = "idle" => queue = <<>> /\ found = <<>>
  /\ joins # "planned" \/ wanted.terminals = {} => plan = <<>>
  /\ joins = "searching" => wanted.terminals # {}
  /\ joins = "planned" /\ wanted.terminals # {} =>
       ~Enumerating /\ plan \in Eligible /\ \A q \in Eligible : Len(plan) <= Len(q)
  /\ joins = "NO_APPROVED_PATH" =>
       wanted.terminals # {} /\ ~Enumerating /\ Eligible = {}

PlannerInv == Enumerated /\ NoneMissed /\ Decided

\* The plans found, as what they are.
LEMMA FoundAreTrees ==
  ASSUME Enumerated
  PROVE  /\ found \in Seq(Trees) /\ Len(found) \in Nat /\ DOMAIN found = 1..Len(found)
         /\ \A i \in DOMAIN found : found[i] \in Trees /\ Complete(found[i])
         /\ \A p \in Eligible :
              p \in Trees /\ Complete(p) /\ wanted.required \subseteq Refs(p)
<1>1. /\ found \in Seq(Trees) /\ Len(found) \in Nat /\ DOMAIN found = 1..Len(found)
      /\ \A i \in DOMAIN found : found[i] \in Trees /\ Complete(found[i])
  BY DEF Enumerated
<1>. QED BY <1>1 DEF Eligible, ToSet

\* The rank decides between any two plans on different relationships.
LEMMA NoTie == ASSUME Enumerated PROVE ~Ambiguous
<1>. SUFFICES ASSUME NEW p \in Eligible, NEW q \in Eligible,
                     ~Before(p, q), ~Before(q, p), Refs(p) # Refs(q)
              PROVE  FALSE
  BY DEF Ambiguous
<1>1. p \in Seq(Joins) /\ q \in Seq(Joins)
  BY FoundAreTrees DEF Trees
<1>2. Len(p) \in Nat /\ Len(q) = Len(p) /\ DOMAIN p = 1..Len(p) /\ DOMAIN q = 1..Len(p)
  BY <1>1 DEF Before
<1>3. \A i \in 1..Len(p) : p[i].rel \in Nat /\ q[i].rel \in Nat
  <2>1. \A i \in 1..Len(p) : p[i] \in Joins /\ q[i] \in Joins
    BY <1>1, <1>2
  <2>. QED BY <2>1, CatalogAssumption DEF Joins
<1>. DEFINE D == {i \in 1..Len(p) : p[i].rel # q[i].rel}
<1>4. D # {}
  BY <1>2 DEF Refs
<1>5. D \subseteq Nat
  BY <1>2
<1>6. PICK i \in D : \A k \in D : i <= k
  BY <1>4, <1>5, LeastNumber
<1>7. \A k \in 1..(i - 1) : p[k].rel = q[k].rel
  BY <1>2, <1>6
<1>8. p[i].rel < q[i].rel \/ q[i].rel < p[i].rel
  BY <1>3
<1>. QED BY <1>2, <1>7, <1>8 DEF Before

LEMMA SameCatalog ==
  ASSUME UNCHANGED <<graph, may, wanted>>
  PROVE  /\ Trees' = Trees /\ Answers' = Answers
         /\ \A p : (Complete(p)' <=> Complete(p)) /\ Refs(p)' = Refs(p)
<1>1. \A p : Refs(p)' = Refs(p) /\ Visited(p)' = Visited(p)
  BY DEF Refs, Visited
<1>2. \A rel : Ends(rel)' = Ends(rel) /\ OneSide(rel)' = OneSide(rel)
  BY DEF Ends, OneSide
<1>3. \A rel : Permitted(rel)' <=> Permitted(rel)
  BY <1>2 DEF Permitted, Keys
<1>4. \A T : Spans(T)' = Spans(T)
  BY <1>2 DEF Spans
<1>5. \A T, tables : Reaches(T, tables)' <=> Reaches(T, tables)
  BY <1>2 DEF Reaches
<1>6. \A p : Complete(p)' <=> Complete(p)
  BY <1>1 DEF Complete
<1>7. \A p : Tree(p)' <=> Tree(p)
  BY <1>1, <1>3, <1>4, <1>5 DEF Tree
<1>8. Trees' = Trees
  BY <1>7 DEF Trees
<1>9. \A T : Connects(T)' <=> Connects(T)
  BY <1>3, <1>4, <1>5 DEF Connects
<1>10. Answers' = Answers
  BY <1>9 DEF Answers
<1>. QED BY <1>1, <1>6, <1>8, <1>10

LEMMA PlannerKept ==
  ASSUME PlannerInv, UNCHANGED <<graph, may, joinVars>>
  PROVE  PlannerInv'
<1>. UNCHANGED <<wanted, queue, found, plan, joins>>
  BY DEF joinVars
<1>1. /\ Trees' = Trees /\ Answers' = Answers
      /\ \A p : (Complete(p)' <=> Complete(p)) /\ Refs(p)' = Refs(p)
  BY SameCatalog
<1>2. Enumerated'
  BY <1>1 DEF PlannerInv, Enumerated
<1>3. NoneMissed'
  BY <1>1 DEF PlannerInv, NoneMissed, PartOf
<1>4. Eligible' = Eligible
  BY <1>1 DEF Eligible
<1>5. Decided'
  BY <1>4 DEF PlannerInv, Decided, Enumerating
<1>. QED BY <1>2, <1>3, <1>5 DEF PlannerInv

\* The call: the enumeration starts from the base alone, which is part of any answer.
LEMMA OpenJoinsPlans ==
  ASSUME PlannerInv, NEW base \in Tables, NEW tables \in SUBSET Tables,
         NEW required \in SUBSET Relationships, OpenJoins(base, tables, required)
  PROVE  PlannerInv'
<1>. DEFINE e == <<>>
<1>0. (<<>> \in Trees)'
  BY NoJoins, PTL
<1>1. /\ wanted' = [base |-> base, terminals |-> tables \ {base}, required |-> required]
      /\ queue = <<>> /\ found = <<>> /\ plan = <<>> /\ found' = <<>> /\ plan' = <<>>
      /\ IF wanted'.terminals = {} THEN joins' = "planned" /\ queue' = <<>>
                                   ELSE joins' = "searching" /\ queue' = << <<>> >>
  BY DEF OpenJoins, PlannerInv, Decided
<1>2. /\ e \in Trees' /\ Refs(e) = {} /\ Len(e) = 0
      /\ queue' = <<>> \/ queue' = <<e>>
  BY <1>0, <1>1 DEF Refs
<1>. HIDE DEF e
<1>3. Enumerated'
  <2>1. queue' \in Seq(Trees')
    <3>1. CASE queue' = <<>> BY <3>1
    <3>2. CASE queue' = <<e>> BY <1>2, <3>2
    <3>. QED BY <1>2, <3>1, <3>2
  <2>2. \A i \in DOMAIN queue' : queue'[i] = e
    BY <1>2
  <2>3. found' \in Seq({p \in Trees' : Complete(p)'}) /\ Len(found') = 0 /\ DOMAIN found' = {}
    BY <1>1
  <2>4. wanted' \in [base : Tables, terminals : SUBSET Tables, required : SUBSET Relationships]
    BY <1>1
  <2>. QED BY <1>2, <2>1, <2>2, <2>3, <2>4, PlannerAssumption DEF Enumerated
<1>4. NoneMissed'
  <2>. SUFFICES ASSUME wanted'.terminals # {}, NEW T PROVE PartOf(T)'
    BY DEF NoneMissed
  <2>1. queue' = <<e>>
    BY <1>1 DEF e
  <2>2. 1 \in DOMAIN queue' /\ Refs(queue'[1]) = {}
    BY <1>2, <2>1
  <2>. QED BY <2>2 DEF PartOf, Refs
<1>5. Decided'
  BY <1>1 DEF Decided
<1>. QED BY <1>3, <1>4, <1>5 DEF PlannerInv

\* The head of the queue, and the rest.
LEMMA HeadOfQueue ==
  ASSUME Enumerated, queue # <<>>
  PROVE  /\ Head(queue) = queue[1] /\ queue[1] \in Trees /\ Len(queue[1]) \in Nat
         /\ Len(queue) \in Nat \ {0} /\ DOMAIN queue = 1..Len(queue)
         /\ \A i \in 1..Len(queue) : queue[i] \in Trees /\ Len(queue[i]) \in Nat
         /\ Tail(queue) \in Seq(Trees) /\ Len(Tail(queue)) = Len(queue) - 1
         /\ \A i \in 1..(Len(queue) - 1) : Tail(queue)[i] = queue[i + 1]
<1>1. queue \in Seq(Trees)
  BY DEF Enumerated
<1>2. \A p \in Trees : Len(p) \in Nat
  BY DEF Trees
<1>. QED BY <1>1, <1>2

\* A complete plan leaves the queue and is found.
LEMMA SearchFinds ==
  ASSUME PlannerInv, Connected, Search, UNCHANGED <<graph, may>>, Complete(Head(queue))
  PROVE  PlannerInv'
<1>. DEFINE n == Len(queue)
            m == Len(found)
<1>1. /\ joins = "searching" /\ queue # <<>> /\ m < MaxCandidates
      /\ UNCHANGED <<wanted, plan, joins>>
      /\ found' = Append(found, queue[1]) /\ queue' = Tail(queue)
      /\ Complete(queue[1])
  BY HeadOfQueue DEF Search, Enumerating, PlannerInv
<1>2. /\ Trees' = Trees /\ Answers' = Answers
      /\ \A p : (Complete(p)' <=> Complete(p)) /\ Refs(p)' = Refs(p)
  BY <1>1, SameCatalog
<1>3. /\ queue[1] \in Trees /\ n \in Nat \ {0} /\ DOMAIN queue = 1..n
      /\ \A i \in 1..n : Len(queue[i]) \in Nat
      /\ queue' \in Seq(Trees) /\ DOMAIN queue' = 1..(n - 1)
      /\ \A i \in 1..(n - 1) : queue'[i] = queue[i + 1]
  BY <1>1, HeadOfQueue DEF PlannerInv
<1>. DEFINE P == {p \in Trees : Complete(p)}
<1>4. /\ found \in Seq(P) /\ queue[1] \in P
  BY <1>1, <1>3 DEF PlannerInv, Enumerated
<1>5. /\ found' \in Seq(P) /\ m \in Nat /\ DOMAIN found = 1..m
      /\ Len(found') = m + 1 /\ DOMAIN found' = 1..(m + 1)
      /\ \A i \in 1..m : found'[i] = found[i]
      /\ found'[m + 1] = queue[1]
  <2>. HIDE DEF P
  <2>. QED BY <1>1, <1>4
<1>6. Enumerated'
  <2>1. /\ wanted' \in [base : Tables, terminals : SUBSET Tables, required : SUBSET Relationships]
        /\ \A i, j \in 1..n : i <= j =>
             Len(queue[i]) <= Len(queue[j]) /\ Len(queue[j]) <= Len(queue[i]) + 1
        /\ \A i \in 1..m, j \in 1..n : Len(found[i]) <= Len(queue[j])
    BY <1>1, <1>3, <1>5 DEF PlannerInv, Enumerated
  <2>2. Len(found') <= MaxCandidates
    BY <1>1, <1>5, PlannerAssumption
  <2>3. queue' \in Seq(Trees') /\ found' \in Seq({p \in Trees' : Complete(p)'})
    BY <1>2, <1>3, <1>5
  <2>4. ASSUME NEW i \in DOMAIN queue', NEW j \in DOMAIN queue', i <= j
        PROVE  Len(queue'[i]) <= Len(queue'[j]) /\ Len(queue'[j]) <= Len(queue'[i]) + 1
    <3>1. /\ queue'[i] = queue[i + 1] /\ i + 1 \in 1..n
          /\ queue'[j] = queue[j + 1] /\ j + 1 \in 1..n /\ i + 1 <= j + 1
      BY <1>3, <2>4
    <3>. QED BY <2>1, <3>1
  <2>5. ASSUME NEW i \in DOMAIN found', NEW j \in DOMAIN queue'
        PROVE  Len(found'[i]) <= Len(queue'[j])
    <3>1. queue'[j] = queue[j + 1] /\ j + 1 \in 1..n /\ 1 \in 1..n /\ 1 <= j + 1
      BY <1>3
    <3>2. CASE i \in 1..m BY <1>5, <2>1, <3>1, <3>2
    <3>3. CASE i = m + 1 BY <1>5, <2>1, <3>1, <3>3
    <3>. QED BY <1>5, <3>2, <3>3
  <2>. QED BY <2>1, <2>2, <2>3, <2>4, <2>5 DEF Enumerated
<1>7. NoneMissed'
  <2>. SUFFICES ASSUME wanted.terminals # {}, NEW T \in Answers PROVE PartOf(T)'
    BY <1>1, <1>2 DEF NoneMissed
  <2>1. PartOf(T)
    BY <1>1 DEF PlannerInv, NoneMissed
  <2>2. ASSUME NEW i \in DOMAIN found, Refs(found[i]) \subseteq T PROVE PartOf(T)'
    <3>1. i \in DOMAIN found' /\ Refs(found'[i]) \subseteq T
      BY <1>5, <2>2
    <3>. QED BY <1>2, <3>1 DEF PartOf
  <2>3. ASSUME Refs(queue[1]) \subseteq T PROVE PartOf(T)'
    <3>1. m + 1 \in DOMAIN found' /\ Refs(found'[m + 1]) \subseteq T
      BY <1>5, <2>3
    <3>. QED BY <1>2, <3>1 DEF PartOf
  <2>4. ASSUME NEW i \in 2..n, Refs(queue[i]) \subseteq T PROVE PartOf(T)'
    <3>1. i - 1 \in DOMAIN queue' /\ queue'[i - 1] = queue[i]
      BY <1>3
    <3>. QED BY <1>2, <2>4, <3>1 DEF PartOf
  <2>5. \A i \in DOMAIN queue : i = 1 \/ i \in 2..n
    BY <1>3
  <2>. QED BY <2>1, <2>2, <2>3, <2>4, <2>5 DEF PartOf
<1>8. Decided'
  BY <1>1 DEF PlannerInv, Decided
<1>. QED BY <1>6, <1>7, <1>8 DEF PlannerInv

\* A plan that is not complete leaves the queue to those that extend it.
LEMMA SearchExtends ==
  ASSUME PlannerInv, Connected, Search, UNCHANGED <<graph, may>>, ~Complete(Head(queue))
  PROVE  PlannerInv'
<1>. DEFINE n == Len(queue)
            p == queue[1]
            more == IF HopsLeft(p) THEN Extensions(p) ELSE <<>>
            k == Len(more)
<1>1. /\ joins = "searching" /\ queue # <<>> /\ UNCHANGED <<wanted, plan, joins, found>>
      /\ queue' = Tail(queue) \o more /\ ~Complete(p)
  BY HeadOfQueue DEF Search, Enumerating, PlannerInv
<1>2. /\ Trees' = Trees /\ Answers' = Answers
      /\ \A q : (Complete(q)' <=> Complete(q)) /\ Refs(q)' = Refs(q)
  BY <1>1, SameCatalog
<1>3. /\ p \in Trees /\ n \in Nat \ {0} /\ DOMAIN queue = 1..n
      /\ \A i \in 1..n : Len(queue[i]) \in Nat
      /\ Tail(queue) \in Seq(Trees) /\ Len(Tail(queue)) = n - 1
      /\ \A i \in 1..(n - 1) : Tail(queue)[i] = queue[i + 1]
  BY <1>1, HeadOfQueue DEF PlannerInv
<1>4. /\ more \in Seq(Trees) /\ \A i \in DOMAIN more : Len(more[i]) = Len(p) + 1
      /\ HopsLeft(p) =>
           \A j \in Crossings(p) : \E i \in DOMAIN more : more[i] = Append(p, j)
  BY <1>3, ExtensionsOfTree DEF HopsLeft
<1>5. /\ k \in Nat /\ DOMAIN more = 1..k
      /\ queue' \in Seq(Trees) /\ DOMAIN queue' = 1..(n - 1 + k)
      /\ \A i \in 1..(n - 1) : queue'[i] = queue[i + 1]
      /\ \A i \in 1..k : queue'[n - 1 + i] = more[i]
  <2>1. k \in Nat /\ DOMAIN more = 1..k
    BY <1>4
  <2>. HIDE DEF more, k
  <2>2. queue' \in Seq(Trees) /\ Len(queue') = n - 1 + Len(more)
    BY <1>1, <1>3, <1>4
  <2>3. \A i \in 1..(n - 1 + Len(more)) :
          queue'[i] = IF i <= n - 1 THEN Tail(queue)[i] ELSE more[i - (n - 1)]
    BY <1>1, <1>3, <1>4
  <2>4. k = Len(more) BY DEF k
  <2>5. \A i \in 1..(n - 1) : queue'[i] = queue[i + 1]
    BY <1>3, <2>1, <2>3, <2>4
  <2>6. \A i \in 1..k : queue'[n - 1 + i] = more[i]
    BY <1>3, <2>1, <2>3, <2>4
  <2>. QED BY <2>1, <2>2, <2>4, <2>5, <2>6
<1>. HIDE DEF more, k
<1>6. Enumerated'
  <2>1. /\ wanted' \in [base : Tables, terminals : SUBSET Tables, required : SUBSET Relationships]
        /\ \A i, j \in 1..n : i <= j =>
             Len(queue[i]) <= Len(queue[j]) /\ Len(queue[j]) <= Len(queue[i]) + 1
        /\ \A i \in DOMAIN found, j \in 1..n : Len(found[i]) <= Len(queue[j])
        /\ Len(found) <= MaxCandidates
    BY <1>1, <1>3 DEF PlannerInv, Enumerated
  <2>2. queue' \in Seq(Trees') /\ found' \in Seq({q \in Trees' : Complete(q)'})
    BY <1>1, <1>2, <1>5 DEF PlannerInv, Enumerated
  <2>3. ASSUME NEW i \in DOMAIN queue', i \notin 1..(n - 1)
        PROVE  Len(queue'[i]) = Len(p) + 1
    <3>1. PICK e \in 1..k : i = n - 1 + e
      <4>1. i - (n - 1) \in 1..k /\ i = n - 1 + (i - (n - 1))
        BY <1>3, <1>5, <2>3
      <4>. QED BY <4>1
    <3>2. queue'[i] = more[e] /\ e \in DOMAIN more
      BY <1>5, <3>1
    <3>. QED BY <1>4, <3>2
  <2>4. ASSUME NEW i \in DOMAIN queue', NEW j \in DOMAIN queue', i <= j
        PROVE  Len(queue'[i]) <= Len(queue'[j]) /\ Len(queue'[j]) <= Len(queue'[i]) + 1
    <3>0. 1 \in 1..n /\ Len(p) \in Nat
      BY <1>3
    <3>1. CASE i \in 1..(n - 1) /\ j \in 1..(n - 1)
      <4>1. /\ queue'[i] = queue[i + 1] /\ i + 1 \in 1..n
            /\ queue'[j] = queue[j + 1] /\ j + 1 \in 1..n /\ i + 1 <= j + 1
        BY <1>3, <1>5, <2>4, <3>1
      <4>. QED BY <2>1, <4>1
    <3>2. CASE i \in 1..(n - 1) /\ j \notin 1..(n - 1)
      <4>1. Len(queue'[j]) = Len(p) + 1
        BY <2>3, <3>2
      <4>2. queue'[i] = queue[i + 1] /\ i + 1 \in 1..n /\ 1 <= i + 1
        BY <1>3, <1>5, <3>2
      <4>. QED BY <1>3, <2>1, <3>0, <4>1, <4>2
    <3>3. CASE i \notin 1..(n - 1)
      <4>1. j \notin 1..(n - 1)
        BY <1>3, <1>5, <2>4, <3>3
      <4>2. Len(queue'[i]) = Len(p) + 1 /\ Len(queue'[j]) = Len(p) + 1
        BY <2>3, <3>3, <4>1
      <4>. QED BY <3>0, <4>2
    <3>. QED BY <3>1, <3>2, <3>3
  <2>5. ASSUME NEW i \in DOMAIN found', NEW j \in DOMAIN queue'
        PROVE  Len(found'[i]) <= Len(queue'[j])
    <3>0. i \in DOMAIN found /\ found' = found /\ 1 \in 1..n /\ Len(p) \in Nat
      BY <1>1, <1>3
    <3>1. CASE j \in 1..(n - 1)
      <4>1. queue'[j] = queue[j + 1] /\ j + 1 \in 1..n
        BY <1>3, <1>5, <3>1
      <4>. QED BY <2>1, <3>0, <4>1
    <3>2. CASE j \notin 1..(n - 1)
      <4>1. Len(queue'[j]) = Len(p) + 1
        BY <2>3, <3>2
      <4>2. Len(found[i]) <= Len(p)
        BY <2>1, <3>0
      <4>3. Len(found[i]) \in Nat
        BY <3>0, FoundAreTrees DEF Trees, PlannerInv
      <4>. QED BY <3>0, <4>1, <4>2, <4>3
    <3>. QED BY <3>1, <3>2
  <2>. QED BY <1>1, <2>1, <2>2, <2>4, <2>5 DEF Enumerated
<1>7. NoneMissed'
  <2>. SUFFICES ASSUME wanted.terminals # {}, NEW T \in Answers PROVE PartOf(T)'
    BY <1>1, <1>2 DEF NoneMissed
  <2>1. PartOf(T)
    BY <1>1 DEF PlannerInv, NoneMissed
  <2>2. ASSUME NEW i \in DOMAIN found, Refs(found[i]) \subseteq T PROVE PartOf(T)'
    BY <1>1, <1>2, <2>2 DEF PartOf
  <2>3. ASSUME Refs(p) \subseteq T PROVE PartOf(T)'
    <3>1. HopsLeft(p) /\ \E j \in Crossings(p) : j.rel \in T
      BY <1>1, <1>3, <2>3, GrowsWithin DEF HopsLeft
    <3>2. PICK j \in Crossings(p) : j.rel \in T
      BY <3>1
    <3>3. PICK e \in 1..k : more[e] = Append(p, j)
      BY <1>4, <1>5, <3>1
    <3>4. Refs(Append(p, j)) = Refs(p) \cup {j.rel}
      BY <1>3, AppendedJoin DEF Trees, Crossings
    <3>5. n - 1 + e \in DOMAIN queue' /\ queue'[n - 1 + e] = Append(p, j)
      BY <1>3, <1>5, <3>3
    <3>6. Refs(queue'[n - 1 + e]) \subseteq T
      BY <2>3, <3>2, <3>4, <3>5
    <3>. QED BY <1>2, <3>5, <3>6 DEF PartOf
  <2>4. ASSUME NEW i \in 2..n, Refs(queue[i]) \subseteq T PROVE PartOf(T)'
    <3>1. i - 1 \in DOMAIN queue' /\ queue'[i - 1] = queue[i]
      BY <1>3, <1>5
    <3>. QED BY <1>2, <2>4, <3>1 DEF PartOf
  <2>5. \A i \in DOMAIN queue : i = 1 \/ i \in 2..n
    BY <1>3
  <2>. QED BY <2>1, <2>2, <2>3, <2>4, <2>5 DEF PartOf
<1>8. Decided'
  BY <1>1 DEF PlannerInv, Decided
<1>. QED BY <1>6, <1>7, <1>8 DEF PlannerInv

\* What is chosen has no more joins than any other that was found.
LEMMA ChooseDecides ==
  ASSUME PlannerInv, Choose, UNCHANGED <<graph, may>>
  PROVE  PlannerInv'
<1>1. /\ joins = "searching" /\ ~Enumerating /\ UNCHANGED <<wanted, queue, found>>
      /\ IF Eligible = {} THEN joins' = "NO_APPROVED_PATH" /\ UNCHANGED plan
         ELSE /\ plan' \in Eligible /\ \A q \in Eligible : ~Before(q, plan')
              /\ joins' = "planned"
  BY NoTie DEF Choose, PlannerInv
<1>2. /\ Trees' = Trees /\ Answers' = Answers
      /\ \A p : (Complete(p)' <=> Complete(p)) /\ Refs(p)' = Refs(p)
  BY <1>1, SameCatalog
<1>3. Enumerated'
  BY <1>1, <1>2 DEF PlannerInv, Enumerated
<1>4. NoneMissed'
  BY <1>1, <1>2 DEF PlannerInv, NoneMissed, PartOf
<1>5. Eligible' = Eligible /\ ~Enumerating'
  BY <1>1, <1>2 DEF Eligible, Enumerating
<1>6. joins' = "planned" => \A q \in Eligible : Len(plan') <= Len(q)
  <2>1. \A q \in Eligible : Len(q) \in Nat
    BY FoundAreTrees DEF Trees, PlannerInv
  <2>2. \A q \in Eligible : ~Before(q, plan') => ~(Len(q) < Len(plan'))
    BY DEF Before
  <2>. QED BY <1>1, <2>1, <2>2
<1>7. Decided'
  BY <1>1, <1>5, <1>6 DEF PlannerInv, Decided
<1>. QED BY <1>3, <1>4, <1>7 DEF PlannerInv

-----------------------------------------------------------------------------
(* What follows.                                                              *)

\* What is mandated is entered at tables the plan is to reach in any case.
LedToWanted == \A rel \in wanted.required : OneSide(rel) \subseteq {wanted.base} \cup wanted.terminals

\* The limit on candidates cut nothing off that was asked for.
Uncut == Len(found) < MaxCandidates \/ wanted.required = {}

LEMMA PlansTyped == ASSUME PlannerInv PROVE JoinTypeOK
<1>1. Trees \subseteq Seq(Joins) /\ <<>> \in Trees
  BY NoJoins DEF Trees
<1>2. queue \in Seq(Seq(Joins)) /\ found \in Seq(Seq(Joins))
  BY <1>1, FoundAreTrees DEF PlannerInv, Enumerated
<1>3. plan \in Trees
  BY <1>1, FoundAreTrees DEF PlannerInv, Decided
<1>4. plan \in Seq(Joins) /\ Len(plan) <= MaxHops
  BY <1>3 DEF Trees, Tree
<1>. QED BY <1>2, <1>4 DEF PlannerInv, Enumerated, Decided, JoinTypeOK

LEMMA PlansConnect == ASSUME PlannerInv PROVE PlanConnects
<1>. SUFFICES ASSUME joins = "planned", wanted.terminals # {} PROVE Refs(plan) \in Answers
  BY DEF PlanConnects
<1>1. plan \in Trees /\ Complete(plan) /\ wanted.required \subseteq Refs(plan)
  BY FoundAreTrees DEF PlannerInv, Decided
<1>2. Tree(plan) /\ Len(plan) \in Nat /\ Refs(plan) \subseteq Relationships
  <2>1. plan \in Seq(Joins) /\ Tree(plan)
    BY <1>1 DEF Trees
  <2>2. \A i \in DOMAIN plan : plan[i] \in Joins
    BY <2>1
  <2>. QED BY <2>1, <2>2 DEF Refs, Joins
<1>3. Cardinality(Refs(plan)) <= MaxHops
  BY <1>2 DEF Tree
<1>4. Connects(Refs(plan))
  BY <1>1, <1>2 DEF Tree, Connects, Complete
<1>. QED BY <1>1, <1>2, <1>3, <1>4 DEF Answers

\* A plan found within an answer takes every relationship that was mandated.
LEMMA FoundServes ==
  ASSUME PlannerInv, LedToWanted, NEW T \in Answers,
         NEW i \in DOMAIN found, Refs(found[i]) \subseteq T
  PROVE  found[i] \in Eligible
<1>1. found[i] \in Trees /\ Complete(found[i]) /\ found[i] \in ToSet(found)
  BY FoundAreTrees DEF PlannerInv, ToSet
<1>2. ASSUME NEW rel \in wanted.required PROVE rel \in Refs(found[i])
  <2>1. rel \in T
    BY DEF Answers
  <2>2. OneSide(rel) \subseteq Visited(found[i])
    BY <1>1 DEF LedToWanted, Complete, Visited
  <2>. QED BY <1>1, <2>1, <2>2, NoneLeftOut DEF Trees
<1>. QED BY <1>1, <1>2 DEF Eligible

\* A partial plan within an answer has no more joins than it.
LEMMA PartIsShorter ==
  ASSUME NEW T \in Answers, NEW p \in Trees, Refs(p) \subseteq T
  PROVE  Len(p) <= Cardinality(T) /\ Len(p) \in Nat /\ Cardinality(T) \in Nat
<1>1. IsFiniteSet(T) /\ Cardinality(T) \in Nat
  BY FiniteRefs DEF Answers
<1>2. Len(p) \in Nat /\ Cardinality(Refs(p)) = Len(p)
  BY DEF Trees, Tree
<1>3. Cardinality(Refs(p)) <= Cardinality(T)
  BY <1>1, FS_Subset
<1>. QED BY <1>1, <1>2, <1>3

LEMMA PlansShortest == ASSUME PlannerInv, LedToWanted PROVE PlanIsShortest
<1>. SUFFICES ASSUME joins = "planned", wanted.terminals # {}, NEW T \in Answers
              PROVE  Len(plan) <= Cardinality(T)
  BY DEF PlanIsShortest
<1>1. plan \in Eligible /\ \A q \in Eligible : Len(plan) <= Len(q)
  BY DEF PlannerInv, Decided
<1>2. PartOf(T)
  BY DEF PlannerInv, NoneMissed
<1>3. Len(plan) \in Nat
  BY <1>1, FoundAreTrees DEF PlannerInv, Trees
<1>4. ASSUME NEW i \in DOMAIN found, Refs(found[i]) \subseteq T
      PROVE  Len(plan) <= Cardinality(T)
  <2>1. Len(plan) <= Len(found[i])
    BY <1>1, <1>4, FoundServes
  <2>2. found[i] \in Trees
    BY FoundAreTrees DEF PlannerInv
  <2>. QED BY <1>3, <1>4, <2>1, <2>2, PartIsShorter
<1>5. ASSUME NEW i \in DOMAIN queue, Refs(queue[i]) \subseteq T
      PROVE  Len(plan) <= Cardinality(T)
  <2>1. PICK f \in DOMAIN found : plan = found[f]
    BY <1>1 DEF Eligible, ToSet
  <2>2. Len(plan) <= Len(queue[i])
    BY <2>1 DEF PlannerInv, Enumerated
  <2>3. queue[i] \in Trees
    BY DEF PlannerInv, Enumerated
  <2>. QED BY <1>3, <1>5, <2>2, <2>3, PartIsShorter
<1>. QED BY <1>2, <1>4, <1>5 DEF PartOf

LEMMA NoneOverlooked ==
  ASSUME PlannerInv, LedToWanted, Uncut
  PROVE  RefusedWithoutPathOnly
<1>. SUFFICES ASSUME joins = "NO_APPROVED_PATH", NEW T \in Answers PROVE FALSE
  BY DEF RefusedWithoutPathOnly
<1>1. wanted.terminals # {} /\ ~Enumerating /\ Eligible = {}
  BY DEF PlannerInv, Decided
<1>2. Len(found) < MaxCandidates
  <2>1. CASE wanted.required = {}
    <3>1. \A i \in DOMAIN found : found[i] \in Eligible
      BY <2>1 DEF Eligible, ToSet
    <3>2. Len(found) = 0
      BY <1>1, <3>1, FoundAreTrees DEF PlannerInv
    <3>. QED BY <3>2, PlannerAssumption
  <2>. QED BY <2>1 DEF Uncut
<1>3. queue = <<>>
  BY <1>1, <1>2 DEF Enumerating
<1>4. PICK i \in DOMAIN found : Refs(found[i]) \subseteq T
  BY <1>1, <1>3 DEF PlannerInv, NoneMissed, PartOf
<1>. QED BY <1>1, <1>4, FoundServes

-----------------------------------------------------------------------------
(* The inductive invariant.                                                   *)

\* What binding is called with stays.
Given == graph \in Graphs /\ book \in Books /\ request \in Requests

\* Nothing is collected before the call.
Fresh == closure = "idle" => todo = {} /\ obligations = {} /\ applied = {}

\* A round still has to do, or has done, what its first state activates.
Listed ==
  closure = "round" => Mandatory \cap Candidates(before) \subseteq todo \cup obligations

\* Whatever s activates, t activates.
Within(s, t) ==
  /\ s.tables \subseteq t.tables /\ s.columns \subseteq t.columns
  /\ \A slot \in Slots : s.slots[slot] = None => t.slots[slot] = None

\* Rules that call for no rule but themselves.
SelfContained(S) == S \subseteq Mandatory /\ Mandatory \cap Candidates(Using(S)) \subseteq S

\* Rounds collect nothing beyond any self-contained set of rules.
Least ==
  \A S : SelfContained(S) =>
    obligations \subseteq S /\ todo \cap Mandatory \subseteq S /\ Within(state, Using(S))

\* What the question uses and the obligations need has been added.
Added ==
  /\ seed.tables \subseteq state.tables
  /\ obligations \subseteq Mandatory
  /\ \A r \in obligations :
       /\ NeededTables(book[r].effect) \subseteq state.tables
       /\ NeededColumns(book[r].effect) \subseteq state.columns
       /\ NeededRels(book[r].effect) \subseteq state.rels
  /\ \A rel \in state.rels : rel \in seed.rels \/ Ends(rel) \subseteq state.tables

ClosureInv ==
  ClosureTypeOK /\ Fresh /\ Listed /\ EveryActiveRuleApplied /\ Least /\ Added

\* The planner is called with what the closure came to, and closure is over.
Called ==
  joins # "idle" =>
    /\ closure = "closed" /\ ~Unresolved
    /\ wanted = [base |-> request.base, terminals |-> state.tables \ {request.base},
                 required |-> RequiredRelationships]

JoinsInv ==
  /\ Called /\ PlannerInv
  /\ binding = "bound" => joins = "planned"

\* The closure starts from what the question uses.
Seeded == closure # "idle" => seed = Seed

Outcomes ==
  {"resolving", "closing", "joining", "bound", "NOT_AUTHORIZED", "RULE_CONFLICT",
   "RULE_CLOSURE_NOT_CONVERGED", "MANDATORY_RULE_UNRESOLVED", "NO_APPROVED_PATH"}

Inv == Given /\ ClosureInv /\ JoinsInv /\ Seeded /\ binding \in Outcomes

-----------------------------------------------------------------------------
(* Rules and what they need.                                                  *)

LEMMA NeedsTyped ==
  ASSUME Given, NEW r \in Mandatory
  PROVE  LET e == book[r].effect IN
         /\ e.op = "require"
         /\ NeededRels(e) \subseteq Relationships
         /\ NeededColumns(e) \subseteq Columns
         /\ NeededTables(e) \subseteq Tables
<1>. DEFINE e == book[r].effect
<1>1. e \in Effects /\ e.op = "require"
  BY BindingAssumption DEF Given, RuleRecords, Mandatory
<1>2. e.columns \subseteq Columns /\ e.tables \subseteq Tables /\ e.rel \in Relationships \cup {None}
  BY <1>1 DEF Effects
<1>3. NeededRels(e) \subseteq Relationships
  BY <1>2 DEF NeededRels
<1>4. \A rel \in Relationships : Keys(rel) \subseteq Columns /\ Ends(rel) \subseteq Tables
  BY BindingAssumption DEF Given, RelationshipRecords, Keys, Ends
<1>5. NeededColumns(e) \subseteq Columns
  BY <1>2, <1>3, <1>4 DEF NeededColumns
<1>6. NeededTables(e) \subseteq Tables
  BY <1>2, <1>3, <1>4, CatalogAssumption DEF NeededTables
<1>. QED BY <1>1, <1>3, <1>5, <1>6

\* A state that holds more activates more.
LEMMA ActivationGrows ==
  ASSUME Given, NEW s, NEW t, Within(s, t)
  PROVE  Candidates(s) \subseteq Candidates(t)
<1>. SUFFICES ASSUME NEW r \in Rules, Activates(book[r], s) PROVE Activates(book[r], t)
  BY DEF Candidates
<1>1. book[r].when \in Activations
  BY BindingAssumption DEF Given, RuleRecords
<1>2. CASE book[r].when.op = "slot_unset"
  <2>1. book[r].when.on \subseteq Slots
    BY <1>1, <1>2 DEF Activations
  <2>. QED BY <1>2, <2>1 DEF Activates, Within
<1>3. CASE book[r].when.op # "slot_unset"
  BY <1>3 DEF Activates, Within
<1>. QED BY <1>2, <1>3

LEMMA WidenedFields ==
  ASSUME NEW s \in States, NEW e
  PROVE  /\ Widened(s, e).tables = s.tables \cup NeededTables(e)
         /\ Widened(s, e).columns = s.columns \cup NeededColumns(e)
         /\ Widened(s, e).rels = s.rels \cup NeededRels(e)
         /\ Widened(s, e).slots = s.slots
BY DEF Widened, States

LEMMA UsingFields ==
  ASSUME seed \in States, NEW S
  PROVE  /\ Using(S).tables = seed.tables \cup UNION {NeededTables(book[r].effect) : r \in S}
         /\ Using(S).columns = seed.columns \cup UNION {NeededColumns(book[r].effect) : r \in S}
         /\ Using(S).slots = seed.slots
BY DEF Using, States

-----------------------------------------------------------------------------
(* The closure.                                                               *)

LEMMA SeedTyped == Given => Seed \in States
<1>. SUFFICES ASSUME Given PROVE Seed \in States
  OBVIOUS
<1>1. request \in RequestRecords
  BY BindingAssumption DEF Given
<1>2. UsedColumns \subseteq Columns
  BY <1>1 DEF UsedColumns, RequestRecords
<1>. QED
  BY <1>1, <1>2, CatalogAssumption DEF Seed, States, RequestRecords

\* The call: nothing but the seed is there.
LEMMA OpenClosureKeeps ==
  ASSUME Given, ClosureInv, NEW s \in States, OpenClosure(s)
  PROVE  ClosureInv'
<1>1. obligations = {} /\ todo = {}
  BY DEF ClosureInv, Fresh, OpenClosure
<1>2. ClosureTypeOK'
  BY DEF ClosureInv, ClosureTypeOK, OpenClosure
<1>3. Least'
  <2>. SUFFICES ASSUME NEW S PROVE Within(state, Using(S))'
    BY <1>1 DEF Least, OpenClosure
  <2>1. seed' \in States /\ state' = seed'
    BY DEF OpenClosure
  <2>. QED BY <2>1 DEF Within, Using, States
<1>4. Fresh' /\ Listed' /\ EveryActiveRuleApplied'
  BY DEF OpenClosure, Fresh, Listed, EveryActiveRuleApplied
<1>5. Added'
  BY <1>1 DEF OpenClosure, Added
<1>. QED BY <1>2, <1>3, <1>4, <1>5 DEF ClosureInv

\* What rules need and activate is told from the catalog and the question alone.
LEMMA SameRules ==
  ASSUME UNCHANGED <<graph, book, seed>>
  PROVE  /\ Mandatory' = Mandatory
         /\ \A S : Using(S)' = Using(S) /\ (SelfContained(S)' <=> SelfContained(S))
<1>1. Mandatory' = Mandatory
  BY DEF Mandatory
<1>2. \A S : Using(S)' = Using(S)
  BY DEF Using, NeededTables, NeededColumns, NeededRels, Ends, Keys
<1>3. ASSUME NEW S PROVE SelfContained(S)' <=> SelfContained(S)
  <2>1. Candidates(Using(S))' = Candidates(Using(S))
    BY <1>2 DEF Candidates, Activates
  <2>. QED BY <1>1, <2>1 DEF SelfContained
<1>. QED BY <1>1, <1>2, <1>3

LEMMA SameNeeds ==
  ASSUME Added, UNCHANGED <<graph, book, seed, state, obligations>>
  PROVE  Added'
BY DEF Added, Mandatory, NeededTables, NeededColumns, NeededRels, Ends, Keys

\* The candidates of a round are within what any self-contained set activates.
LEMMA StartRoundKeeps == ASSUME Given, ClosureInv, StartRound, UNCHANGED graph PROVE ClosureInv'
<1>1. ClosureTypeOK'
  <2>1. Candidates(state) \subseteq Rules
    BY DEF Candidates
  <2>2. rounds' \in 0..MaxClosureRounds
    BY RuleAssumption DEF ClosureInv, ClosureTypeOK, StartRound, RoundsLeft
  <2>3. before' \in States /\ todo' \subseteq Rules
    BY <2>1 DEF ClosureInv, ClosureTypeOK, StartRound
  <2>4. closure' \in {"round", "RULE_CLOSURE_NOT_CONVERGED"}
    BY DEF StartRound
  <2>. QED BY <2>2, <2>3, <2>4 DEF ClosureInv, ClosureTypeOK, StartRound
<1>2. Fresh' /\ EveryActiveRuleApplied'
  BY DEF StartRound, Fresh, EveryActiveRuleApplied
<1>3. Listed'
  BY DEF StartRound, Listed, Mandatory, Candidates, Activates
<1>4. Least'
  <2>. SUFFICES ASSUME NEW S, SelfContained(S)'
               PROVE (obligations \subseteq S /\ todo \cap Mandatory \subseteq S
                        /\ Within(state, Using(S)))'
    BY DEF Least
  <2>1. SelfContained(S)
    BY SameRules DEF StartRound
  <2>2. obligations \subseteq S /\ todo \cap Mandatory \subseteq S /\ Within(state, Using(S))
    BY <2>1 DEF ClosureInv, Least
  <2>3. Candidates(state) \cap Mandatory \subseteq S
    BY <2>1, <2>2, ActivationGrows DEF SelfContained
  <2>4. todo' \cap Mandatory \subseteq S
    BY <2>2, <2>3 DEF StartRound
  <2>5. Within(state, Using(S))'
    BY <2>2, SameRules DEF StartRound, Within
  <2>. QED BY <2>2, <2>4, <2>5, SameRules DEF StartRound
<1>5. Added'
  BY SameNeeds DEF StartRound, ClosureInv
<1>. QED BY <1>1, <1>2, <1>3, <1>4, <1>5 DEF ClosureInv

LEMMA EndRoundKeeps == ASSUME Given, ClosureInv, EndRound, UNCHANGED graph PROVE ClosureInv'
<1>1. ClosureTypeOK' /\ Fresh' /\ Listed'
  BY DEF ClosureInv, ClosureTypeOK, EndRound, Fresh, Listed
<1>2. EveryActiveRuleApplied'
  <2>1. Mandatory \cap Candidates(before) \subseteq obligations
    BY DEF ClosureInv, Listed, EndRound
  <2>2. CASE closure' # "closed"
    BY <2>2 DEF EveryActiveRuleApplied
  <2>3. CASE closure' = "closed"
    <3>1. state = before
      BY <2>3 DEF EndRound, Unchanged
    <3>. QED BY <2>1, <3>1 DEF EndRound, EveryActiveRuleApplied, Mandatory, Candidates, Activates
  <2>. QED BY <2>2, <2>3
<1>3. Least'
  BY SameRules DEF ClosureInv, EndRound, Least, Within
<1>4. Added'
  BY SameNeeds DEF EndRound, ClosureInv
<1>. QED BY <1>1, <1>2, <1>3, <1>4 DEF ClosureInv

\* The rule that comes up: what it is, and what of the invariant it leaves alone.
LEMMA RuleComesUp ==
  ASSUME Given, ClosureInv, closure = "round", NEW r \in todo, todo' = todo \ {r},
         UNCHANGED <<graph, book, seed, before, rounds>>,
         state' \in States, Added',
         obligations' \subseteq applied', applied' \subseteq Rules,
         requirements' \subseteq Rules, closure' \in {"round", "NOT_AUTHORIZED"},
         obligations \subseteq obligations', obligations' \subseteq obligations \cup {r},
         r \in Mandatory /\ closure' = "round" => r \in obligations',
         r \notin Mandatory => r \notin obligations' \/ r \in obligations,
         \A S : SelfContained(S) /\ Within(state, Using(S)) /\ (r \in Mandatory => r \in S) =>
           Within(state', Using(S))
  PROVE  ClosureInv'
<1>1. ClosureTypeOK'
  BY DEF ClosureInv, ClosureTypeOK
<1>2. Fresh' /\ EveryActiveRuleApplied'
  BY DEF Fresh, EveryActiveRuleApplied
<1>3. Listed'
  <2>1. (Mandatory \cap Candidates(before))' = Mandatory \cap Candidates(before)
    BY SameRules DEF Candidates, Activates
  <2>2. Mandatory \cap Candidates(before) \subseteq todo \cup obligations
    BY DEF ClosureInv, Listed
  <2>. QED BY <2>1, <2>2 DEF Listed
<1>4. Least'
  <2>. SUFFICES ASSUME NEW S, SelfContained(S)'
               PROVE (obligations \subseteq S /\ todo \cap Mandatory \subseteq S
                        /\ Within(state, Using(S)))'
    BY DEF Least
  <2>1. SelfContained(S)
    BY SameRules
  <2>2. obligations \subseteq S /\ todo \cap Mandatory \subseteq S /\ Within(state, Using(S))
    BY <2>1 DEF ClosureInv, Least
  <2>3. Within(state', Using(S))
    BY <2>1, <2>2
  <2>4. Within(state, Using(S))'
    BY <2>3, SameRules DEF Within
  <2>. QED BY <2>2, <2>4, SameRules
<1>. QED BY <1>1, <1>2, <1>3, <1>4 DEF ClosureInv

\* One rule applied: a default fills a slot, a requirement is noted, and a mandatory rule
\* that may be met widens the state by what it needs.
LEMMA ApplyRuleKeeps == ASSUME Given, ClosureInv, ApplyRule, UNCHANGED graph PROVE ClosureInv'
<1>. PICK r \in todo :
       /\ todo' = todo \ {r}
       /\ \/ ApplyDefault(r, book[r].effect)
          \/ ApplyRequirement(r, book[r].effect)
          \/ ApplyMandatory(r, book[r].effect)
  BY DEF ApplyRule
<1>. DEFINE e == book[r].effect
<1>1. closure = "round" /\ UNCHANGED <<book, seed, before, rounds>>
  BY DEF ApplyRule
<1>2. r \in Rules /\ e \in Effects
  BY BindingAssumption DEF ClosureInv, ClosureTypeOK, Given, RuleRecords
<1>3. state \in States /\ obligations \subseteq applied /\ applied \subseteq Rules
      /\ requirements \subseteq Rules /\ Added
  BY DEF ClosureInv, ClosureTypeOK
<1>4. CASE ApplyDefault(r, e)
  <2>1. r \notin Mandatory /\ e.slot \in Slots /\ e.value \in Values
    BY <1>2, <1>4 DEF ApplyDefault, Mandatory, Effects
  <2>2. state' \in States /\ state'.tables = state.tables /\ state'.columns = state.columns
        /\ state'.rels = state.rels
        /\ \A slot \in Slots : state'.slots[slot] = None => state.slots[slot] = None
    BY <1>3, <1>4, <2>1 DEF ApplyDefault, States
  <2>3. Added'
    BY <1>1, <1>3, <1>4, <2>2
    DEF ApplyDefault, Added, Mandatory, NeededTables, NeededColumns, NeededRels, Ends, Keys
  <2>4. \A S : Within(state, Using(S)) => Within(state', Using(S))
    BY <2>2 DEF Within
  <2>. QED BY <1>1, <1>2, <1>3, <1>4, <2>1, <2>2, <2>3, <2>4, RuleComesUp DEF ApplyDefault
<1>5. CASE ApplyRequirement(r, e)
  <2>1. r \notin Mandatory
    BY <1>5 DEF ApplyRequirement, Mandatory
  <2>2. Added'
    BY <1>1, <1>3, <1>5, SameNeeds DEF ApplyRequirement
  <2>. QED BY <1>1, <1>2, <1>3, <1>5, <2>1, <2>2, RuleComesUp DEF ApplyRequirement
<1>6. CASE ApplyMandatory(r, e)
  <2>1. r \in Mandatory
    BY <1>2, <1>6 DEF ApplyMandatory, Mandatory
  <2>2. CASE Authorized(state, e)
    <3>1. state' = Widened(state, e) /\ obligations' = obligations \cup {r}
          /\ applied' = applied \cup {r} /\ UNCHANGED <<closure, requirements>>
      BY <1>6, <2>2 DEF ApplyMandatory
    <3>2. /\ state'.tables = state.tables \cup NeededTables(e)
          /\ state'.columns = state.columns \cup NeededColumns(e)
          /\ state'.rels = state.rels \cup NeededRels(e)
          /\ state'.slots = state.slots
      BY <1>3, <3>1, WidenedFields
    <3>3. NeededRels(e) \subseteq Relationships /\ NeededColumns(e) \subseteq Columns
          /\ NeededTables(e) \subseteq Tables
      BY <2>1, NeedsTyped
    <3>4. state' \in States
      BY <1>3, <3>1, <3>3 DEF Widened, States
    <3>5. Added'
      BY <1>1, <1>3, <2>1, <3>1, <3>2
      DEF Added, Mandatory, NeededTables, NeededColumns, NeededRels, Ends, Keys
    <3>6. ASSUME NEW S, Within(state, Using(S)), r \in S PROVE Within(state', Using(S))
      <4>1. NeededTables(e) \subseteq Using(S).tables /\ NeededColumns(e) \subseteq Using(S).columns
        BY <3>6, UsingFields DEF ClosureInv, ClosureTypeOK
      <4>. QED BY <3>2, <3>6, <4>1 DEF Within
    <3>. QED BY <1>1, <1>2, <1>3, <2>1, <3>1, <3>4, <3>5, <3>6, RuleComesUp
  <2>3. CASE ~Authorized(state, e)
    <3>1. closure' = "NOT_AUTHORIZED" /\ UNCHANGED <<state, obligations, applied, requirements>>
      BY <1>6, <2>3 DEF ApplyMandatory
    <3>2. Added'
      BY <1>1, <1>3, <3>1, SameNeeds
    <3>. QED BY <1>1, <1>2, <1>3, <2>1, <3>1, <3>2, RuleComesUp
  <2>. QED BY <2>2, <2>3
<1>. QED BY <1>4, <1>5, <1>6

LEMMA ClosureKept ==
  ASSUME ClosureInv, UNCHANGED <<graph, closureVars>>
  PROVE  ClosureInv'
<1>1. (Mandatory \cap Candidates(before))' = Mandatory \cap Candidates(before)
      /\ (Mandatory \cap Candidates(state))' = Mandatory \cap Candidates(state)
  BY SameRules DEF closureVars, Candidates, Activates
<1>2. Listed' /\ EveryActiveRuleApplied'
  BY <1>1 DEF ClosureInv, Listed, EveryActiveRuleApplied, closureVars
<1>3. Least'
  BY SameRules DEF ClosureInv, Least, Within, closureVars
<1>4. Added'
  BY SameNeeds DEF ClosureInv, closureVars
<1>5. ClosureTypeOK' /\ Fresh'
  BY DEF ClosureInv, ClosureTypeOK, Fresh, closureVars
<1>. QED BY <1>2, <1>3, <1>4, <1>5 DEF ClosureInv

-----------------------------------------------------------------------------
(* Rounds and the rules applied in them.                                      *)

\* A rule that was applied has nothing left to do: its slot is set, its needs are met.
Spent ==
  \A r \in applied :
    /\ book[r].effect.op = "set_slot" => state.slots[book[r].effect.slot] # None
    /\ r \in Mandatory => r \in obligations

\* Every round but the last applied a rule for the first time, and so has the last one
\* if it changed anything.
Counted ==
  /\ IsFiniteSet(applied) /\ Spent
  /\ closure = "idle" => rounds = 0
  /\ closure = "between" => rounds <= Cardinality(applied)
  /\ closure = "round" =>
       IF state = before THEN rounds <= Cardinality(applied) + 1
                         ELSE rounds <= Cardinality(applied)
  /\ GivesUpOnLongChainsOnly

LEMMA CountedKept ==
  ASSUME Counted, UNCHANGED <<graph, closureVars>>
  PROVE  Counted'
BY DEF Counted, Spent, Mandatory, GivesUpOnLongChainsOnly, closureVars

\* The call, and the bounds of a round.
LEMMA RoundsCounted ==
  ASSUME ClosureInv, Counted, UNCHANGED graph,
         StartRound \/ EndRound \/ \E s \in States : OpenClosure(s)
  PROVE  Counted'
<1>1. rounds \in 0..MaxClosureRounds /\ MaxClosureRounds \in Nat /\ Cardinality(applied) \in Nat
  BY RuleAssumption, FS_CardinalityType DEF ClosureInv, ClosureTypeOK, Counted
<1>2. CASE StartRound
  BY <1>1, <1>2
  DEF StartRound, RoundsLeft, Counted, Spent, Mandatory, GivesUpOnLongChainsOnly
<1>3. CASE EndRound
  BY <1>1, <1>3
  DEF EndRound, Unchanged, Counted, Spent, Mandatory, GivesUpOnLongChainsOnly
<1>4. CASE \E s \in States : OpenClosure(s)
  <2>1. applied = {} /\ applied' = {}
    BY <1>4 DEF OpenClosure, ClosureInv, Fresh
  <2>. QED
    BY <1>1, <1>4, <2>1, FS_EmptySet DEF OpenClosure, Counted, Spent, GivesUpOnLongChainsOnly
<1>. QED BY <1>2, <1>3, <1>4

\* A rule that changes the state was not applied before.
LEMMA ChangesOnce ==
  ASSUME Given, ClosureInv, Counted, NEW r \in todo,
         \/ ApplyDefault(r, book[r].effect)
         \/ ApplyRequirement(r, book[r].effect)
         \/ ApplyMandatory(r, book[r].effect)
  PROVE  /\ applied' \in {applied, applied \cup {r}}
         /\ state' # state => r \notin applied /\ applied' = applied \cup {r}
<1>. DEFINE e == book[r].effect
<1>1. state \in States /\ r \in Rules
  BY DEF ClosureInv, ClosureTypeOK
<1>2. CASE ApplyDefault(r, e)
  BY <1>2 DEF ApplyDefault, Counted, Spent
<1>3. CASE ApplyRequirement(r, e)
  BY <1>3 DEF ApplyRequirement
<1>4. CASE ApplyMandatory(r, e)
  <2>1. applied' \in {applied, applied \cup {r}}
    BY <1>4 DEF ApplyMandatory
  <2>2. ASSUME r \in applied, state' = Widened(state, e) PROVE state' = state
    <3>1. r \in obligations
      BY <1>1, <1>4, <2>2 DEF ApplyMandatory, Mandatory, Counted, Spent
    <3>2. /\ NeededTables(e) \subseteq state.tables
          /\ NeededColumns(e) \subseteq state.columns
          /\ NeededRels(e) \subseteq state.rels
      BY <3>1 DEF ClosureInv, Added
    <3>. QED BY <1>1, <2>2, <3>2 DEF Widened, States
  <2>. QED BY <1>4, <2>1, <2>2 DEF ApplyMandatory
<1>. QED BY <1>2, <1>3, <1>4

LEMMA SpentKept ==
  ASSUME Given, ClosureInv, Spent, UNCHANGED book, NEW r \in todo,
         \/ ApplyDefault(r, book[r].effect)
         \/ ApplyRequirement(r, book[r].effect)
         \/ ApplyMandatory(r, book[r].effect)
  PROVE  Spent'
<1>. DEFINE e == book[r].effect
<1>1. state \in States /\ applied \subseteq Rules /\ r \in Rules /\ Mandatory' = Mandatory
  BY DEF ClosureInv, ClosureTypeOK, Mandatory
<1>2. \A q \in Rules : book[q].effect \in Effects
  BY BindingAssumption DEF Given, RuleRecords
<1>3. CASE ApplyDefault(r, e)
  <2>1. e.slot \in Slots /\ e.value # None /\ r \notin Mandatory
    BY <1>1, <1>2, <1>3, RuleAssumption DEF ApplyDefault, Effects, Mandatory
  <2>2. \A slot \in Slots : state.slots[slot] # None => state'.slots[slot] # None
    BY <1>1, <1>3, <2>1 DEF ApplyDefault, States
  <2>3. r \in applied' => state'.slots[e.slot] # None
    BY <1>1, <1>3, <2>1 DEF ApplyDefault, States, Spent
  <2>4. \A q \in applied : book[q].effect.op = "set_slot" => book[q].effect.slot \in Slots
    BY <1>1, <1>2 DEF Effects
  <2>. QED BY <1>1, <1>3, <2>1, <2>2, <2>3, <2>4 DEF ApplyDefault, Spent
<1>4. CASE ApplyRequirement(r, e)
  BY <1>1, <1>4 DEF ApplyRequirement, Spent, Mandatory
<1>5. CASE ApplyMandatory(r, e)
  <2>1. state'.slots = state.slots
    BY <1>1, <1>5, WidenedFields DEF ApplyMandatory
  <2>. QED BY <1>1, <1>5, <2>1 DEF ApplyMandatory, Spent
<1>. QED BY <1>3, <1>4, <1>5

LEMMA ApplyRuleCounted ==
  ASSUME Given, ClosureInv, Counted, ApplyRule
  PROVE  Counted'
<1>. PICK r \in todo :
       \/ ApplyDefault(r, book[r].effect)
       \/ ApplyRequirement(r, book[r].effect)
       \/ ApplyMandatory(r, book[r].effect)
  BY DEF ApplyRule
<1>1. /\ closure = "round" /\ closure' \in {"round", "NOT_AUTHORIZED"}
      /\ UNCHANGED <<book, before, rounds>>
  BY DEF ApplyRule, ApplyDefault, ApplyRequirement, ApplyMandatory
<1>2. Spent'
  BY <1>1, SpentKept DEF Counted
<1>3. /\ applied' \in {applied, applied \cup {r}}
      /\ state' # state => r \notin applied /\ applied' = applied \cup {r}
  BY ChangesOnce
<1>4. IsFiniteSet(applied) /\ Cardinality(applied) \in Nat /\ rounds \in Nat
  BY RuleAssumption, FS_CardinalityType DEF Counted, ClosureInv, ClosureTypeOK
<1>5. /\ IsFiniteSet(applied') /\ Cardinality(applied') >= Cardinality(applied)
      /\ state' # state => Cardinality(applied') = Cardinality(applied) + 1
      /\ Cardinality(applied') \in Nat
  <2>1. CASE applied' = applied BY <1>3, <1>4, <2>1
  <2>2. CASE applied' = applied \cup {r} /\ r \notin applied
    BY <1>3, <1>4, <2>2, FS_AddElement
  <2>. QED BY <1>3, <2>1, <2>2
<1>6. IF state = before THEN rounds <= Cardinality(applied) + 1
                        ELSE rounds <= Cardinality(applied)
  BY <1>1 DEF Counted
<1>7. IF state' = before' THEN rounds' <= Cardinality(applied') + 1
                          ELSE rounds' <= Cardinality(applied')
  BY <1>1, <1>4, <1>5, <1>6
<1>. QED BY <1>1, <1>2, <1>5, <1>7 DEF Counted, GivesUpOnLongChainsOnly

-----------------------------------------------------------------------------
(* The joins.                                                                 *)

\* The catalog a request is bound to is one the planner can search.
LEMMA GivenConnected == Given => Connected
BY BindingAssumption DEF Given, Connected

\* What the planner is called with.
LEMMA CallTyped ==
  ASSUME Given, ClosureInv
  PROVE  /\ request.base \in Tables /\ state.tables \in SUBSET Tables
         /\ RequiredRelationships \in SUBSET Relationships
<1>1. request \in RequestRecords
  BY BindingAssumption DEF Given
<1>2. state \in States
  BY DEF ClosureInv, ClosureTypeOK
<1>. QED BY <1>1, <1>2 DEF RequestRecords, States, RequiredRelationships

LEMMA JoinStepKeeps ==
  ASSUME Given, PlannerInv, JoinStep, UNCHANGED <<graph, may>>
  PROVE  PlannerInv'
BY GivenConnected, SearchFinds, SearchExtends, ChooseDecides DEF JoinStep

-----------------------------------------------------------------------------
(* Binding.                                                                   *)

LEMMA InvInit == Init => Inv
<1>. SUFFICES ASSUME Init PROVE Inv
  OBVIOUS
<1>1. Given
  BY DEF Init, Given
<1>2. Nothing \in States
  BY DEF Nothing, States
<1>3. ClosureTypeOK
  BY <1>2, RuleAssumption DEF Init, ClosureTypeOK
<1>4. Least
  <2>. SUFFICES ASSUME NEW S PROVE Within(state, Using(S))
    BY DEF Least, Init
  <2>. QED BY <1>2 DEF Init, Within, Using, States
<1>5. ClosureInv
  BY <1>3, <1>4 DEF Init, ClosureInv, Fresh, Listed, EveryActiveRuleApplied, Added
<1>6. PlannerInv
  <2>1. request.base \in Tables
    BY <1>1, <1>5, CallTyped
  <2>2. /\ wanted = [base |-> request.base, terminals |-> {}, required |-> {}]
        /\ queue = <<>> /\ found = <<>> /\ plan = <<>> /\ joins = "idle"
    BY DEF Init
  <2>3. wanted \in [base : Tables, terminals : SUBSET Tables, required : SUBSET Relationships]
    BY <2>1, <2>2
  <2>4. queue \in Seq(Trees) /\ found \in Seq({p \in Trees : Complete(p)})
        /\ Len(found) = 0 /\ DOMAIN queue = {} /\ DOMAIN found = {}
    BY <2>2
  <2>5. Enumerated
    BY <2>3, <2>4, PlannerAssumption DEF Enumerated
  <2>. QED BY <2>2, <2>5 DEF PlannerInv, NoneMissed, Decided
<1>7. JoinsInv
  BY <1>6 DEF Init, JoinsInv, Called
<1>. QED BY <1>1, <1>5, <1>7 DEF Inv, Init, Seeded, Outcomes

LEMMA JoinsKept ==
  ASSUME JoinsInv, UNCHANGED <<graph, may, joinVars, request>>,
         joins = "idle" \/ UNCHANGED closureVars,
         binding' = "bound" => joins = "planned"
  PROVE  JoinsInv'
<1>1. Called'
  BY DEF JoinsInv, Called, Unresolved, RequiredRelationships, joinVars, closureVars
<1>2. PlannerInv'
  BY PlannerKept DEF JoinsInv
<1>. QED BY <1>1, <1>2 DEF JoinsInv, joinVars

LEMMA SeededKept ==
  ASSUME Seeded, UNCHANGED <<request, seed>>, closure # "idle" \/ UNCHANGED closure
  PROVE  Seeded'
BY DEF Seeded, Seed, UsedColumns

LEMMA InvStep == Inv /\ [Next]_vars => Inv'
<1>. SUFFICES ASSUME Inv, [Next]_vars PROVE Inv'
  OBVIOUS
<1>. Given /\ ClosureInv /\ JoinsInv /\ Seeded /\ binding \in Outcomes
  BY DEF Inv
<1>1. CASE UNCHANGED vars
  <2>1. UNCHANGED <<catalogVars, closureVars, joinVars, request, binding>>
    BY <1>1 DEF vars
  <2>2. ClosureInv' /\ JoinsInv' /\ Given'
    BY <2>1, ClosureKept, JoinsKept DEF catalogVars, Given, closureVars, JoinsInv
  <2>. QED BY <2>1, <2>2, SeededKept DEF Inv, closureVars
<1>2. CASE Resolve
  <2>1. joins = "idle" \/ UNCHANGED closureVars
    BY <1>2 DEF Resolve, OpenClosure, JoinsInv, Called
  <2>2. ClosureInv'
    BY <1>2, SeedTyped, OpenClosureKeeps, ClosureKept DEF Resolve, catalogVars
  <2>3. JoinsInv' /\ binding' \in Outcomes
    BY <1>2, <2>1, JoinsKept DEF Resolve, catalogVars, Outcomes
  <2>4. Given'
    BY <1>2 DEF Resolve, Given, catalogVars, OpenClosure, closureVars
  <2>5. Seeded'
    <3>1. CASE OpenClosure(Seed)
      BY <1>2, <3>1 DEF Resolve, OpenClosure, Seeded, Seed, UsedColumns
    <3>2. CASE UNCHANGED closureVars
      BY <1>2, <3>2, SeededKept DEF Resolve, closureVars
    <3>. QED BY <1>2, <3>1, <3>2 DEF Resolve
  <2>. QED BY <2>2, <2>3, <2>4, <2>5 DEF Inv
<1>3. CASE Close
  <2>1. joins = "idle" /\ closure # "idle" /\ UNCHANGED <<book, seed, request, binding>>
    BY <1>3 DEF Close, ClosureStep, StartRound, ApplyRule, EndRound, JoinsInv, Called
  <2>2. ClosureInv'
    BY <1>3, StartRoundKeeps, ApplyRuleKeeps, EndRoundKeeps DEF Close, ClosureStep, catalogVars
  <2>3. JoinsInv'
    BY <1>3, <2>1, JoinsKept DEF Close, catalogVars, JoinsInv
  <2>. QED BY <1>3, <2>1, <2>2, <2>3, SeededKept DEF Close, Inv, Given, catalogVars
<1>4. CASE ClosureRefused
  <2>1. binding' \in Outcomes \ {"bound"}
    BY <1>4 DEF ClosureRefused, ClosureInv, ClosureTypeOK, Outcomes
  <2>2. ClosureInv' /\ JoinsInv' /\ Given'
    BY <1>4, <2>1, ClosureKept, JoinsKept DEF ClosureRefused, Given, catalogVars, closureVars
  <2>. QED BY <1>4, <2>1, <2>2, SeededKept DEF ClosureRefused, Inv, closureVars
<1>5. CASE Closed
  <2>1. ClosureInv' /\ Given' /\ Seeded'
    BY <1>5, ClosureKept, SeededKept DEF Closed, Given, catalogVars, closureVars
  <2>2. CASE Unresolved
    BY <1>5, <2>1, <2>2, JoinsKept DEF Closed, Inv, catalogVars, Outcomes
  <2>3. CASE ~Unresolved
    <3>1. OpenJoins(request.base, state.tables, RequiredRelationships) /\ binding' = "joining"
      BY <1>5, <2>3 DEF Closed
    <3>2. PlannerInv'
      BY <3>1, CallTyped, OpenJoinsPlans DEF JoinsInv
    <3>3. Called'
      BY <1>5, <2>3, <3>1
      DEF Closed, OpenJoins, Called, Unresolved, RequiredRelationships, closureVars
    <3>. QED BY <2>1, <3>1, <3>2, <3>3 DEF Inv, JoinsInv, Outcomes
  <2>. QED BY <2>2, <2>3
<1>6. CASE Join
  <2>1. ClosureInv' /\ Given' /\ Seeded'
    BY <1>6, ClosureKept, SeededKept DEF Join, Given, catalogVars, closureVars
  <2>2. PlannerInv'
    BY <1>6, JoinStepKeeps DEF Join, JoinsInv, catalogVars
  <2>3. Called' /\ joins = "searching" /\ UNCHANGED binding
    BY <1>6
    DEF Join, JoinStep, Search, Choose, JoinsInv, Called, Unresolved, RequiredRelationships,
        closureVars
  <2>. QED BY <2>1, <2>2, <2>3 DEF Inv, JoinsInv
<1>7. CASE Bind
  <2>1. /\ binding' = "bound" => joins = "planned"
        /\ binding' \in Outcomes
    BY <1>7 DEF Bind, JoinsInv, PlannerInv, Decided, Outcomes
  <2>2. ClosureInv' /\ JoinsInv' /\ Given'
    BY <1>7, <2>1, ClosureKept, JoinsKept DEF Bind, Given, catalogVars, closureVars
  <2>. QED BY <1>7, <2>1, <2>2, SeededKept DEF Bind, Inv, closureVars
<1>. QED BY <1>1, <1>2, <1>3, <1>4, <1>5, <1>6, <1>7 DEF Next

-----------------------------------------------------------------------------
(* The theorems.                                                              *)

LEMMA Invariant == Spec => []Inv
BY InvInit, InvStep, PTL DEF Spec

\* The closure is well typed, and takes no more rounds than it may.
THEOREM ClosureTypes == Spec => []ClosureTypeOK
<1>1. Inv => ClosureTypeOK
  BY DEF Inv, ClosureInv
<1>. QED BY <1>1, Invariant, PTL

\* Whatever a closed state activates has been applied, for rules of any number,
\* whatever they activate and in whichever order they come up.
THEOREM FixedPoint == Spec => []EveryActiveRuleApplied
<1>1. Inv => EveryActiveRuleApplied
  BY DEF Inv, ClosureInv
<1>. QED BY <1>1, Invariant, PTL

\* No rule binds the plan unless the question, or a rule that binds it, calls for it.
THEOREM LeastFixedPoint == Spec => []NoRuleUncalledFor
<1>1. Inv => NoRuleUncalledFor
  BY DEF Inv, ClosureInv, Least, SelfContained, NoRuleUncalledFor
<1>. QED BY <1>1, Invariant, PTL

\* Rounds count up to the rules applied, in every step of a binding.
LEMMA CountedInit == Init => Counted
BY FS_EmptySet DEF Init, Counted, Spent, GivesUpOnLongChainsOnly

LEMMA CountedStep == Inv /\ Counted /\ [Next]_vars => Counted'
<1>. SUFFICES ASSUME Inv, Counted, [Next]_vars PROVE Counted'
  OBVIOUS
<1>. Given /\ ClosureInv
  BY DEF Inv
<1>1. CASE UNCHANGED vars BY <1>1, CountedKept DEF vars, catalogVars
<1>2. CASE Resolve
  BY <1>2, SeedTyped, RoundsCounted, CountedKept DEF Resolve, catalogVars
<1>3. CASE Close
  BY <1>3, RoundsCounted, ApplyRuleCounted DEF Close, ClosureStep, catalogVars
<1>4. CASE ClosureRefused \/ Closed \/ Join \/ Bind
  BY <1>4, CountedKept DEF ClosureRefused, Closed, Join, Bind, catalogVars
<1>. QED BY <1>1, <1>2, <1>3, <1>4 DEF Next

\* The closure gives up only after as many rules as it has rounds, for any rules: every
\* round that is followed by another applied one for the first time.
THEOREM LongChainsOnly == Spec => []GivesUpOnLongChainsOnly
<1>1. Counted => GivesUpOnLongChainsOnly
  BY DEF Counted
<1>. QED BY <1>1, CountedInit, CountedStep, Invariant, PTL DEF Spec

\* A bound plan joins the tables and takes the relationships that its obligations need,
\* with the tables of the question, whatever the catalog and the limits of the planner.
THEOREM PlansMeetRules == Spec => []BoundPlanMeetsRules
<1>1. Inv => BoundPlanMeetsRules
  <2>. SUFFICES ASSUME Inv, binding = "bound"
               PROVE /\ request.required_rules \subseteq applied
                     /\ \A r \in obligations :
                          /\ NeededTables(book[r].effect) \subseteq PlannedTables
                          /\ NeededRels(book[r].effect) \subseteq Refs(plan)
                     /\ seed.tables \subseteq PlannedTables
    BY DEF BoundPlanMeetsRules
  <2>. Given /\ Added /\ Called /\ PlannerInv /\ joins = "planned"
    BY DEF Inv, ClosureInv, JoinsInv
  <2>0. \/ wanted.terminals = {} /\ plan = <<>>
        \/ Complete(plan) /\ wanted.required \subseteq Refs(plan)
    BY FoundAreTrees DEF PlannerInv, Decided
  <2>1. request.required_rules \subseteq applied
    BY DEF Called, Unresolved
  <2>2. wanted.base = request.base /\ wanted.terminals = state.tables \ {request.base}
        /\ wanted.required = request.via \cup state.rels
    BY DEF Called, RequiredRelationships
  <2>3. CASE wanted.terminals = {} /\ plan = <<>>
    <3>1. state.tables \subseteq {request.base} /\ PlannedTables = {request.base}
      BY <2>2, <2>3 DEF PlannedTables
    <3>2. ASSUME NEW r \in obligations PROVE NeededRels(book[r].effect) = {}
      <4>. SUFFICES ASSUME NEW rel \in NeededRels(book[r].effect) PROVE FALSE
        OBVIOUS
      <4>1. Ends(rel) \subseteq {request.base}
        BY <3>1 DEF Added, NeededTables
      <4>2. rel \in Relationships
        BY NeedsTyped DEF Added
      <4>. QED BY <4>1, <4>2, BindingAssumption DEF Ends, Given
    <3>. QED BY <2>1, <3>1, <3>2 DEF Added
  <2>4. CASE Complete(plan) /\ wanted.required \subseteq Refs(plan)
    <3>1. state.tables \subseteq PlannedTables
      BY <2>2, <2>4 DEF Complete, Visited, PlannedTables
    <3>. QED BY <2>1, <2>2, <2>4, <3>1 DEF Added
  <2>. QED BY <2>0, <2>3, <2>4
<1>. QED BY <1>1, Invariant, PTL

-----------------------------------------------------------------------------
(* The plans.                                                                 *)

\* A dimension is reached at a table the question uses: whatever a relationship it goes
\* through may be entered at is one.
LedToTables == \A rel \in request.via : OneSide(rel) \subseteq Seed.tables

LEMMA RulesLeadToTables ==
  ASSUME Inv, LedToTables, joins # "idle"
  PROVE  LedToWanted
<1>1. /\ closure = "closed" /\ wanted.base = request.base
      /\ wanted.terminals = state.tables \ {request.base}
      /\ wanted.required = request.via \cup state.rels
  BY DEF Inv, JoinsInv, Called, RequiredRelationships
<1>2. seed = Seed /\ Added
  BY <1>1 DEF Inv, Seeded, ClosureInv
<1>3. Seed.tables \subseteq state.tables /\ Seed.rels = request.via
  BY <1>2 DEF Added, Seed
<1>4. \A rel \in state.rels : rel \in request.via \/ Ends(rel) \subseteq state.tables
  BY <1>2, <1>3 DEF Added
<1>5. \A rel : OneSide(rel) \subseteq Ends(rel)
  BY DEF OneSide, Ends
<1>6. \A rel \in wanted.required : OneSide(rel) \subseteq state.tables
  BY <1>1, <1>3, <1>4, <1>5 DEF LedToTables
<1>. QED BY <1>1, <1>6 DEF LedToWanted

\* A binding is well typed from the resolution to the bound plan or the code it is refused
\* with: no list of partial plans grows past its limits.
THEOREM BindingTypes == Spec => []TypeOK
<1>1. Inv => TypeOK
  BY PlansTyped DEF Inv, ClosureInv, JoinsInv, Given, Outcomes, TypeOK
<1>. QED BY <1>1, Invariant, PTL

\* Whatever is planned is a connection: a tree of permitted relationships from the base
\* through every table that is needed and every edge that was mandated, over which no row
\* of the base is counted twice.
THEOREM PlansAreConnections == Spec => []PlanConnects
<1>1. Inv => PlanConnects
  BY PlansConnect DEF Inv, JoinsInv
<1>. QED BY <1>1, Invariant, PTL

\* No connection has fewer joins than the plan, whatever the limit on candidates cuts off.
THEOREM PlansAreShortest == Spec => [](LedToTables => PlanIsShortest)
<1>1. Inv => (LedToTables => PlanIsShortest)
  <2>. SUFFICES ASSUME Inv, LedToTables PROVE PlanIsShortest
    OBVIOUS
  <2>1. CASE joins = "idle" BY <2>1 DEF PlanIsShortest
  <2>2. CASE joins # "idle"
    BY <2>2, RulesLeadToTables, PlansShortest DEF Inv, JoinsInv
  <2>. QED BY <2>1, <2>2
<1>. QED BY <1>1, Invariant, PTL

\* A path is reported missing only when no tree of the catalog connects the tables within
\* the hops allowed, unless as many plans were found as may be and all were passed over
\* for an edge that is mandated.
THEOREM PathsAreFound == Spec => [](LedToTables /\ Uncut => RefusedWithoutPathOnly)
<1>1. Inv => (LedToTables /\ Uncut => RefusedWithoutPathOnly)
  <2>. SUFFICES ASSUME Inv, LedToTables, Uncut PROVE RefusedWithoutPathOnly
    OBVIOUS
  <2>1. CASE joins = "idle" BY <2>1 DEF RefusedWithoutPathOnly
  <2>2. CASE joins # "idle"
    BY <2>2, RulesLeadToTables, NoneOverlooked DEF Inv, JoinsInv
  <2>. QED BY <2>1, <2>2
<1>. QED BY <1>1, Invariant, PTL

\* Two roles of one table never raise AMBIGUOUS_PATH: the rank ends with the references,
\* which decide between any two plans on different relationships.
THEOREM NeverAmbiguous == Spec => [](joins # "AMBIGUOUS_PATH" /\ binding # "AMBIGUOUS_PATH")
<1>1. Inv => joins # "AMBIGUOUS_PATH" /\ binding # "AMBIGUOUS_PATH"
  BY DEF Inv, JoinsInv, PlannerInv, Decided, Outcomes
<1>. QED BY <1>1, Invariant, PTL
===============================================================================
