-------------------------------- MODULE Policy --------------------------------
(***************************************************************************)
(* app/authorization/policy.py: what a principal's policy document allows.  *)
(* A pattern is the ID of a resource, or a prefix with ".*", which stands   *)
(* for the resource of that name and all below it.                          *)
(***************************************************************************)
CONSTANTS
  Resources,  \* IDs of metrics, dimensions, tables and columns
  Below       \* Below[x]: the resources whose ID continues that of x with a dot

Actions == {"discover", "read", "use_in_predicate", "execute_metric", "disclose"}

Patterns == [of : Resources, wild : BOOLEAN]

ASSUME BelowAssumption == Below \in [Resources -> SUBSET Resources]

Documents == [grants : [Actions -> SUBSET Patterns], denies : [Actions -> SUBSET Patterns]]

\* The actions whose denial denies this one as well.
DenyCascade ==
  [a \in Actions |->
     CASE a = "discover" -> {}
       [] a = "read" -> {"discover"}
       [] a = "use_in_predicate" -> {"discover", "read"}
       [] a = "execute_metric" -> {"discover"}
       [] a = "disclose" -> {"discover", "read"}]

Names(patterns, r) == [of |-> r, wild |-> FALSE] \in patterns

Matches(patterns, r) ==
  Names(patterns, r) \/ \E p \in patterns : p.wild /\ (r = p.of \/ r \in Below[p.of])

Denied(doc, a, r) == Matches(doc.denies[a], r)

DeniedMoreBroadly(doc, a, r) == \E b \in DenyCascade[a] : Denied(doc, b, r)

\* Reading a column includes using it.
Granted(doc, a, r) ==
  \/ Matches(doc.grants[a], r)
  \/ a = "use_in_predicate" /\ Matches(doc.grants["read"], r)

\* Variant: an exact grant is looked for before the action's own denies.
AllowedGrantFirst(doc, a, r) ==
  IF DeniedMoreBroadly(doc, a, r)
    THEN Names(doc.grants[a], r)
    ELSE ~Denied(doc, a, r) /\ Granted(doc, a, r)

\* PolicyEngine.check: a deny of the action itself is final, and what a broader deny
\* takes away only a grant that names the resource gives back.
Allowed(doc, a, r) ==
  /\ ~Denied(doc, a, r)
  /\ IF DeniedMoreBroadly(doc, a, r) THEN Names(doc.grants[a], r) ELSE Granted(doc, a, r)

-----------------------------------------------------------------------------
(* Edits of a document, and what they must not do.                           *)

MoreDenied(old, new) == \A a \in Actions : old.denies[a] \subseteq new.denies[a]

\* Denies are added and grants withdrawn.
Tightened(old, new) ==
  MoreDenied(old, new) /\ \A a \in Actions : new.grants[a] \subseteq old.grants[a]

\* Every grant that is added is a wildcard.
Broadened(old, new) ==
  /\ MoreDenied(old, new)
  /\ \A a \in Actions : \A p \in new.grants[a] \ old.grants[a] : p.wild

\* A tighter document allows nothing new, and a broad grant reopens nothing that a
\* deny, of the action or of a broader one, has closed.
EditHolds(old, new) ==
  \A a \in Actions, r \in Resources : Allowed(new, a, r) /\ ~Allowed(old, a, r) =>
    /\ ~Tightened(old, new)
    /\ Broadened(old, new) => ~Denied(old, a, r) /\ ~DeniedMoreBroadly(old, a, r)
==============================================================================
