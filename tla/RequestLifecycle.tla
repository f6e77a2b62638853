-------------------------- MODULE RequestLifecycle --------------------------
(***************************************************************************)
(* What the workflow promises the person who asks, without a word about how *)
(* it gets there: a question is worked on, may be suspended to have a slot  *)
(* settled, and comes to exactly one end.  A settled slot is never asked    *)
(* about again, and a computed answer honours every slot that was settled.  *)
(***************************************************************************)
CONSTANTS Slots, Values, None

VARIABLES
  status,   \* none, working, waiting, answered, refused or failed
  asking,   \* the slot the user is asked about while waiting
  settled,  \* what the user chose for each slot
  outcome   \* what a computed answer measured, slot by slot

vars == <<status, asking, settled, outcome>>

Unsettled == [s \in Slots |-> None]

Init ==
  /\ status = "none"
  /\ asking = None
  /\ settled = Unsettled
  /\ outcome = None

Ask ==
  /\ status = "none" /\ status' = "working"
  /\ UNCHANGED <<asking, settled, outcome>>

\* Suspend on a question about a slot nobody has settled.
Pose ==
  /\ status = "working" /\ status' = "waiting"
  /\ asking' \in {s \in Slots : settled[s] = None}
  /\ UNCHANGED <<settled, outcome>>

\* The user settles the slot asked about, or answers something never offered.
Reply ==
  /\ status = "waiting" /\ status' = "working"
  /\ asking' = None
  /\ \/ \E v \in Values : settled' = [settled EXCEPT ![asking] = v]
     \/ UNCHANGED settled
  /\ UNCHANGED outcome

\* A computed answer, over a population the user chose.
Compute ==
  /\ status = "working" /\ status' = "answered"
  /\ outcome' \in {o \in [Slots -> Values \cup {None}] :
                    \A s \in Slots : settled[s] # None => o[s] = settled[s]}
  /\ UNCHANGED <<asking, settled>>

\* An answer from the catalog alone, or a refusal: no data either way.
Conclude ==
  /\ status = "working" /\ status' \in {"answered", "refused"}
  /\ UNCHANGED <<asking, settled, outcome>>

\* An exception leaves the request without an end of its own.
Fail ==
  /\ status \in {"working", "waiting"} /\ status' = "failed"
  /\ asking' = None
  /\ UNCHANGED <<settled, outcome>>

Next == Ask \/ Pose \/ Reply \/ Compute \/ Conclude \/ Fail

Spec == Init /\ [][Next]_vars

\* Work on a request always ends, in an answer or in a question.
WorkEnds == status = "working" ~> status # "working"

=============================================================================
