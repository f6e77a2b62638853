------------------------------ MODULE MCStartup ------------------------------
(***************************************************************************)
(* Two publications race for one snapshot ID, and two runtimes load it and  *)
(* rebuild its index.                                                        *)
(***************************************************************************)
EXTENDS Startup

Reviewed == [defines |-> {1, 2}, cites |-> {1}, supersedes |-> {}]
Edited == [defines |-> {1, 2}, cites |-> {1, 2}, supersedes |-> {3}]

\* What validation rejects: a citation that does not resolve, and a metric that
\* supersedes one still published.
Dangling == [defines |-> {1}, cites |-> {1, 2}, supersedes |-> {}]
Superseding == [defines |-> {1, 2}, cites |-> {1}, supersedes |-> {2}]

SomeBundles == {Reviewed, Edited, Dangling, Superseding}

\* Bound: the index does not depend on the bundle, so it is built from one publication
\* only, when the other has been rejected.
Projected ==
  \E p \in Publishers : \A q \in Publishers :
    IF q = p THEN pub[q].pc = "published" /\ pub[q].bundle = Reviewed
             ELSE pub[q].pc = "rejected" /\ pub[q].bundle = Dangling

OneProjectionSpec ==
  Init /\ [][Next /\ (builds' = builds \/ Projected)]_vars /\ Fairness
==============================================================================
